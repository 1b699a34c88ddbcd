-------------------------- MODULE WindowPanesProofs --------------------------
(****************************************************************************)
(* What a layout is, and what a workspace shows of the panes of its runtime  *)
(* and of their output once everything asked is answered and read, for every *)
(* number of workspaces, runtimes, terminals, actors, operations and faults. *)
(*                                                                           *)
(* A layout has each of its leaves once, and so do the trees of the daemon   *)
(* and of what it tells (Laid). A split takes a number nobody has. A pane    *)
(* that takes the place of a terminal is not shown yet, because a new pane   *)
(* is told of before anything that lists it (Unseen).                        *)
(*                                                                           *)
(* An event is read long after it is sent. What it says of the panes is true *)
(* when all that is sent after it is read too: the tree of an answer is the  *)
(* one the runtime has, but for the panes that later events make and close   *)
(* (Current). A workspace that the actor in use attends to agrees with the   *)
(* runtime in the same sense, with what is on its way and what could not be  *)
(* placed (Faithful), unless an answer is on its way that will make it agree. *)
(* What a pane printed is shown, missed or on its way (Fed); what it prints  *)
(* after a snapshot was made is told after the snapshot (FollowedUp). Or it  *)
(* is unheard, which nothing is in a runtime that has a connection attached  *)
(* (Tuned); the connection of an actor that tracks a workspace of a runtime  *)
(* is attached there, or was severed (Wired).                                *)
(*                                                                           *)
(* The steps are of three kinds, each with its lemma: the actors and the     *)
(* daemon tell of what they do (Works), the user changes what is shown       *)
(* without a word from them (Tends), the poller reads (TakesIn). A workspace *)
(* that comes is not attended to yet: its number is new, or, if it is        *)
(* recovered, what was closed under that number is forgotten or will be      *)
(* (Parted).                                                                 *)
(****************************************************************************)
EXTENDS WindowProofs

-----------------------------------------------------------------------------
(* What a layout is.                                                        *)

\* A layout, of the client or of the daemon, of the first n terminals.
IsLayout(s, n) == s \in Seq(1..n) /\ NoDuplicates(s)
IsLaid(x, n) ==
  /\ IsLayout(x.layout, n) /\ x.layout # <<>>
  /\ x.zoom \in 0..n /\ x.status \in Statuses

\* The panes an event puts into a layout.
Brings(e, t) == \/ e.kind = "opened" /\ t \in ToSet(e.panes)
                \/ e.kind = "created" /\ t = e.pane
                \/ e.kind = "inventory" /\ \E r \in DOMAIN e.stock : t \in ToSet(e.stock[r])
Tidy(e, n) ==
  /\ e.status \in Statuses \cup {""} /\ (e.kind = "terminated" => e.status # "")
  /\ e.kind = "opened" => IsLayout(e.panes, n)
  /\ e.kind = "created" => e.pane \in 1..n
  /\ e.kind = "inventory" => \A r \in DOMAIN e.stock : IsLayout(e.stock[r], n)

\* A pane that is told of as new is not shown, nor put into a layout by what is read first.
Unseen ==
  \A n \in DOMAIN events : events[n].kind = "created" =>
    /\ events[n].pane \notin Shown(workspaces)
    /\ \A m \in DOMAIN events : m < n => ~Brings(events[m], events[n].pane)

Upto == minted.terminals
Laid ==
  /\ Upto \in 0..MaxTerminals
  /\ \A w \in DOMAIN workspaces : IsLaid(workspaces[w], Upto)
  /\ \A w \in DOMAIN saved.workspaces : IsLaid(saved.workspaces[w], Upto)
  /\ \A r \in DOMAIN runtimes : IsLayout(runtimes[r], Upto)
  /\ index \cup widgets \cup printed \subseteq 1..Upto
  /\ shown \subseteq widgets /\ (life = "off" => shown = {})
  /\ life \in {"up", "leaving", "off"}
  /\ direct \in BOOLEAN /\ saved.direct \in BOOLEAN /\ connecting \in BOOLEAN
  /\ \A e \in Sent : Tidy(e, Upto)
  /\ Unseen

\* An actor that was replaced has ended, or will when it comes to it.
Retired ==
  /\ Len(actors) <= MaxActors
  /\ \A i \in DOMAIN actors :
       /\ actors[i].link \in {"none", "up", "lost", "ended"}
       /\ i < Len(actors) =>
            actors[i].link = "ended" \/ \E c \in ToSet(actors[i].queue) : c.kind = "shutdown"

\* More terminals do no harm.
LEMMA LayoutsLast ==
  ASSUME NEW n \in Nat, NEW m \in Nat, n <= m
  PROVE  /\ 1..n \subseteq 1..m
         /\ \A s : IsLayout(s, n) => IsLayout(s, m)
         /\ \A x : IsLaid(x, n) => IsLaid(x, m)
         /\ \A e : Tidy(e, n) => Tidy(e, m)
<1>1. 1..n \subseteq 1..m /\ 0..n \subseteq 0..m
  OBVIOUS
<1>2. ASSUME NEW s, IsLayout(s, n) PROVE IsLayout(s, m)
  BY <1>1, <1>2, SeqMonotonic DEF IsLayout
<1>3. \A x : IsLaid(x, n) => IsLaid(x, m)
  BY <1>1, <1>2 DEF IsLaid
<1>4. \A e : Tidy(e, n) => Tidy(e, m)
  BY <1>1, <1>2 DEF Tidy
<1> QED BY <1>1, <1>2, <1>3, <1>4

\* The leaves of a layout.
LEMMA LayoutIs ==
  ASSUME NEW s, NEW n, IsLayout(s, n)
  PROVE  /\ IsSeq(s) /\ ToSet(s) \subseteq 1..n
         /\ Len(s) \in Nat /\ DOMAIN s = 1..Len(s)
<1>1. s \in Seq(1..n)
  BY DEF IsLayout
<1>2. IsSeq(s) /\ Len(s) \in Nat /\ DOMAIN s = 1..Len(s)
  BY <1>1, SeqIsSeq, LenProperties
<1>3. \A k \in DOMAIN s : s[k] \in 1..n
  BY <1>1, <1>2, ElementOfSeq
<1> QED BY <1>2, <1>3 DEF ToSet

\* A layout of one leaf, and none.
LEMMA SmallLayouts ==
  ASSUME NEW n
  PROVE  /\ IsLayout(<<>>, n) /\ ToSet(<<>>) = {}
         /\ \A t \in 1..n : IsLayout(<<t>>, n) /\ <<t>> # <<>> /\ ToSet(<<t>>) = {t}
<1>1. IsLayout(<<>>, n) /\ ToSet(<<>>) = {}
  BY ShortSeqs DEF IsLayout, NoDuplicates
<1>2. ASSUME NEW t \in 1..n PROVE IsLayout(<<t>>, n) /\ <<t>> # <<>> /\ ToSet(<<t>>) = {t}
  <2>1. <<t>> \in Seq(1..n) /\ DOMAIN <<t>> = {1} /\ <<t>> # <<>>
    OBVIOUS
  <2> QED BY <2>1, ShortSeqs DEF IsLayout, NoDuplicates
<1> QED BY <1>1, <1>2

\* A leaf is split (split_terminal_with_new_uuid, layout.rs:188; split_leaf, pane_tree.rs:144).
LEMMA SplitIsLayout ==
  ASSUME NEW s, NEW n, IsLayout(s, n), NEW t \in ToSet(s), NEW new \in 1..n, new \notin ToSet(s)
  PROVE  /\ IsLayout(SplitLeaf(s, t, new), n) /\ SplitLeaf(s, t, new) # <<>>
         /\ ToSet(SplitLeaf(s, t, new)) = ToSet(s) \cup {new}
<1> DEFINE P == 1..n
<1>1. s \in Seq(P) /\ NoDuplicates(s) /\ new \in P
  BY DEF IsLayout
<1> HIDE DEF P
<1>2. /\ SplitLeaf(s, t, new) \in Seq(P) /\ NoDuplicates(SplitLeaf(s, t, new))
      /\ ToSet(SplitLeaf(s, t, new)) = ToSet(s) \cup {new}
  BY <1>1, SplitLeafAdds
<1>3. SplitLeaf(s, t, new) # <<>>
  BY <1>2, ShortSeqs
<1> QED BY <1>2, <1>3 DEF IsLayout, P

\* A leaf is removed (remove_terminal, layout.rs:241; remove_from, pane_tree.rs:189).
LEMMA RemovedIsLayout ==
  ASSUME NEW s, NEW n, IsLayout(s, n), NEW t
  PROVE  /\ IsLayout(RemoveLeaf(s, t), n)
         /\ ToSet(RemoveLeaf(s, t)) = ToSet(s) \ {t}
         /\ s # <<>> /\ s # <<t>> => RemoveLeaf(s, t) # <<>>
<1>1. CASE t \notin ToSet(s)
  BY <1>1 DEF RemoveLeaf
<1>2. CASE t \in ToSet(s)
  <2>1. /\ IsLayout(RemoveLeaf(s, t), n)
        /\ ToSet(RemoveLeaf(s, t)) = ToSet(s) \ {t}
    BY <1>2, CloseLeafRemoves DEF RemoveLeaf, IsLayout
  <2>2. ASSUME s # <<t>> PROVE \E u \in ToSet(s) : u # t
    <3>1. s \in Seq(1..n) /\ DOMAIN s = 1..Len(s) /\ Len(s) \in Nat
      BY LenProperties DEF IsLayout
    <3>2. PICK k \in DOMAIN s : s[k] = t
      BY <1>2 DEF ToSet
    <3>3. CASE Len(s) = 1
      <4>1. s[1] = t
        BY <3>1, <3>2, <3>3
      <4>2. s = <<t>>
        BY <3>1, <3>3, <4>1
      <4> QED BY <2>2, <4>2
    <3>4. CASE Len(s) # 1
      <4>1. PICK j \in DOMAIN s : j # k
        <5>1. 1 \in DOMAIN s /\ Len(s) \in DOMAIN s /\ Len(s) # 1
          BY <3>1, <3>2, <3>4
        <5> QED BY <5>1
      <4>2. s[j] # t
        BY <3>2, <4>1 DEF IsLayout, NoDuplicates
      <4> QED BY <4>2 DEF ToSet
    <3> QED BY <3>3, <3>4
  <2>3. ToSet(<<>>) = {}
    BY ShortSeqs
  <2> QED BY <2>1, <2>2, <2>3
<1> QED BY <1>1, <1>2

\* A leaf is renamed (replace_terminal_uuid, layout.rs:123).
LEMMA RenamedIsLayout ==
  ASSUME NEW s, NEW n, IsLayout(s, n), NEW t, NEW new \in 1..n, new \notin ToSet(s)
  PROVE  /\ IsLayout(RenameLeaf(s, t, new), n)
         /\ ToSet(RenameLeaf(s, t, new)) \subseteq ToSet(s) \cup {new}
         /\ s # <<>> => RenameLeaf(s, t, new) # <<>>
<1> DEFINE u == RenameLeaf(s, t, new)
<1>1. Len(s) \in Nat /\ DOMAIN s = 1..Len(s) /\ ToSet(s) \subseteq 1..n /\ \A k \in DOMAIN s : s[k] \in ToSet(s)
  BY LayoutIs DEF ToSet
<1>2. DOMAIN u = DOMAIN s /\ \A k \in DOMAIN s : u[k] = IF s[k] = t THEN new ELSE s[k]
  BY DEF RenameLeaf
<1>3. u = [k \in 1..Len(s) |-> u[k]]
  BY <1>1 DEF RenameLeaf
<1> HIDE DEF u
<1>4. IsSeq(u) /\ Len(u) = Len(s)
  BY <1>1, <1>3, ListIsSeq
<1>5. ToSet(u) \subseteq ToSet(s) \cup {new}
  BY <1>1, <1>2 DEF ToSet
<1>6. u \in Seq(1..n)
  <2>1. u \in Seq(ToSet(u)) /\ ToSet(u) \subseteq 1..n
    BY <1>1, <1>4, <1>5 DEF IsSeq
  <2> QED BY <2>1, SeqMonotonic
<1>7. NoDuplicates(u)
  <2> SUFFICES ASSUME NEW i \in DOMAIN u, NEW j \in DOMAIN u, u[i] = u[j] PROVE i = j
    BY DEF NoDuplicates
  <2>1. s[i] = s[j]
    BY <1>1, <1>2
  <2> QED BY <1>2, <2>1 DEF IsLayout, NoDuplicates
<1>8. s # <<>> => u # <<>>
  BY <1>1, <1>2, <1>4, SeqFacts, LayoutIs
<1> QED BY <1>5, <1>6, <1>7, <1>8 DEF IsLayout, u

-----------------------------------------------------------------------------
(* The steps that keep the layouts as they must be.                         *)

\* A step of the client: its layouts show what they showed, what is new, and what the event it
\* reads brings.
Arranges ==
  /\ life' \in {"up", "leaving"}
  /\ minted'.terminals \in Upto..MaxTerminals
  /\ \A w \in DOMAIN workspaces' : IsLaid(workspaces'[w], minted'.terminals)
  /\ \/ saved' = saved
     \/ /\ \A w \in DOMAIN saved'.workspaces : IsLaid(saved'.workspaces[w], minted'.terminals)
        /\ saved'.direct \in BOOLEAN
  /\ UNCHANGED <<runtimes, printed>>
  /\ index' \cup widgets' \subseteq 1..minted'.terminals
  /\ shown' \subseteq widgets'
  /\ direct' \in BOOLEAN /\ connecting' \in BOOLEAN
  /\ \/ events' = events \/ events' = <<>>
     \/ events # <<>> /\ events' = Tail(events)
  /\ \A t \in Shown(workspaces)' :
       \/ t \in Shown(workspaces)
       \/ t > Upto
       \/ events # <<>> /\ events' = Tail(events) /\ Brings(events[1], t)

\* A pane that is told of as new is not shown by reading what is told of before it, nor by a terminal
\* that is minted later.
LEMMA ArrangesKeepsUnseen ==
  ASSUME Shape, Laid, Arranges
  PROVE  Unseen'
<1>1. CASE events' = <<>>
  <2>1. DOMAIN <<>> = {}
    OBVIOUS
  <2> QED BY <1>1, <2>1 DEF Unseen
<1>2. ASSUME NEW n \in DOMAIN events, events[n].kind = "created"
      PROVE  events[n].pane \in 1..Upto /\ Upto \in Nat
  <2>1. Tidy(events[n], Upto) /\ Upto \in 0..MaxTerminals
    BY DEF Laid, Sent, ToSet
  <2>2. MaxTerminals \in Nat
    BY WindowBounds
  <2>3. events[n].pane \in 1..Upto
    BY <1>2, <2>1 DEF Tidy
  <2> QED BY <2>1, <2>2, <2>3
<1>3. CASE events # <<>> /\ events' = Tail(events)
  <2>1. /\ IsSeq(events') /\ Len(events) \in Nat /\ DOMAIN events = 1..Len(events)
        /\ DOMAIN events' = 1..(Len(events) - 1) /\ Len(events) > 0
        /\ \A n \in 1..(Len(events) - 1) : events'[n] = events[n + 1]
    BY <1>3, SeqFacts, TailIsSeq DEF Shape
  <2> SUFFICES ASSUME NEW n \in DOMAIN events', events'[n].kind = "created"
               PROVE  /\ events'[n].pane \notin Shown(workspaces)'
                      /\ \A m \in DOMAIN events' : m < n => ~Brings(events'[m], events'[n].pane)
    BY DEF Unseen, Brings
  <2>2. n + 1 \in DOMAIN events /\ events'[n] = events[n + 1] /\ 1 \in DOMAIN events /\ 1 < n + 1
    BY <2>1
  <2>3. events[n + 1].kind = "created"
    BY <2>2
  <2>4. /\ events[n + 1].pane \notin Shown(workspaces)
        /\ \A m \in DOMAIN events : m < n + 1 => ~Brings(events[m], events[n + 1].pane)
    BY <2>2, <2>3 DEF Laid, Unseen
  <2>5. events[n + 1].pane \in 1..Upto /\ Upto \in Nat
    BY <1>2, <2>2, <2>3
  <2>6. events[n + 1].pane \notin Shown(workspaces)'
    BY <2>2, <2>4, <2>5 DEF Arranges
  <2>7. ASSUME NEW m \in DOMAIN events', m < n PROVE ~Brings(events'[m], events'[n].pane)
    <3>1. m + 1 \in DOMAIN events /\ events'[m] = events[m + 1] /\ m + 1 < n + 1
      BY <2>1, <2>7
    <3> QED BY <2>2, <2>4, <3>1
  <2> QED BY <2>2, <2>6, <2>7
<1>4. CASE events' = events /\ ~(events # <<>> /\ events' = Tail(events))
  <2> SUFFICES ASSUME NEW n \in DOMAIN events, events[n].kind = "created"
               PROVE  /\ events[n].pane \notin Shown(workspaces)'
                      /\ \A m \in DOMAIN events : m < n => ~Brings(events[m], events[n].pane)
    BY <1>4 DEF Unseen, Brings
  <2>1. /\ events[n].pane \notin Shown(workspaces)
        /\ \A m \in DOMAIN events : m < n => ~Brings(events[m], events[n].pane)
    BY DEF Laid, Unseen
  <2> QED BY <1>2, <1>4, <2>1 DEF Arranges
<1> QED BY <1>1, <1>3, <1>4 DEF Arranges

\* So a step of the client keeps the layouts as they must be.
LEMMA ArrangesKeepsLaid ==
  ASSUME Shape, Laid, Arranges
  PROVE  Laid'
<1> DEFINE n == Upto  m == minted'.terminals
<1>1. n \in Nat /\ m \in Nat /\ n <= m /\ m \in 0..MaxTerminals /\ Upto' = m
  BY WindowBounds DEF Laid, Arranges, Upto
<1>2. /\ \A s : IsLayout(s, n) => IsLayout(s, m)
      /\ \A x : IsLaid(x, n) => IsLaid(x, m)
      /\ \A e : Tidy(e, n) => Tidy(e, m)
      /\ 1..n \subseteq 1..m
  BY <1>1, LayoutsLast
<1> HIDE DEF n, m
<1>3. \A w \in DOMAIN saved'.workspaces : IsLaid(saved'.workspaces[w], m)
  BY <1>2 DEF Laid, Arranges, m, n
<1>4. \A r \in DOMAIN runtimes' : IsLayout(runtimes'[r], m)
  BY <1>2 DEF Laid, Arranges, n
<1>5. Sent' \subseteq Sent
  <2>1. CASE events' = <<>>
    BY <2>1, ShortSeqs DEF Sent
  <2>2. CASE events # <<>> /\ events' = Tail(events)
    BY <2>2, TailIsSeq DEF Sent, Shape
  <2> QED BY <2>1, <2>2 DEF Arranges, Sent
<1>6. \A e \in Sent' : Tidy(e, m)
  BY <1>2, <1>5 DEF Laid, n
<1>7. index' \cup widgets' \cup printed' \subseteq 1..m
  BY <1>2 DEF Laid, Arranges, m, n
<1>8. saved'.direct \in BOOLEAN /\ direct' \in BOOLEAN /\ connecting' \in BOOLEAN
  BY DEF Laid, Arranges
<1>9. \A w \in DOMAIN workspaces' : IsLaid(workspaces'[w], m)
  BY DEF Arranges, m
<1>10. life' \in {"up", "leaving", "off"} /\ life' # "off" /\ shown' \subseteq widgets'
  BY DEF Arranges
<1>11. Unseen'
  BY ArrangesKeepsUnseen
<1> QED BY <1>1, <1>3, <1>4, <1>6, <1>7, <1>8, <1>9, <1>10, <1>11 DEF Laid

\* An event as it is made, before it is stamped.
IsNote(e) == {"kind", "from", "ws", "at", "pane", "panes", "status", "stock"} \subseteq DOMAIN e

\* A step of an actor or of the daemon: what it tells of is as it must be, and a new pane it tells
\* of is told of last.
Fills(from, list) ==
  /\ UNCHANGED <<life, workspaces, direct, index, widgets, shown, connecting, saved>>
  /\ minted'.terminals \in Upto..MaxTerminals
  /\ \A r \in DOMAIN runtimes' : IsLayout(runtimes'[r], minted'.terminals)
  /\ printed' \subseteq 1..minted'.terminals
  /\ IsSeq(list) /\ Emit(from, list)
  /\ \A n \in DOMAIN list : IsNote(list[n]) /\ Tidy(list[n], minted'.terminals)
  /\ \A n \in DOMAIN list : list[n].kind = "created" =>
       /\ list[n].pane > Upto
       /\ \A m \in DOMAIN list : m < n => list[m].kind = "delta"

\* A new pane is newer than what is shown, and than all that was told of.
LEMMA FillsKeepsUnseen ==
  ASSUME Shape, Laid, NEW from, NEW list, Fills(from, list),
         NEW more, IsSeq(more), DOMAIN more = DOMAIN list, events' = events \o more,
         \A n \in DOMAIN list : more[n] = [list[n] EXCEPT !.from = from]
  PROVE  Unseen' /\ \A e \in Sent' : e \in Sent \/ Tidy(e, minted'.terminals)
<1>1. /\ Sent' = Sent \cup ToSet(more) /\ Len(events) \in Nat
      /\ Len(more) \in Nat /\ DOMAIN more = 1..Len(more)
      /\ DOMAIN events = 1..Len(events) /\ DOMAIN events' = 1..(Len(events) + Len(more))
      /\ \A n \in DOMAIN events : events'[n] = events[n]
      /\ \A k \in 1..(Len(events) + Len(more)) :
           (events \o more)[k] = IF k <= Len(events) THEN events[k] ELSE more[k - Len(events)]
  BY SentGrows, SeqFacts, ConcatIsSeq DEF Shape
<1>2. ASSUME NEW n \in DOMAIN list
      PROVE  /\ more[n].kind = list[n].kind /\ more[n].pane = list[n].pane
             /\ more[n].panes = list[n].panes /\ more[n].stock = list[n].stock
             /\ more[n].status = list[n].status
  BY DEF Fills, IsNote
<1>3. ASSUME NEW n \in DOMAIN more PROVE Tidy(more[n], minted'.terminals)
  <2>1. Tidy(list[n], minted'.terminals)
    BY DEF Fills
  <2> QED BY <1>2, <2>1 DEF Tidy
<1>4. \A e \in Sent' : e \in Sent \/ Tidy(e, minted'.terminals)
  BY <1>1, <1>3 DEF ToSet
<1>5. Upto \in Nat
  BY WindowBounds DEF Laid
<1>6. ASSUME NEW t, t > Upto, t \in Nat PROVE t \notin Shown(workspaces) /\ \A n \in DOMAIN events : ~Brings(events[n], t)
  <2>1. t \notin 1..Upto
    BY <1>5, <1>6
  <2>2. ASSUME NEW s, IsLayout(s, Upto) PROVE t \notin ToSet(s)
    BY <2>1, <2>2, LayoutIs
  <2>3. t \notin Shown(workspaces)
    <3>1. \A w \in DOMAIN workspaces : t \notin ToSet(workspaces[w].layout)
      BY <2>2 DEF Laid, IsLaid
    <3> QED BY <3>1, ShownMeans
  <2>4. ASSUME NEW n \in DOMAIN events PROVE ~Brings(events[n], t)
    <3>1. Tidy(events[n], Upto)
      BY DEF Laid, Sent, ToSet
    <3> QED BY <2>1, <2>2, <3>1 DEF Tidy, Brings
  <2> QED BY <2>3, <2>4
<1>7. ASSUME NEW n \in DOMAIN events', events'[n].kind = "created"
      PROVE  /\ events'[n].pane \notin Shown(workspaces)
             /\ \A m \in DOMAIN events' : m < n => ~Brings(events'[m], events'[n].pane)
  <2>1. CASE n <= Len(events)
    <3>1. n \in DOMAIN events /\ events'[n] = events[n]
      BY <1>1, <2>1
    <3>2. \A m \in DOMAIN events' : m < n => m \in DOMAIN events /\ events'[m] = events[m]
      BY <1>1, <2>1
    <3> QED BY <1>7, <3>1, <3>2 DEF Laid, Unseen
  <2>2. CASE n > Len(events)
    <3> DEFINE k == n - Len(events)
    <3>1. k \in DOMAIN list /\ events'[n] = more[k]
      BY <1>1, <2>2
    <3> HIDE DEF k
    <3>2. /\ list[k].kind = "created" /\ events'[n].pane = list[k].pane
          /\ list[k].pane > Upto /\ \A m \in DOMAIN list : m < k => list[m].kind = "delta"
      BY <1>2, <1>7, <3>1 DEF Fills
    <3>3. Tidy(list[k], minted'.terminals) /\ minted'.terminals \in Nat
      BY <1>5, <3>1, WindowBounds DEF Fills
    <3>4. list[k].pane \in Nat
      <4>1. list[k].pane \in 1..minted'.terminals
        BY <3>2, <3>3 DEF Tidy
      <4> QED BY <3>3, <4>1
    <3>5. /\ list[k].pane \notin Shown(workspaces)
          /\ \A m \in DOMAIN events : ~Brings(events[m], list[k].pane)
      BY <1>6, <3>2, <3>4
    <3>6. ASSUME NEW m \in DOMAIN events', m < n PROVE ~Brings(events'[m], list[k].pane)
      <4>1. CASE m <= Len(events)
        <5>1. m \in DOMAIN events /\ events'[m] = events[m]
          BY <1>1, <4>1
        <5> QED BY <3>5, <5>1
      <4>2. CASE m > Len(events)
        <5>1. m - Len(events) \in DOMAIN list /\ m - Len(events) < k /\ events'[m] = more[m - Len(events)]
          BY <1>1, <3>6, <4>2 DEF k
        <5>2. events'[m].kind = "delta"
          BY <1>2, <3>2, <5>1
        <5> QED BY <5>2 DEF Brings
      <4> QED BY <1>1, <4>1, <4>2
    <3> QED BY <3>2, <3>5, <3>6
  <2> QED BY <1>1, <2>1, <2>2
<1>8. Shown(workspaces)' = Shown(workspaces)
  BY DEF Fills, Shown
<1>9. Unseen'
  BY <1>7, <1>8 DEF Unseen, Brings
<1> QED BY <1>4, <1>9

\* So a step of an actor or of the daemon keeps the layouts as they must be.
LEMMA FillsKeepsLaid ==
  ASSUME Shape, Laid, NEW from, NEW list, Fills(from, list)
  PROVE  Laid'
<1> DEFINE n == Upto  m == minted'.terminals
<1>1. n \in Nat /\ m \in Nat /\ n <= m /\ m \in 0..MaxTerminals /\ Upto' = m
  BY WindowBounds DEF Laid, Fills, Upto
<1>2. /\ \A x : IsLaid(x, n) => IsLaid(x, m)
      /\ \A e : Tidy(e, n) => Tidy(e, m)
      /\ 1..n \subseteq 1..m
  BY <1>1, LayoutsLast
<1> HIDE DEF n, m
<1>3. Unseen' /\ \A e \in Sent' : Tidy(e, m)
  <2>1. CASE events' = events
    <3>1. Sent' = Sent /\ Shown(workspaces)' = Shown(workspaces)
      BY <2>1 DEF Sent, Fills, Shown
    <3>2. Unseen'
      BY <2>1, <3>1 DEF Laid, Unseen, Brings
    <3> QED BY <1>2, <3>1, <3>2 DEF Laid, n
  <2>2. ASSUME NEW more, IsSeq(more), DOMAIN more = DOMAIN list, events' = events \o more,
               \A k \in DOMAIN list : more[k] = [list[k] EXCEPT !.from = from]
        PROVE  Unseen' /\ \A e \in Sent' : Tidy(e, m)
    <3>1. Unseen' /\ \A e \in Sent' : e \in Sent \/ Tidy(e, m)
      BY <2>2, FillsKeepsUnseen DEF m
    <3> QED BY <1>2, <3>1 DEF Laid, n
  <2>3. IsSeq(list) /\ Emit(from, list)
    BY DEF Fills
  <2> QED BY <2>1, <2>2, <2>3, EmitStamps
<1>4. \A w \in DOMAIN workspaces' : IsLaid(workspaces'[w], m)
  BY <1>2 DEF Laid, Fills, n
<1>5. \A w \in DOMAIN saved'.workspaces : IsLaid(saved'.workspaces[w], m)
  BY <1>2 DEF Laid, Fills, n
<1>6. \A r \in DOMAIN runtimes' : IsLayout(runtimes'[r], m)
  BY DEF Fills, m
<1>7. index' \cup widgets' \cup printed' \subseteq 1..m
  BY <1>2 DEF Laid, Fills, m, n
<1>8. /\ shown' \subseteq widgets' /\ (life' = "off" => shown' = {})
      /\ life' \in {"up", "leaving", "off"}
      /\ direct' \in BOOLEAN /\ saved'.direct \in BOOLEAN /\ connecting' \in BOOLEAN
  BY DEF Laid, Fills
<1> QED BY <1>1, <1>3, <1>4, <1>5, <1>6, <1>7, <1>8 DEF Laid

-----------------------------------------------------------------------------
(* The actors that were replaced.                                           *)

\* An actor that works on ends when it comes to its shutdown, and not before.
LEMMA WorksOff ==
  ASSUME Actors, Retired, NEW i \in DOMAIN actors, NEW a, actors' = [actors EXCEPT ![i] = a],
         a.link \in {"none", "up", "lost", "ended"},
         a.link = "ended" \/ /\ actors[i].link # "ended"
                             /\ \A c \in ToSet(actors[i].queue) : c.kind = "shutdown" => c \in ToSet(a.queue)
  PROVE  Retired'
<1>1. DOMAIN actors = 1..Len(actors) /\ Len(actors) \in Nat
  BY SeqFacts DEF Actors
<1>2. DOMAIN actors' = DOMAIN actors /\ actors' = [n \in 1..Len(actors) |-> actors'[n]]
  BY <1>1
<1>3. Len(actors') = Len(actors)
  BY <1>1, <1>2, ListIsSeq
<1>4. \A n \in DOMAIN actors' : actors'[n] = IF n = i THEN a ELSE actors[n]
  OBVIOUS
<1>5. ASSUME NEW n \in DOMAIN actors'
      PROVE  /\ actors'[n].link \in {"none", "up", "lost", "ended"}
             /\ n < Len(actors') =>
                  actors'[n].link = "ended" \/ \E c \in ToSet(actors'[n].queue) : c.kind = "shutdown"
  <2>1. CASE n = i
    <3>1. actors'[n] = a /\ n \in DOMAIN actors
      BY <1>2, <1>4, <2>1
    <3>2. i < Len(actors) => actors[i].link = "ended" \/ \E c \in ToSet(actors[i].queue) : c.kind = "shutdown"
      BY DEF Retired
    <3> QED BY <1>3, <2>1, <3>1, <3>2
  <2>2. CASE n # i
    BY <1>2, <1>3, <1>4, <2>2 DEF Retired
  <2> QED BY <2>1, <2>2
<1> QED BY <1>3, <1>5 DEF Retired

\* It is done with a command that is none.
LEMMA DoneWorksOff ==
  ASSUME Actors, Retired, NEW i \in DOMAIN actors, actors[i].queue # <<>>,
         Head(actors[i].queue).kind # "shutdown",
         NEW link \in {"none", "up", "lost"}, actors[i].link # "ended" \/ link = actors[i].link,
         NEW tracked, NEW more, IsSeq(more), Done(i, link, tracked, more)
  PROVE  Retired'
<1> DEFINE q == actors[i].queue
           a == [queue |-> Tail(q) \o more, tracked |-> tracked, link |-> link]
<1>1. actors' = [actors EXCEPT ![i] = a] /\ a.link = link /\ a.queue = Tail(q) \o more
  BY DEF Done
<1>2. IsSeq(q) /\ q # <<>>
  BY DEF Actors, IsActor
<1> HIDE DEF q
<1>3. /\ Len(q) \in Nat /\ DOMAIN q = 1..Len(q) /\ Len(q) > 0
      /\ IsSeq(Tail(q)) /\ Len(Tail(q)) = Len(q) - 1
      /\ \A n \in 1..(Len(q) - 1) : Tail(q)[n] = q[n + 1]
      /\ Head(q) = q[1]
  BY <1>2, SeqFacts, TailIsSeq
<1>4. DOMAIN Tail(q) = 1..(Len(q) - 1)
  BY <1>3, SeqFacts
<1>5. ASSUME NEW c \in ToSet(q), c.kind = "shutdown" PROVE c \in ToSet(Tail(q))
  <2>1. PICK n \in DOMAIN q : q[n] = c
    BY DEF ToSet
  <2>2. n # 1
    BY <1>3, <1>5, <2>1 DEF q
  <2>3. n - 1 \in DOMAIN Tail(q) /\ Tail(q)[n - 1] = c
    <3>1. n - 1 \in 1..(Len(q) - 1) /\ (n - 1) + 1 = n
      BY <1>3, <2>1, <2>2
    <3> QED BY <1>3, <1>4, <2>1, <3>1
  <2> QED BY <2>3 DEF ToSet
<1>6. ToSet(Tail(q) \o more) = ToSet(Tail(q)) \cup ToSet(more)
  BY <1>3, ConcatIsSeq
<1>7. \A c \in ToSet(q) : c.kind = "shutdown" => c \in ToSet(a.queue)
  BY <1>1, <1>5, <1>6
<1>8. link \in {"none", "up", "lost", "ended"} /\ actors[i].link # "ended"
  OBVIOUS
<1> HIDE DEF a
<1> QED BY <1>1, <1>7, <1>8, WorksOff DEF q

\* The actor in use gets commands.
LEMMA SendWorksOff ==
  ASSUME Actors, Retired, NEW commands, IsSeq(commands), Send(commands)
  PROVE  Retired'
<1> DEFINE i == Len(actors)
           a == [actors[i] EXCEPT !.queue = @ \o commands]
<1>1. i \in DOMAIN actors /\ DOMAIN actors = 1..i /\ i \in Nat
  BY SeqFacts DEF Actors
<1>2. IsActor(actors[i]) /\ actors[i].link \in {"none", "up", "lost", "ended"}
  BY <1>1 DEF Actors, Retired
<1>3. a.link = actors[i].link
  BY <1>2 DEF IsActor
<1>4. actors' = [actors EXCEPT ![i] = a]
  BY DEF Send
<1> HIDE DEF a
<1>5. DOMAIN actors' = DOMAIN actors /\ actors' = [n \in 1..i |-> actors'[n]]
  BY <1>1, <1>4
<1>6. Len(actors') = i
  BY <1>1, <1>5, ListIsSeq
<1>7. \A n \in DOMAIN actors' : actors'[n] = IF n = i THEN a ELSE actors[n]
  BY <1>4
<1>8. \A n \in DOMAIN actors' : n < i => n # i /\ actors'[n] = actors[n]
  BY <1>1, <1>5, <1>7
<1> QED BY <1>2, <1>3, <1>5, <1>6, <1>7, <1>8 DEF Retired, i

\* Or it is replaced (retry_all_workspaces_for_endpoint, window/runtime.rs:623).
LEMMA RetryEndpointWorksOff ==
  ASSUME Actors, Retired, NEW w, RetryEndpoint(w)
  PROVE  Retired'
<1> DEFINE k == Len(actors)
           c == Command("shutdown", None, None, None, None)
           old == [actors EXCEPT ![k].queue = Append(@, c)]
           new == [Fresh EXCEPT !.queue = Opens(workspaces, Reconnected(workspaces, w))]
<1>1. k < MaxActors /\ actors' = Append(old, new)
  BY DEF RetryEndpoint
<1>2. k \in DOMAIN actors /\ DOMAIN actors = 1..k /\ k \in Nat
  BY SeqFacts DEF Actors
<1>3. c.kind = "shutdown" /\ new.link = "none"
  BY DEF Command, Fresh
<1> HIDE DEF c, new
<1>4. /\ DOMAIN old = 1..k /\ old = [n \in 1..k |-> old[n]]
      /\ \A n \in 1..k : old[n] = IF n = k THEN [actors[k] EXCEPT !.queue = Append(@, c)] ELSE actors[n]
  BY <1>2
<1> HIDE DEF old
<1>5. IsSeq(old) /\ Len(old) = k
  BY <1>2, <1>4, ListIsSeq
<1>6. /\ IsSeq(actors') /\ Len(actors') = k + 1 /\ DOMAIN actors' = 1..(k + 1)
      /\ \A n \in 1..(k + 1) : actors'[n] = IF n = k + 1 THEN new ELSE old[n]
  <2>1. actors' = old \o <<new>> /\ IsSeq(<<new>>) /\ Len(<<new>>) = 1 /\ <<new>>[1] = new
    <3>1. IsSeq(<<new>>)
      BY ShortSeqs
    <3>2. Len(<<new>>) = 1 /\ <<new>>[1] = new
      OBVIOUS
    <3>3. old \in Seq(ToSet(old))
      BY <1>5 DEF IsSeq
    <3>4. Append(old, new) = old \o <<new>>
      BY <3>3, AppendIsConcat
    <3> QED BY <1>1, <3>1, <3>2, <3>4
  <2>2. /\ IsSeq(old \o <<new>>) /\ Len(old \o <<new>>) = k + 1
        /\ \A n \in 1..(k + 1) : (old \o <<new>>)[n] = IF n <= k THEN old[n] ELSE <<new>>[n - k]
    BY <1>5, <2>1, ConcatIsSeq
  <2>3. DOMAIN (old \o <<new>>) = 1..(k + 1)
    BY <1>2, <2>2, SeqFacts
  <2> QED BY <1>2, <2>1, <2>2, <2>3
<1>7. /\ old[k].link \in {"none", "up", "lost", "ended"}
      /\ \E x \in ToSet(old[k].queue) : x.kind = "shutdown"
  <2>1. IsActor(actors[k]) /\ actors[k].link \in {"none", "up", "lost", "ended"}
    BY <1>2 DEF Actors, Retired
  <2>2. old[k].link = actors[k].link /\ old[k].queue = Append(actors[k].queue, c)
    BY <1>2, <1>4, <2>1 DEF IsActor
  <2>3. IsSeq(actors[k].queue)
    BY <2>1 DEF IsActor
  <2>4. Append(actors[k].queue, c) = actors[k].queue \o <<c>> /\ ToSet(<<c>>) = {c} /\ IsSeq(<<c>>)
    BY <2>3, AppendIsConcat, ShortSeqs DEF IsSeq
  <2>5. c \in ToSet(old[k].queue)
    BY <2>2, <2>3, <2>4, ConcatIsSeq
  <2> QED BY <1>3, <2>1, <2>2, <2>5
<1>8. Len(actors') <= MaxActors
  <2>1. MaxActors \in Nat
    BY WindowBounds
  <2> QED BY <1>1, <1>2, <1>6, <2>1
<1>9. ASSUME NEW n \in DOMAIN actors'
      PROVE  /\ actors'[n].link \in {"none", "up", "lost", "ended"}
             /\ n < Len(actors') =>
                  actors'[n].link = "ended" \/ \E x \in ToSet(actors'[n].queue) : x.kind = "shutdown"
  <2>1. CASE n = k + 1
    BY <1>2, <1>3, <1>6, <2>1
  <2>2. CASE n = k
    BY <1>2, <1>6, <1>7, <2>2
  <2>3. CASE n \in 1..k /\ n # k
    <3>1. actors'[n] = actors[n] /\ n < k /\ n \in DOMAIN actors
      BY <1>2, <1>4, <1>6, <2>3
    <3> QED BY <3>1 DEF Retired
  <2> QED BY <1>2, <1>6, <2>1, <2>2, <2>3
<1> QED BY <1>8, <1>9 DEF Retired

-----------------------------------------------------------------------------
(* The user arranges layouts.                                               *)

\* What is shown is of the layouts.
LEMMA ShownIsUpto ==
  ASSUME NEW ws, NEW n, \A w \in DOMAIN ws : IsLaid(ws[w], n)
  PROVE  Shown(ws) \subseteq 1..n
<1> SUFFICES ASSUME NEW w \in DOMAIN ws, NEW t \in ToSet(ws[w].layout) PROVE t \in 1..n
  BY ShownMeans
<1> QED BY LayoutIs DEF IsLaid

\* A step of the user that keeps the layouts as they must be.
LEMMA UserArranges ==
  ASSUME Shape, Laid, life' \in {"up", "leaving"}, minted'.terminals \in Upto..MaxTerminals,
         \A w \in DOMAIN workspaces' : IsLaid(workspaces'[w], minted'.terminals),
         \/ saved' = saved
         \/ /\ \A w \in DOMAIN saved'.workspaces : IsLaid(saved'.workspaces[w], minted'.terminals)
            /\ saved'.direct \in BOOLEAN,
         UNCHANGED <<runtimes, printed>>,
         index' \subseteq index \cup Shown(workspaces)',
         widgets' \subseteq widgets \cup Shown(workspaces)', shown' \subseteq widgets',
         direct' \in BOOLEAN, connecting' \in BOOLEAN,
         events' = events \/ events' = <<>>,
         \A t \in Shown(workspaces)' : t \in Shown(workspaces) \/ t > Upto
  PROVE  Laid'
<1> DEFINE m == minted'.terminals
<1>1. Upto \in Nat /\ m \in Nat /\ Upto <= m
  BY WindowBounds DEF Laid
<1> HIDE DEF m
<1>2. 1..Upto \subseteq 1..m
  BY <1>1
<1>3. Shown(workspaces)' \subseteq 1..m
  <2> DEFINE ws == workspaces'
  <2>1. \A w \in DOMAIN ws : IsLaid(ws[w], m)
    BY DEF m
  <2> HIDE DEF ws
  <2>2. Shown(ws) \subseteq 1..m
    BY <2>1, ShownIsUpto
  <2> QED BY <2>2 DEF ws, Shown
<1>4. index' \cup widgets' \subseteq 1..m
  BY <1>2, <1>3 DEF Laid
<1>5. Arranges
  BY <1>4 DEF Arranges, m
<1> QED BY <1>5, ArrangesKeepsLaid

\* One workspace changes, in its layout or not.
LEMMA OneIsLaid ==
  ASSUME Laid, NEW m \in Nat, Upto <= m, NEW w \in DOMAIN workspaces,
         NEW x, IsLaid(x, m), workspaces' = [workspaces EXCEPT ![w] = x],
         NEW T, ToSet(x.layout) \subseteq ToSet(workspaces[w].layout) \cup T
  PROVE  /\ \A v \in DOMAIN workspaces' : IsLaid(workspaces'[v], m)
         /\ \A t \in Shown(workspaces)' : t \in Shown(workspaces) \/ t \in T
<1>1. DOMAIN workspaces' = DOMAIN workspaces
      /\ \A v \in DOMAIN workspaces : workspaces'[v] = IF v = w THEN x ELSE workspaces[v]
  OBVIOUS
<1>2. Upto \in Nat
  BY WindowBounds DEF Laid
<1>3. \A y : IsLaid(y, Upto) => IsLaid(y, m)
  BY <1>2, LayoutsLast
<1>4. \A v \in DOMAIN workspaces' : IsLaid(workspaces'[v], m)
  BY <1>1, <1>3 DEF Laid
<1>5. ASSUME NEW t \in Shown(workspaces)' PROVE t \in Shown(workspaces) \/ t \in T
  <2>1. PICK v \in DOMAIN workspaces : t \in ToSet(workspaces'[v].layout)
    BY <1>1 DEF Shown
  <2>2. t \in ToSet(workspaces[v].layout) \/ t \in T
    BY <1>1, <2>1
  <2> QED BY <2>2, ShownMeans
<1> QED BY <1>4, <1>5

\* Workspaces go.
LEMMA FewerAreLaid ==
  ASSUME Laid, NEW ws, DOMAIN ws \subseteq DOMAIN workspaces, \A v \in DOMAIN ws : ws[v] = workspaces[v]
  PROVE  /\ \A v \in DOMAIN ws : IsLaid(ws[v], Upto)
         /\ Shown(ws) \subseteq Shown(workspaces)
<1>1. \A v \in DOMAIN ws : IsLaid(ws[v], Upto)
  BY DEF Laid
<1>2. ASSUME NEW t \in Shown(ws) PROVE t \in Shown(workspaces)
  BY ShownMeans
<1> QED BY <1>1, <1>2

\* What is on disk has the layouts that are shown (save_state).
LEMMA SaveLays ==
  ASSUME NEW ws, NEW dir \in BOOLEAN, NEW dis, Save(ws, dir, dis),
         NEW m \in Nat, \A w \in DOMAIN ws : IsLaid(ws[w], m)
  PROVE  \/ saved' = saved
         \/ /\ \A w \in DOMAIN saved'.workspaces : IsLaid(saved'.workspaces[w], m)
            /\ saved'.direct \in BOOLEAN
<1>1. CASE spent < MaxSpent
  <2>1. saved' = Record(ws, dir, dis)
    BY <1>1 DEF Save
  <2>2. /\ saved'.workspaces = [w \in DOMAIN ws |-> Workspace(ws[w].layout, ws[w].runtime)]
        /\ saved'.direct = dir
    BY <2>1 DEF Record
  <2>3. ASSUME NEW w \in DOMAIN ws PROVE IsLaid(Workspace(ws[w].layout, ws[w].runtime), m)
    <3>1. LET x == Workspace(ws[w].layout, ws[w].runtime)
          IN x.layout = ws[w].layout /\ x.zoom = 0 /\ x.status = "waiting"
      BY DEF Workspace, None
    <3>2. 0 \in 0..m /\ "waiting" \in Statuses
      BY DEF Statuses
    <3> QED BY <3>1, <3>2 DEF IsLaid
  <2> QED BY <2>2, <2>3
<1>2. CASE ~(spent < MaxSpent)
  BY <1>2 DEF Save
<1> QED BY <1>1, <1>2

\* A workspace is added, with a new terminal (new_session, attach_to_existing_runtime).
LEMMA AddedIsLaid ==
  ASSUME WindowInv, Laid, life = "up", life' = "up", NEW w, NEW r,
         NEW t, t = Newest("terminals"), t <= MaxTerminals,
         minted' = [minted EXCEPT !.workspaces = w, !.terminals = t],
         Draw(With(workspaces, w, Workspace(<<t>>, r)), widgets \cup {t}),
         UNCHANGED <<direct, index, connecting, saved, events, runtimes, printed>>
  PROVE  Laid'
<1> DEFINE x == Workspace(<<t>>, r)
           ws == With(workspaces, w, x)
<1>0. Shape
  BY DEF WindowInv
<1>1. Upto \in Nat /\ t = Upto + 1 /\ t \in Nat /\ Upto <= t /\ MaxTerminals \in Nat
  BY WindowBounds DEF Laid, Newest, Upto
<1>2. minted'.terminals = t /\ t \in Upto..MaxTerminals /\ t \in 1..t
  <2>1. DOMAIN minted = {"workspaces", "runtimes", "terminals"}
    BY <1>0 DEF Shape
  <2> QED BY <1>1, <2>1
<1>3. IsLaid(x, t)
  <2>1. x.layout = <<t>> /\ x.zoom = 0 /\ x.status = "waiting"
    BY DEF Workspace, None
  <2>2. 0 \in 0..t /\ "waiting" \in Statuses
    BY <1>1 DEF Statuses
  <2>3. IsLayout(<<t>>, t) /\ <<t>> # <<>>
    BY <1>2, SmallLayouts
  <2> HIDE DEF x
  <2> QED BY <2>1, <2>2, <2>3 DEF IsLaid
<1>4. ToSet(x.layout) = {t}
  BY ShortSeqs DEF Workspace
<1>5. /\ workspaces' = ws /\ widgets' = widgets \cup {t} /\ shown' = shown \cap widgets'
  BY DEF Draw, DrawWithout
<1> HIDE DEF x
<1>6. DOMAIN ws = DOMAIN workspaces \cup {w} /\ \A v \in DOMAIN ws : ws[v] = IF v = w THEN x ELSE workspaces[v]
  BY DEF With
<1> HIDE DEF ws
<1>7. \A y : IsLaid(y, Upto) => IsLaid(y, t)
  BY <1>1, LayoutsLast
<1>8. \A v \in DOMAIN workspaces' : IsLaid(workspaces'[v], t)
  BY <1>3, <1>5, <1>6, <1>7 DEF Laid
<1>9. t \in Shown(workspaces)'
  <2>1. w \in DOMAIN ws /\ t \in ToSet(ws[w].layout)
    BY <1>4, <1>6
  <2>2. t \in Shown(ws)
    BY <2>1, ShownMeans
  <2> QED BY <1>5, <2>2 DEF Shown
<1>10. ASSUME NEW u \in Shown(workspaces)' PROVE u \in Shown(workspaces) \/ u > Upto
  <2>1. PICK v \in DOMAIN ws : u \in ToSet(ws[v].layout)
    BY <1>5 DEF Shown
  <2>2. u = t \/ (v \in DOMAIN workspaces /\ u \in ToSet(workspaces[v].layout))
    BY <1>4, <1>6, <2>1
  <2> QED BY <1>1, <2>2, ShownMeans
<1>11. direct' \in BOOLEAN /\ connecting' \in BOOLEAN
  BY DEF Laid
<1> QED BY <1>0, <1>2, <1>5, <1>8, <1>9, <1>10, <1>11, UserArranges

\* Nothing is minted.
LEMMA SameUpto ==
  ASSUME Laid, minted' = minted
  PROVE  /\ minted'.terminals = Upto /\ Upto \in Nat /\ Upto \in Upto..MaxTerminals
         /\ Upto \in 0..MaxTerminals
BY WindowBounds DEF Laid, Upto

\* One workspace changes, and is drawn again (rebuild_session_content).
LEMMA RedrawnIsLaid ==
  ASSUME WindowInv, Laid, life' = "up", minted'.terminals \in Upto..MaxTerminals,
         NEW w \in DOMAIN workspaces,
         NEW x, IsLaid(x, minted'.terminals), workspaces' = [workspaces EXCEPT ![w] = x],
         \A t \in ToSet(x.layout) : t \in ToSet(workspaces[w].layout) \/ t > Upto,
         widgets' \subseteq widgets \cup Shown(workspaces)', shown' \subseteq widgets',
         UNCHANGED <<direct, index, connecting, saved, events, runtimes, printed>>
  PROVE  Laid'
<1> DEFINE m == minted'.terminals
           T == {t \in ToSet(x.layout) : t > Upto}
<1>1. m \in Nat /\ Upto <= m
  BY WindowBounds DEF Laid
<1>2. IsLaid(x, m) /\ ToSet(x.layout) \subseteq ToSet(workspaces[w].layout) \cup T
  OBVIOUS
<1>3. \A t \in T : t > Upto
  OBVIOUS
<1> HIDE DEF m, T
<1>4. /\ \A v \in DOMAIN workspaces' : IsLaid(workspaces'[v], m)
      /\ \A t \in Shown(workspaces)' : t \in Shown(workspaces) \/ t \in T
  BY <1>1, <1>2, OneIsLaid
<1>5. direct' \in BOOLEAN /\ connecting' \in BOOLEAN /\ Shape
  BY DEF Laid, WindowInv
<1> QED BY <1>3, <1>4, <1>5, UserArranges DEF m

\* split_terminal (window/terminal.rs:296).
LEMMA SplitTerminalIsLaid ==
  ASSUME WindowInv, Laid, NEW w \in DOMAIN workspaces, NEW t \in ToSet(workspaces[w].layout), SplitTerminal(w, t)
  PROVE  Laid'
<1> DEFINE new == Newest("terminals")
           old == workspaces[w].layout
           x == [workspaces[w] EXCEPT !.zoom = None, !.layout = SplitLayout(@, t, new)]
           ws == [workspaces EXCEPT ![w].zoom = None, ![w].layout = SplitLayout(@, t, new)]
<1>0. Shape /\ IsWorkspace(workspaces[w]) /\ IsLaid(workspaces[w], Upto)
  BY DEF WindowInv, Shape, Laid
<1>1. /\ life = "up" /\ life' = life /\ Mint("terminals") /\ Draw(ws, Rebuilt(ws, w, widgets))
      /\ UNCHANGED <<direct, index, connecting, saved, events, runtimes, printed>>
  BY DEF SplitTerminal, Asks, aside, dialog, daemon
<1>2. /\ new = Upto + 1 /\ Upto \in Nat /\ MaxTerminals \in Nat
  BY WindowBounds DEF Laid, Newest, Upto
<1>3. minted'.terminals = new /\ new \in Upto..MaxTerminals /\ new \in 1..new /\ new > Upto
  <2>1. minted.terminals < MaxTerminals /\ minted' = [minted EXCEPT !.terminals = @ + 1]
    BY <1>1 DEF Mint
  <2>2. DOMAIN minted = {"workspaces", "runtimes", "terminals"}
    BY <1>0 DEF Shape
  <2> QED BY <1>2, <2>1, <2>2 DEF Upto, Newest
<1>4. workspaces' = [workspaces EXCEPT ![w] = x]
  BY <1>1 DEF Draw, DrawWithout
<1>5. /\ x.layout = SplitLeaf(old, t, new) /\ x.zoom = 0 /\ x.status = workspaces[w].status
  BY <1>0 DEF IsWorkspace, SplitLayout, None
<1>6. widgets' = Rebuilt(ws, w, widgets) /\ shown' = shown \cap widgets' /\ workspaces' = ws
  BY <1>1 DEF Draw, DrawWithout
<1>7. widgets' \subseteq Shown(workspaces)'
  BY <1>6 DEF Rebuilt, Shown
<1> HIDE DEF x, ws, new
<1>8. IsLayout(old, new) /\ new \notin ToSet(old)
  <2>1. IsLayout(old, Upto) /\ Upto <= new /\ new \in Nat
    BY <1>0, <1>2 DEF IsLaid
  <2>2. ToSet(old) \subseteq 1..Upto
    BY <2>1, LayoutIs
  <2> QED BY <1>2, <2>1, <2>2, LayoutsLast
<1>9. /\ IsLayout(x.layout, new) /\ x.layout # <<>> /\ ToSet(x.layout) = ToSet(old) \cup {new}
  BY <1>3, <1>5, <1>8, SplitIsLayout
<1>10. IsLaid(x, new)
  <2>1. 0 \in 0..new /\ x.status \in Statuses
    BY <1>0, <1>2, <1>5 DEF IsLaid
  <2> QED BY <1>5, <1>9, <2>1 DEF IsLaid
<1> QED BY <1>1, <1>3, <1>4, <1>6, <1>7, <1>9, <1>10, RedrawnIsLaid

\* close_terminal (window/terminal.rs:480) of one of several panes.
LEMMA ClosePaneOfIsLaid ==
  ASSUME WindowInv, Laid, NEW w \in DOMAIN workspaces, NEW t \in ToSet(workspaces[w].layout), ClosePaneOf(w, t)
  PROVE  Laid'
<1> DEFINE old == workspaces[w].layout
           unzoomed == [workspaces EXCEPT ![w].zoom = None]
           ws == IF unzoomed[w].runtime # None THEN unzoomed
                 ELSE [unzoomed EXCEPT ![w].layout = RemoveLeaf(@, t)]
           x == ws[w]
<1>0. Shape /\ IsWorkspace(workspaces[w]) /\ IsLaid(workspaces[w], Upto)
  BY DEF WindowInv, Shape, Laid
<1>1. /\ life = "up" /\ life' = life
      /\ Draw(ws, IF ws = workspaces THEN widgets ELSE Rebuilt(ws, w, widgets))
      /\ UNCHANGED <<minted, direct, index, connecting, saved, events, runtimes, printed>>
  BY DEF ClosePaneOf, Asks, aside, dialog, daemon
<1>2. minted'.terminals = Upto /\ Upto \in Nat /\ Upto \in Upto..MaxTerminals
  BY <1>1, SameUpto
<1>3. ws = [workspaces EXCEPT ![w] = x]
  <2> DEFINE closer == [unzoomed EXCEPT ![w].layout = RemoveLeaf(@, t)]
  <2>1. DOMAIN unzoomed = DOMAIN workspaces /\ unzoomed = [v \in DOMAIN workspaces |-> unzoomed[v]]
        /\ \A v \in DOMAIN workspaces : v # w => unzoomed[v] = workspaces[v]
    OBVIOUS
  <2>2. closer = [v \in DOMAIN workspaces |-> closer[v]]
        /\ \A v \in DOMAIN workspaces : v # w => closer[v] = workspaces[v]
    <3> DEFINE y == [unzoomed[w] EXCEPT !.layout = RemoveLeaf(@, t)]
    <3>1. closer = [unzoomed EXCEPT ![w] = y]
      OBVIOUS
    <3> HIDE DEF closer, unzoomed, y
    <3> QED BY <2>1, <3>1
  <2>3. ws = unzoomed \/ ws = closer
    OBVIOUS
  <2> HIDE DEF unzoomed, closer
  <2>4. /\ ws = [v \in DOMAIN workspaces |-> ws[v]]
        /\ \A v \in DOMAIN workspaces : v # w => ws[v] = workspaces[v]
    <3> HIDE DEF ws
    <3> QED BY <2>1, <2>2, <2>3
  <2> HIDE DEF ws
  <2> QED BY <2>4
<1>4. /\ x.layout = old \/ x.layout = RemoveLeaf(old, t)
      /\ x.zoom = 0 /\ x.status = workspaces[w].status
  <2>1. /\ unzoomed[w].layout = old /\ unzoomed[w].zoom = 0 /\ unzoomed[w].status = workspaces[w].status
        /\ {"layout", "runtime", "zoom", "status"} \subseteq DOMAIN unzoomed[w] /\ w \in DOMAIN unzoomed
    BY <1>0 DEF IsWorkspace, None
  <2>2. CASE unzoomed[w].runtime # None
    BY <2>1, <2>2
  <2>3. CASE unzoomed[w].runtime = None
    <3>1. x = [unzoomed[w] EXCEPT !.layout = RemoveLeaf(@, t)]
      BY <2>1, <2>3
    <3> HIDE DEF unzoomed, x
    <3> QED BY <2>1, <3>1
  <2> QED BY <2>2, <2>3
<1> HIDE DEF x, ws
<1>5. /\ workspaces' = ws /\ shown' = shown \cap widgets'
      /\ widgets' = IF ws = workspaces THEN widgets ELSE Rebuilt(ws, w, widgets)
  BY <1>1 DEF Draw, DrawWithout
<1>6. widgets' \subseteq widgets \cup Shown(workspaces)'
  BY <1>5 DEF Rebuilt, Shown
<1>7. old # <<t>>
  <2>1. \A s : s = <<t>> => Len(s) = 1
    OBVIOUS
  <2>2. Len(old) # 1
    <3>1. Len(old) \in Nat
      BY <1>0, LayoutIs DEF IsLaid
    <3>2. Len(old) > 1
      BY DEF ClosePaneOf
    <3>3. \A k \in Nat : k > 1 => k # 1
      OBVIOUS
    <3> HIDE DEF old
    <3> QED BY <3>1, <3>2, <3>3
  <2> HIDE DEF old
  <2> QED BY <2>1, <2>2
<1>8. /\ IsLayout(x.layout, Upto) /\ x.layout # <<>> /\ ToSet(x.layout) \subseteq ToSet(old)
  <2>1. IsLayout(old, Upto) /\ old # <<>>
    BY <1>0 DEF IsLaid
  <2> HIDE DEF old
  <2> QED BY <1>4, <1>7, <2>1, RemovedIsLayout
<1>9. IsLaid(x, Upto)
  <2>1. 0 \in 0..Upto /\ x.status \in Statuses
    BY <1>0, <1>2, <1>4 DEF IsLaid
  <2> QED BY <1>4, <1>8, <2>1 DEF IsLaid
<1> QED BY <1>1, <1>2, <1>3, <1>5, <1>6, <1>8, <1>9, RedrawnIsLaid

\* toggle_pane_zoom, and a workspace that is retried alone (retry_workspace_connection).
LEMMA ToggledIsLaid ==
  ASSUME WindowInv, Laid, NEW w \in DOMAIN workspaces,
         RetryWorkspace(w) \/ \E t \in ToSet(workspaces[w].layout) : TogglePaneZoom(w, t)
  PROVE  Laid'
<1>0. Shape /\ IsWorkspace(workspaces[w]) /\ IsLaid(workspaces[w], Upto)
  BY DEF WindowInv, Shape, Laid
<1>1. ASSUME NEW t \in ToSet(workspaces[w].layout), TogglePaneZoom(w, t)
      PROVE  Laid'
  <2> DEFINE x == [workspaces[w] EXCEPT !.zoom = IF @ = None THEN t ELSE None]
             ws == [workspaces EXCEPT ![w].zoom = IF @ = None THEN t ELSE None]
  <2>1. /\ life = "up" /\ life' = life /\ Draw(ws, Rebuilt(ws, w, widgets))
        /\ UNCHANGED <<minted, direct, index, connecting, saved, events, runtimes, printed>>
    BY <1>1 DEF TogglePaneZoom, Asks, aside, dialog, daemon
  <2>2. minted'.terminals = Upto /\ Upto \in Nat /\ Upto \in Upto..MaxTerminals
    BY <2>1, SameUpto
  <2>3. ws = [workspaces EXCEPT ![w] = x]
    OBVIOUS
  <2>4. x.layout = workspaces[w].layout /\ x.zoom \in {t, 0} /\ x.status = workspaces[w].status
    BY <1>0 DEF IsWorkspace, None
  <2> HIDE DEF x, ws
  <2>5. t \in 0..Upto /\ 0 \in 0..Upto
    <3>1. t \in 1..Upto
      BY <1>0, LayoutIs DEF IsLaid
    <3> QED BY <2>2, <3>1
  <2>6. IsLaid(x, Upto)
    BY <1>0, <2>4, <2>5 DEF IsLaid
  <2>7. /\ workspaces' = ws /\ shown' = shown \cap widgets' /\ widgets' = Rebuilt(ws, w, widgets)
    BY <2>1 DEF Draw, DrawWithout
  <2>8. widgets' \subseteq Shown(workspaces)'
    BY <2>7 DEF Rebuilt, Shown
  <2> QED BY <2>1, <2>2, <2>3, <2>4, <2>6, <2>7, <2>8, RedrawnIsLaid
<1>2. CASE RetryWorkspace(w)
  <2> DEFINE x == [workspaces[w] EXCEPT !.status = "waiting"]
  <2>1. /\ life = "up" /\ life' = life /\ workspaces' = [workspaces EXCEPT ![w] = x]
        /\ UNCHANGED <<minted, direct, index, connecting, saved, events, runtimes, printed, widgets, shown>>
    BY <1>2 DEF RetryWorkspace, Asks, aside, dialog, daemon
  <2>2. minted'.terminals = Upto /\ Upto \in Nat /\ Upto \in Upto..MaxTerminals
    BY <2>1, SameUpto
  <2>3. x.layout = workspaces[w].layout /\ x.zoom = workspaces[w].zoom /\ x.status = "waiting"
    BY <1>0 DEF IsWorkspace
  <2> HIDE DEF x
  <2>4. IsLaid(x, Upto)
    BY <1>0, <2>3 DEF IsLaid, Statuses
  <2>5. widgets' \subseteq widgets /\ shown' \subseteq widgets'
    BY <2>1 DEF Laid
  <2> QED BY <2>1, <2>2, <2>3, <2>4, <2>5, RedrawnIsLaid
<1> QED BY <1>1, <1>2

\* close_session, close_all_sessions and detach_runtime: workspaces go.
LEMMA FewerKeepsLaid ==
  ASSUME WindowInv, Laid, life' \in {"up", "leaving"}, minted' = minted,
         NEW ws, DOMAIN ws \subseteq DOMAIN workspaces, \A v \in DOMAIN ws : ws[v] = workspaces[v],
         workspaces' = ws, index' = Shown(ws), widgets' \subseteq widgets, shown' \subseteq widgets',
         saved' = saved \/ Save(ws, direct, dismissed'),
         direct' \in BOOLEAN, connecting' = connecting,
         events' = events \/ events' = <<>>, UNCHANGED <<runtimes, printed>>
  PROVE  Laid'
<1>1. minted'.terminals = Upto /\ Upto \in Nat /\ Upto \in Upto..MaxTerminals
  BY SameUpto
<1>2. /\ \A v \in DOMAIN ws : IsLaid(ws[v], Upto)
      /\ Shown(ws) \subseteq Shown(workspaces)
  BY FewerAreLaid
<1>3. Shown(workspaces)' = Shown(ws)
  BY DEF Shown
<1>4. \/ saved' = saved
      \/ /\ \A v \in DOMAIN saved'.workspaces : IsLaid(saved'.workspaces[v], Upto)
         /\ saved'.direct \in BOOLEAN
  BY <1>1, <1>2, SaveLays DEF Laid
<1>5. connecting' \in BOOLEAN /\ Shape
  BY DEF Laid, WindowInv
<1> QED BY <1>1, <1>2, <1>3, <1>4, <1>5, UserArranges

\* What is left of the workspaces.
LEMMA WithoutIs ==
  ASSUME NEW gone
  PROVE  /\ DOMAIN Without(workspaces, gone) \subseteq DOMAIN workspaces
         /\ \A v \in DOMAIN Without(workspaces, gone) : Without(workspaces, gone)[v] = workspaces[v]
BY DEF Without, Restrict

\* close_session (window/runtime.rs), close_all_sessions and detach_runtime.
LEMMA GoneIsLaid ==
  ASSUME WindowInv, Laid,
         CloseAllSessions \/ \E w \in DOMAIN workspaces : CloseSession(w) \/ DetachRuntime(w)
  PROVE  Laid'
<1>1. CASE CloseAllSessions
  <2>1. /\ life = "up" /\ life' = life /\ workspaces' = <<>> /\ widgets' = {} /\ shown' = shown \cap {}
        /\ direct' = TRUE /\ index' = Shown(Without(workspaces, DOMAIN workspaces))
        /\ UNCHANGED <<minted, connecting, saved, events, runtimes, printed>>
    BY <1>1 DEF CloseAllSessions, EndWorkspaces, Asks, Draw, DrawWithout, aside, dialog, daemon
  <2> DEFINE ws == Without(workspaces, DOMAIN workspaces)
  <2>2. ws = <<>>
    <3>1. ws = [x \in {} |-> workspaces[x]]
      BY DEF Without, Restrict
    <3>2. [x \in {} |-> workspaces[x]] = <<>>
      OBVIOUS
    <3> QED BY <3>1, <3>2
  <2>3. DOMAIN ws \subseteq DOMAIN workspaces /\ \A v \in DOMAIN ws : ws[v] = workspaces[v]
    BY WithoutIs
  <2>4. index' = Shown(ws) /\ workspaces' = ws
    BY <2>1, <2>2
  <2> HIDE DEF ws
  <2> QED BY <2>1, <2>3, <2>4, FewerKeepsLaid
<1>2. ASSUME NEW w \in DOMAIN workspaces, CloseSession(w) \/ DetachRuntime(w) PROVE Laid'
  <2> DEFINE ws == Without(workspaces, {w})
  <2>1. DOMAIN ws \subseteq DOMAIN workspaces /\ \A v \in DOMAIN ws : ws[v] = workspaces[v]
    BY WithoutIs
  <2>2. CASE DetachRuntime(w)
    <3>1. /\ life = "up" /\ life' = life /\ workspaces' = ws /\ index' = Shown(ws)
          /\ widgets' = widgets \ ToSet(workspaces[w].layout) /\ shown' = shown \cap widgets'
          /\ UNCHANGED <<minted, direct, connecting, saved, events, runtimes, printed>>
      BY <2>2 DEF DetachRuntime, Asks, DrawWithout, aside, dialog, daemon
    <3> HIDE DEF ws
    <3>2. direct' \in BOOLEAN
      BY <3>1 DEF Laid
    <3> QED BY <2>1, <3>1, <3>2, FewerKeepsLaid
  <2>3. CASE CloseSession(w)
    <3>1. /\ life = "up" /\ index' = Shown(ws)
          /\ UNCHANGED <<minted, direct, connecting, runtimes, printed>>
      BY <2>3 DEF CloseSession, EndWorkspaces, Asks, aside, dialog, daemon
    <3>2. direct' \in BOOLEAN
      BY <3>1 DEF Laid
    <3>3. CASE Count > 1
      <4>1. /\ life' = life /\ workspaces' = ws /\ UNCHANGED <<saved, events>>
            /\ widgets' = widgets \ ToSet(workspaces[w].layout) /\ shown' = shown \cap widgets'
        BY <2>3, <3>3 DEF CloseSession, DrawWithout
      <4> HIDE DEF ws
      <4> QED BY <2>1, <3>1, <3>2, <4>1, FewerKeepsLaid
    <3>4. CASE ~(Count > 1)
      <4>1. /\ life' = "leaving" /\ workspaces' = ws /\ events' = <<>> /\ Save(ws, direct, dismissed')
            /\ widgets' = widgets /\ shown' = shown \cap widgets'
        BY <2>3, <3>4 DEF CloseSession, Draw, DrawWithout
      <4> HIDE DEF ws
      <4> QED BY <2>1, <3>1, <3>2, <4>1, FewerKeepsLaid
    <3> QED BY <3>3, <3>4
  <2> QED BY <1>2, <2>2, <2>3
<1> QED BY <1>1, <1>2

\* retry_all_workspaces_for_endpoint (window/runtime.rs:623).
LEMMA RetryEndpointIsLaid ==
  ASSUME WindowInv, Laid, NEW w, RetryEndpoint(w)
  PROVE  Laid'
<1>0. Shape
  BY DEF WindowInv
<1>1. /\ life = "up" /\ life' = life
      /\ workspaces' = [v \in DOMAIN workspaces |->
                          IF v \in Reconnected(workspaces, w) THEN [workspaces[v] EXCEPT !.status = "waiting"]
                          ELSE workspaces[v]]
      /\ UNCHANGED <<minted, direct, index, connecting, saved, events, runtimes, printed, widgets, shown>>
  BY DEF RetryEndpoint, Asks, aside, dialog, daemon
<1>2. minted'.terminals = Upto /\ Upto \in Nat /\ Upto \in Upto..MaxTerminals
  BY <1>1, SameUpto
<1>3. /\ DOMAIN workspaces' = DOMAIN workspaces
      /\ \A v \in DOMAIN workspaces :
           /\ workspaces'[v].layout = workspaces[v].layout /\ workspaces'[v].zoom = workspaces[v].zoom
           /\ workspaces'[v].status \in {workspaces[v].status, "waiting"}
  BY <1>0, <1>1 DEF Shape, IsWorkspace
<1>4. \A v \in DOMAIN workspaces' : IsLaid(workspaces'[v], Upto)
  BY <1>3 DEF Laid, IsLaid, Statuses
<1>5. Shown(workspaces)' = Shown(workspaces)
  BY <1>3 DEF Shown
<1>6. direct' \in BOOLEAN /\ connecting' \in BOOLEAN /\ shown' \subseteq widgets'
  BY <1>1 DEF Laid
<1> QED BY <1>0, <1>1, <1>2, <1>4, <1>5, <1>6, UserArranges

\* A dialog or a direct workspace, and what is written (setup_signals, window/mod.rs:610, 622).
LEMMA UndrawnIsLaid ==
  ASSUME WindowInv, Laid, ConnectExisting \/ DismissDialog \/ CloseDirect \/ AutoSave \/ Quit
  PROVE  Laid'
<1>1. /\ life' \in {"up", "leaving"} /\ UNCHANGED <<minted, workspaces, index, widgets, shown, runtimes, printed>>
      /\ events' = events \/ events' = <<>>
      /\ direct' \in {direct, FALSE} /\ connecting' \in {connecting, TRUE}
      /\ saved' = saved \/ Save(workspaces, direct, dismissed)
  BY DEF ConnectExisting, DismissDialog, CloseDirect, AutoSave, Quit, Asks, screen, aside, dialog, daemon
<1>2. minted'.terminals = Upto /\ Upto \in Nat /\ Upto \in Upto..MaxTerminals
  BY <1>1, SameUpto
<1>3. \A v \in DOMAIN workspaces' : IsLaid(workspaces'[v], Upto)
  BY <1>1 DEF Laid
<1>4. \/ saved' = saved
      \/ /\ \A v \in DOMAIN saved'.workspaces : IsLaid(saved'.workspaces[v], Upto)
         /\ saved'.direct \in BOOLEAN
  BY <1>1, <1>2, <1>3, SaveLays DEF Laid
<1>5. Shown(workspaces)' = Shown(workspaces)
  BY <1>1 DEF Shown
<1>6. direct' \in BOOLEAN /\ connecting' \in BOOLEAN /\ shown' \subseteq widgets' /\ Shape
  BY <1>1 DEF Laid, WindowInv
<1> QED BY <1>1, <1>2, <1>3, <1>4, <1>5, <1>6, UserArranges

\* Every operation of the user.
LEMMA UserActsAreLaid ==
  ASSUME WindowInv, Laid, UserActs
  PROVE  Laid'
<1>1. ASSUME AddWorkspace PROVE Laid'
  <2> DEFINE w == Newest("workspaces")
             t == Newest("terminals")
  <2>1. /\ life = "up" /\ life' = "up" /\ t <= MaxTerminals
        /\ minted' = [minted EXCEPT !.workspaces = w, !.terminals = t]
        /\ Draw(With(workspaces, w, Workspace(<<t>>, None)), widgets \cup {t})
        /\ UNCHANGED <<direct, index, connecting, saved, events, runtimes, printed>>
    BY <1>1 DEF AddWorkspace, Asks, aside, dialog, daemon
  <2>2. t = Newest("terminals")
    OBVIOUS
  <2> HIDE DEF w, t
  <2> QED BY <2>1, <2>2, AddedIsLaid
<1>2. ASSUME NEW r \in offer, AttachToExistingRuntime(r) PROVE Laid'
  <2> DEFINE w == Newest("workspaces")
             t == Newest("terminals")
  <2>1. /\ life = "up" /\ life' = "up" /\ t <= MaxTerminals
        /\ minted' = [minted EXCEPT !.workspaces = w, !.terminals = t]
        /\ Draw(With(workspaces, w, Workspace(<<t>>, r)), widgets \cup {t})
        /\ UNCHANGED <<direct, index, connecting, saved, events, runtimes, printed>>
    BY <1>2 DEF AttachToExistingRuntime, Asks, aside, dialog, daemon
  <2>2. t = Newest("terminals")
    OBVIOUS
  <2> HIDE DEF w, t
  <2> QED BY <2>1, <2>2, AddedIsLaid
<1>3. ASSUME NEW w \in DOMAIN workspaces, NEW t \in ToSet(workspaces[w].layout),
             SplitTerminal(w, t) \/ ClosePaneOf(w, t) \/ TogglePaneZoom(w, t)
      PROVE  Laid'
  BY <1>3, SplitTerminalIsLaid, ClosePaneOfIsLaid, ToggledIsLaid
<1>4. ASSUME NEW w \in DOMAIN workspaces, RetryWorkspace(w) \/ RetryEndpoint(w) PROVE Laid'
  BY <1>4, ToggledIsLaid, RetryEndpointIsLaid
<1> QED BY <1>1, <1>2, <1>3, <1>4, GoneIsLaid, UndrawnIsLaid DEF UserActs

\* The user's commands go to the actor in use, or to the one that replaces it.
LEMMA UserActsWorkOff ==
  ASSUME WindowInv, Retired, UserActs
  PROVE  Retired'
<1>0. Shape /\ Actors
  BY DEF WindowInv, Shape
<1>1. ASSUME actors' = actors PROVE Retired'
  BY <1>1 DEF Retired
<1>2. ASSUME NEW c, Send(<<c>>) PROVE Retired'
  <2>1. IsSeq(<<c>>)
    BY ShortSeqs
  <2> DEFINE list == <<c>>
  <2>2. IsSeq(list) /\ Send(list)
    BY <1>2, <2>1
  <2> HIDE DEF list
  <2> QED BY <1>0, <2>2, SendWorksOff
<1>3. ASSUME NEW gone \in SUBSET DOMAIN workspaces, EndWorkspaces(gone) PROVE Retired'
  BY <1>0, <1>3, FarewellIsSeq, SendWorksOff DEF EndWorkspaces
<1>4. ASSUME AddWorkspace \/ ConnectExisting \/ \E r \in offer : AttachToExistingRuntime(r) PROVE Retired'
  BY <1>2, <1>4 DEF AddWorkspace, ConnectExisting, AttachToExistingRuntime
<1>5. ASSUME CloseDirect \/ DismissDialog PROVE Retired'
  BY <1>1, <1>5 DEF CloseDirect, DismissDialog
<1>6. ASSUME CloseAllSessions PROVE Retired'
  BY <1>3, <1>6 DEF CloseAllSessions
<1>7. ASSUME NEW w \in DOMAIN workspaces, CloseSession(w) PROVE Retired'
  BY <1>3, <1>7 DEF CloseSession
<1>8. ASSUME NEW w \in DOMAIN workspaces, DetachRuntime(w) PROVE Retired'
  <2> DEFINE list == <<Command("detach", w, workspaces[w].runtime, None, None),
                       Command("forget", w, None, None, None)>>
  <2>1. IsSeq(list)
    BY ShortSeqs
  <2>2. actors' = actors \/ Send(list)
    BY <1>8 DEF DetachRuntime
  <2> HIDE DEF list
  <2> QED BY <1>0, <1>1, <2>1, <2>2, SendWorksOff
<1>9. ASSUME NEW w \in DOMAIN workspaces, RetryWorkspace(w) \/ RetryEndpoint(w) PROVE Retired'
  BY <1>0, <1>2, <1>9, RetryEndpointWorksOff DEF RetryWorkspace
<1>10. ASSUME NEW w \in DOMAIN workspaces, NEW t, SplitTerminal(w, t) PROVE Retired'
  BY <1>1, <1>2, <1>10 DEF SplitTerminal
<1>11. ASSUME NEW w \in DOMAIN workspaces, NEW t, ClosePaneOf(w, t) PROVE Retired'
  BY <1>1, <1>2, <1>11 DEF ClosePaneOf
<1>12. ASSUME NEW w \in DOMAIN workspaces, NEW t, TogglePaneZoom(w, t) PROVE Retired'
  BY <1>1, <1>12 DEF TogglePaneZoom
<1> QED BY <1>4, <1>5, <1>6, <1>7, <1>8, <1>9, <1>10, <1>11, <1>12 DEF UserActs

-----------------------------------------------------------------------------
(* The actors and the daemon fill the channel.                              *)

\* Nothing is minted, and no new pane is told of.
LEMMA TellingIsLaid ==
  ASSUME Shape, Laid, UNCHANGED <<untouched, printed>>, minted'.terminals = Upto,
         \A r \in DOMAIN runtimes' : IsLayout(runtimes'[r], Upto),
         NEW from, NEW list, IsSeq(list), Emit(from, list),
         \A n \in DOMAIN list : IsNote(list[n]) /\ Tidy(list[n], Upto) /\ list[n].kind # "created"
  PROVE  Laid'
<1>1. UNCHANGED <<life, workspaces, direct, index, widgets, shown, connecting, saved, printed>>
  BY DEF untouched, screen, aside, dialog
<1>2. Upto \in Upto..MaxTerminals
  BY WindowBounds DEF Laid
<1>3. printed' \subseteq 1..Upto
  BY <1>1 DEF Laid
<1>4. Fills(from, list)
  BY <1>1, <1>2, <1>3 DEF Fills
<1> QED BY <1>4, FillsKeepsLaid

\* One event is told.
LEMMA TellingOneIsLaid ==
  ASSUME Shape, Laid, UNCHANGED <<untouched, printed>>, minted'.terminals = Upto,
         \A r \in DOMAIN runtimes' : IsLayout(runtimes'[r], Upto),
         NEW from, NEW e, Emit(from, <<e>>), IsNote(e), Tidy(e, Upto), e.kind # "created"
  PROVE  Laid'
<1> DEFINE list == <<e>>
<1>1. IsSeq(list) /\ DOMAIN list = {1} /\ list[1] = e
  BY ShortSeqs
<1>2. Emit(from, list)
  OBVIOUS
<1> HIDE DEF list
<1>3. \A n \in DOMAIN list : IsNote(list[n]) /\ Tidy(list[n], Upto) /\ list[n].kind # "created"
  BY <1>1
<1> QED BY <1>1, <1>2, <1>3, TellingIsLaid

\* A word of a workspace.
LEMMA WordsAreTidy ==
  ASSUME NEW w, NEW n, NEW status \in Statuses
  PROVE  LET e == Changed(w, status) IN IsNote(e) /\ Tidy(e, n) /\ e.kind = "status"
BY DEF Event, Changed, IsNote, Tidy

\* ClosePane (daemon_bridge.rs:1033), DetachWorkspace and TerminateWorkspace.
LEMMA RemovePaneIsLaid ==
  ASSUME WindowInv, Laid, NEW i \in DOMAIN actors, RemovePane(i)
  PROVE  Laid'
<1> DEFINE c == Head(actors[i].queue)
           e == [Event("closed", c.ws) EXCEPT !.runtime = c.runtime, !.at = c.at]
<1>0. Shape
  BY DEF WindowInv
<1>1. /\ runtimes' = [runtimes EXCEPT ![c.runtime] = RemoveLeaf(@, c.at)] /\ Emit(i, <<e>>)
      /\ UNCHANGED <<untouched, printed, minted>>
  BY DEF RemovePane
<1>2. IsNote(e) /\ e.kind = "closed" /\ e.status = ""
  BY DEF Event, IsNote
<1> HIDE DEF e, c
<1>3. Tidy(e, Upto)
  BY <1>2 DEF Tidy
<1>4. \A r \in DOMAIN runtimes' : IsLayout(runtimes'[r], Upto)
  BY <1>1, RemovedIsLayout DEF Laid
<1> QED BY <1>0, <1>1, <1>2, <1>3, <1>4, SameUpto, TellingOneIsLaid

\* DetachWorkspace and TerminateWorkspace tell of no pane.
LEMMA LeaveRuntimeIsLaid ==
  ASSUME WindowInv, Laid, NEW i \in DOMAIN actors, LeaveRuntime(i)
  PROVE  Laid'
<1> DEFINE c == Head(actors[i].queue)
<1>0. Shape
  BY DEF WindowInv
<1>1. PICK kind \in {"detach", "terminate"} :
        /\ runtimes' = IF kind = "detach" THEN runtimes ELSE Restrict(runtimes, DOMAIN runtimes \ {c.runtime})
        /\ Emit(i, <<[Event(IF kind = "detach" THEN "detached" ELSE "terminated", c.ws) EXCEPT !.status = "waiting"]>>)
        /\ UNCHANGED <<untouched, printed, minted>>
  BY DEF LeaveRuntime
<1> DEFINE said == IF kind = "detach" THEN "detached" ELSE "terminated"
           e == [Event(said, c.ws) EXCEPT !.status = "waiting"]
<1>2. IsNote(e) /\ e.kind = said /\ e.status = "waiting" /\ said \in {"detached", "terminated"}
  BY DEF Event, IsNote
<1>3. Emit(i, <<e>>)
  BY <1>1
<1> HIDE DEF e, c, said
<1>4. Tidy(e, Upto)
  BY <1>2 DEF Tidy, Statuses
<1>5. \A r \in DOMAIN runtimes' : IsLayout(runtimes'[r], Upto)
  BY <1>1 DEF Laid, Restrict
<1> QED BY <1>0, <1>1, <1>2, <1>3, <1>4, <1>5, SameUpto, TellingOneIsLaid

\* A refusal, a command that finds no daemon, and ListWorkspaces.
LEMMA AnswersAreLaid ==
  ASSUME WindowInv, Laid, NEW i \in DOMAIN actors, CommandRefused(i) \/ NoDaemon(i) \/ RefreshInventory(i)
  PROVE  Laid'
<1> DEFINE c == Head(actors[i].queue)
<1>0. Shape /\ \A r \in DOMAIN runtimes : IsLayout(runtimes[r], Upto)
  BY DEF WindowInv, Laid
<1>1. UNCHANGED <<untouched, runtimes, printed, minted>>
  BY DEF CommandRefused, NoDaemon, RefreshInventory, daemon
<1>2. ASSUME NEW status \in Statuses, Emit(i, <<Changed(c.ws, status)>>) PROVE Laid'
  <2> DEFINE e == Changed(c.ws, status)
  <2>1. IsNote(e) /\ Tidy(e, Upto) /\ e.kind = "status"
    BY WordsAreTidy
  <2>2. Emit(i, <<e>>)
    BY <1>2
  <2> HIDE DEF e
  <2> QED BY <1>0, <1>1, <2>1, <2>2, SameUpto, TellingOneIsLaid
<1>3. CASE CommandRefused(i) \/ NoDaemon(i)
  <2>1. \E status \in {"missing", "blocked", "waiting"} : Emit(i, <<Changed(c.ws, status)>>)
    BY <1>3 DEF CommandRefused, NoDaemon
  <2> QED BY <1>2, <2>1 DEF Statuses
<1>4. CASE RefreshInventory(i)
  <2> DEFINE e == [Event("inventory", None) EXCEPT !.stock = runtimes]
  <2>1. IsNote(e) /\ e.kind = "inventory" /\ e.status = "" /\ e.stock = runtimes
    BY DEF Event, IsNote
  <2>2. Emit(i, <<e>>)
    BY <1>4 DEF RefreshInventory
  <2> HIDE DEF e
  <2>3. Tidy(e, Upto)
    BY <1>0, <2>1 DEF Tidy
  <2> QED BY <1>0, <1>1, <2>1, <2>2, <2>3, SameUpto, TellingOneIsLaid
<1> QED BY <1>3, <1>4

\* The next command of an actor, and its shutdown, tell of nothing.
LEMMA ForgetOrShutdownIsLaid ==
  ASSUME WindowInv, Laid, NEW i \in DOMAIN actors, ForgetOrShutdown(i)
  PROVE  Laid'
<1>0. Shape
  BY DEF WindowInv
<1>1. UNCHANGED <<untouched, events, runtimes, printed, minted>>
  BY DEF ForgetOrShutdown, daemon
<1>2. UNCHANGED <<life, workspaces, direct, index, widgets, shown, connecting, saved, printed>>
  BY <1>1 DEF untouched, screen, aside, dialog
<1>3. Sent' = Sent /\ Shown(workspaces)' = Shown(workspaces) /\ Upto' = Upto
  BY <1>1, <1>2 DEF Sent, Shown, Upto
<1>4. Unseen'
  BY <1>1, <1>3 DEF Laid, Unseen, Brings
<1> QED BY <1>1, <1>2, <1>3, <1>4 DEF Laid

\* OpenWorkspace (daemon_bridge.rs:882).
LEMMA OpenRuntimeIsLaid ==
  ASSUME WindowInv, Laid, NEW i \in DOMAIN actors, OpenRuntime(i)
  PROVE  Laid'
<1> DEFINE c == Head(actors[i].queue)
           created == c.runtime = None
           r == IF created THEN Newest("runtimes") ELSE c.runtime
           leaves == IF created THEN <<>> ELSE runtimes[r]
           status == IF leaves # <<>> \/ actors[i].link = "none" THEN "live" ELSE ""
           e == Opened(c.ws, r, leaves, status)
<1>0. Shape
  BY DEF WindowInv
<1>1. /\ created \/ c.runtime \in DOMAIN runtimes
      /\ Emit(i, <<e>>)
      /\ IF created THEN Mint("runtimes") /\ runtimes' = With(runtimes, r, <<>>)
         ELSE UNCHANGED <<minted, runtimes>>
      /\ UNCHANGED <<untouched, printed>>
  BY DEF OpenRuntime
<1>2. minted'.terminals = Upto
  <2>1. minted \in [workspaces : 0..MaxWorkspaces, runtimes : 0..MaxRuntimes, terminals : Nat]
    BY <1>0 DEF Shape
  <2>2. CASE created
    <3>1. minted' = [minted EXCEPT !["runtimes"] = @ + 1]
      BY <1>1, <2>2 DEF Mint
    <3> QED BY <2>1, <3>1 DEF Upto
  <2>3. CASE ~created
    BY <1>1, <2>3 DEF Upto
  <2> QED BY <2>2, <2>3
<1>3. IsLayout(leaves, Upto)
  <2>1. CASE created
    BY <2>1, SmallLayouts
  <2>2. CASE ~created
    BY <1>1, <2>2 DEF Laid
  <2> QED BY <2>1, <2>2
<1>4. status \in Statuses \cup {""}
  BY DEF Statuses
<1>5. \A x \in DOMAIN runtimes' : IsLayout(runtimes'[x], Upto)
  <2>1. CASE created
    <3>1. runtimes' = With(runtimes, r, <<>>)
      BY <1>1, <2>1
    <3> HIDE DEF r
    <3>2. \A x \in DOMAIN runtimes' : runtimes'[x] = <<>> \/ (x \in DOMAIN runtimes /\ runtimes'[x] = runtimes[x])
      BY <3>1 DEF With
    <3> QED BY <3>2, SmallLayouts DEF Laid
  <2>2. CASE ~created
    BY <1>1, <2>2 DEF Laid
  <2> QED BY <2>1, <2>2
<1> HIDE DEF leaves, status, r, c
<1>6. IsNote(e) /\ e.kind = "opened" /\ e.panes = leaves /\ e.status = status
  BY DEF Event, Opened, IsNote
<1> HIDE DEF e
<1>7. Tidy(e, Upto)
  BY <1>3, <1>4, <1>6 DEF Tidy
<1> QED BY <1>0, <1>1, <1>2, <1>5, <1>6, <1>7, TellingOneIsLaid

\* A leaf is added behind the others (create_pane_in_runtime, server.rs).
LEMMA AppendedIsLayout ==
  ASSUME NEW s, NEW n, IsLayout(s, n), NEW t \in 1..n, t \notin ToSet(s)
  PROVE  IsLayout(Append(s, t), n)
<1> DEFINE u == Append(s, t)
           P == 1..n
<1>1. s \in Seq(P) /\ t \in P /\ \A j, k \in DOMAIN s : s[j] = s[k] => j = k
  BY DEF IsLayout, NoDuplicates
<1>2. \A k \in DOMAIN s : s[k] # t
  BY DEF ToSet
<1> HIDE DEF P
<1>3. /\ u \in Seq(P) /\ Len(s) \in Nat /\ DOMAIN s = 1..Len(s) /\ DOMAIN u = 1..(Len(s) + 1)
      /\ \A k \in 1..(Len(s) + 1) : u[k] = IF k = Len(s) + 1 THEN t ELSE s[k]
  <2>1. u \in Seq(P) /\ Len(u) = Len(s) + 1 /\ Len(s) \in Nat /\ DOMAIN s = 1..Len(s)
    BY <1>1, AppendProperties, LenProperties
  <2>2. DOMAIN u = 1..Len(u)
    BY <2>1, LenProperties
  <2>3. (\A k \in 1..Len(s) : u[k] = s[k]) /\ u[Len(s) + 1] = t
    BY <1>1, AppendProperties
  <2> HIDE DEF u
  <2> QED BY <2>1, <2>2, <2>3
<1> HIDE DEF u
<1>4. ASSUME NEW j \in DOMAIN u, NEW k \in DOMAIN u, u[j] = u[k] PROVE j = k
  <2>1. CASE j \in DOMAIN s /\ k \in DOMAIN s
    <3>1. u[j] = s[j] /\ u[k] = s[k]
      BY <1>3, <2>1
    <3> QED BY <1>1, <1>4, <2>1, <3>1
  <2>2. CASE j \in DOMAIN s /\ k = Len(s) + 1
    <3>1. u[j] = s[j] /\ u[k] = t
      BY <1>3, <2>2
    <3> QED BY <1>2, <1>4, <2>2, <3>1
  <2>3. CASE j = Len(s) + 1 /\ k \in DOMAIN s
    <3>1. u[k] = s[k] /\ u[j] = t
      BY <1>3, <2>3
    <3> QED BY <1>2, <1>4, <2>3, <3>1
  <2>4. (j \in DOMAIN s \/ j = Len(s) + 1) /\ (k \in DOMAIN s \/ k = Len(s) + 1)
    BY <1>3
  <2> QED BY <2>1, <2>2, <2>3, <2>4
<1> QED BY <1>3, <1>4 DEF IsLayout, NoDuplicates, P, u

\* CreatePane and SplitPane (daemon_bridge.rs:944, 982).
LEMMA AddPaneIsLaid ==
  ASSUME WindowInv, Laid, NEW i \in DOMAIN actors, AddPane(i)
  PROVE  Laid'
<1> DEFINE c == Head(actors[i].queue)
           p == Newest("terminals")
           r == c.runtime
           from == IF c.ws \in DOMAIN actors[i].tracked THEN i ELSE None
           d == Delta(p)
           e == Created(c, p)
           deltas == Deltas(r, p)
<1>0. Shape
  BY DEF WindowInv
<1>1. PICK kind \in {"create", "split"}, early \in BOOLEAN :
        /\ r \in DOMAIN runtimes /\ (kind = "split" => Contains(runtimes[r], c.at))
        /\ Mint("terminals")
        /\ runtimes' = [runtimes EXCEPT ![r] =
                          IF kind = "split" THEN SplitLeaf(runtimes[r], c.at, p) ELSE Append(runtimes[r], p)]
        /\ printed' = printed \cup (IF early THEN {p} ELSE {})
        /\ Emit(from, (IF early THEN deltas ELSE <<>>) \o <<e>>)
        /\ UNCHANGED untouched
  BY DEF AddPane
<1>2. p = Upto + 1 /\ Upto \in Nat /\ MaxTerminals \in Nat
  BY WindowBounds DEF Laid, Newest, Upto
<1>3. minted'.terminals = p /\ p \in Upto..MaxTerminals /\ p \in 1..p /\ p > Upto
  <2>1. minted.terminals < MaxTerminals /\ minted' = [minted EXCEPT !.terminals = @ + 1]
    BY <1>1 DEF Mint
  <2>2. DOMAIN minted = {"workspaces", "runtimes", "terminals"}
    BY <1>0 DEF Shape
  <2> QED BY <1>2, <2>1, <2>2 DEF Upto, Newest
<1>4. IsNote(d) /\ d.kind = "delta" /\ d.status = ""
  BY DEF Delta, Event, IsNote
<1>5. IsNote(e) /\ e.kind = "created" /\ e.pane = p /\ e.status = "live"
  BY DEF Created, Event, IsNote
<1> DEFINE list == (IF early THEN deltas ELSE <<>>) \o <<e>>
<1>6. UNCHANGED <<life, workspaces, direct, index, widgets, shown, connecting, saved>>
  BY <1>1 DEF untouched, screen, aside, dialog
<1>7. Emit(from, list)
  BY <1>1
<1>deltas. IsSeq(deltas) /\ \A n \in DOMAIN deltas : deltas[n] = d
  BY <1>0, DeltasAre DEF Shape
<1> HIDE DEF d, e, from, p, r, c, deltas
<1>8. IsSeq(list) /\ \A n \in DOMAIN list : \/ list[n] = d
                                            \/ list[n] = e /\ \A m \in DOMAIN list : m < n => list[m] = d
  <2>1. CASE early
    <3> DEFINE t == <<e>>
    <3>1. list = deltas \o t
      BY <2>1
    <3>2. IsSeq(t) /\ Len(t) = 1 /\ t[1] = e
      BY ShortSeqs
    <3> HIDE DEF list, t
    <3>c. /\ IsSeq(deltas \o t) /\ Len(deltas \o t) = Len(deltas) + Len(t)
          /\ \A n \in 1..(Len(deltas) + Len(t)) :
               (deltas \o t)[n] = IF n <= Len(deltas) THEN deltas[n] ELSE t[n - Len(deltas)]
      BY <1>deltas, <3>2, ConcatIsSeq
    <3>d. Len(deltas) \in Nat /\ DOMAIN deltas = 1..Len(deltas)
      BY <1>deltas, SeqFacts
    <3>3. /\ IsSeq(list) /\ Len(list) = Len(deltas) + 1 /\ Len(deltas) \in Nat
          /\ DOMAIN deltas = 1..Len(deltas)
          /\ \A n \in 1..(Len(deltas) + 1) : list[n] = IF n <= Len(deltas) THEN deltas[n] ELSE t[n - Len(deltas)]
      BY <3>1, <3>2, <3>c, <3>d
    <3>4. DOMAIN list = 1..(Len(deltas) + 1)
      BY <3>3, SeqFacts
    <3>5. (\A n \in 1..Len(deltas) : list[n] = d) /\ list[Len(deltas) + 1] = e
      BY <1>deltas, <3>2, <3>3
    <3> QED BY <3>3, <3>4, <3>5
  <2>2. CASE ~early
    <3>1. list = <<e>>
      BY <2>2
    <3> HIDE DEF list
    <3>2. IsSeq(list) /\ DOMAIN list = {1} /\ list[1] = e
      BY <3>1, ShortSeqs
    <3> QED BY <3>2
  <2> QED BY <2>1, <2>2
<1> HIDE DEF list
<1>9. Tidy(d, p) /\ Tidy(e, p)
  BY <1>3, <1>4, <1>5 DEF Tidy, Statuses
<1>10. \A x \in DOMAIN runtimes : IsLayout(runtimes[x], p) /\ p \notin ToSet(runtimes[x])
  <2> TAKE x \in DOMAIN runtimes
  <2>1. IsLayout(runtimes[x], Upto)
    BY DEF Laid
  <2>2. ToSet(runtimes[x]) \subseteq 1..Upto
    BY <2>1, LayoutIs
  <2>3. Upto <= p /\ p \in Nat /\ p \notin 1..Upto
    BY <1>2
  <2> QED BY <1>2, <2>1, <2>2, <2>3, LayoutsLast
<1>11. \A x \in DOMAIN runtimes' : IsLayout(runtimes'[x], p)
  <2>1. ASSUME kind = "split" PROVE IsLayout(SplitLeaf(runtimes[r], c.at, p), p)
    <3>1. c.at \in ToSet(runtimes[r])
      BY <1>1, <2>1 DEF Contains, ToSet
    <3> QED BY <1>1, <1>3, <1>10, <3>1, SplitIsLayout
  <2>2. IsLayout(Append(runtimes[r], p), p)
    BY <1>1, <1>3, <1>10, AppendedIsLayout
  <2> QED BY <1>1, <1>10, <2>1, <2>2
<1>12. printed' \subseteq 1..p
  <2>1. 1..Upto \subseteq 1..p
    BY <1>2
  <2> QED BY <1>1, <1>3, <2>1 DEF Laid
<1>13. /\ \A n \in DOMAIN list : IsNote(list[n]) /\ Tidy(list[n], p)
       /\ \A n \in DOMAIN list : list[n].kind = "created" =>
            /\ list[n].pane > Upto
            /\ \A m \in DOMAIN list : m < n => list[m].kind = "delta"
  BY <1>3, <1>4, <1>5, <1>8, <1>9
<1>14. Fills(from, list)
  BY <1>3, <1>6, <1>7, <1>8, <1>11, <1>12, <1>13 DEF Fills
<1> QED BY <1>0, <1>14, FillsKeepsLaid

\* That workspaces wait, and what a reattach answers, is as it must be.
LEMMA LostAreTidy ==
  ASSUME Shape, InFlight, NEW i \in DOMAIN actors, NEW n
  PROVE  /\ IsSeq(Lost(i))
         /\ \A m \in DOMAIN Lost(i) : IsNote(Lost(i)[m]) /\ Tidy(Lost(i)[m], n) /\ Lost(i)[m].kind # "created"
<1> DEFINE list == Lost(i)
<1>1. IsSeq(list) /\ \A m \in DOMAIN list : \E w \in DOMAIN actors[i].tracked : list[m] = Changed(w, "waiting")
  BY LostAre
<1> HIDE DEF list
<1>2. ASSUME NEW w PROVE LET e == Changed(w, "waiting") IN IsNote(e) /\ Tidy(e, n) /\ e.kind # "created"
  BY WordsAreTidy DEF Statuses
<1>3. \A m \in DOMAIN list : IsNote(list[m]) /\ Tidy(list[m], n) /\ list[m].kind # "created"
  <2> SUFFICES ASSUME NEW m \in DOMAIN list PROVE IsNote(list[m]) /\ Tidy(list[m], n) /\ list[m].kind # "created"
    OBVIOUS
  <2>1. PICK w \in DOMAIN actors[i].tracked : list[m] = Changed(w, "waiting")
    BY <1>1
  <2> DEFINE e == Changed(w, "waiting")
  <2>2. list[m] = e /\ IsNote(e) /\ Tidy(e, n) /\ e.kind # "created"
    BY <1>2, <2>1
  <2> HIDE DEF e
  <2> QED BY <2>2
<1> QED BY <1>1, <1>3 DEF list

LEMMA RepliesAreTidy ==
  ASSUME Shape, InFlight, NEW i \in DOMAIN actors, NEW ws \in SUBSET DOMAIN actors[i].tracked, NEW refused,
         NEW n, \A r \in DOMAIN runtimes : IsLayout(runtimes[r], n)
  PROVE  LET list == Replies(i, ws, refused)
         IN /\ IsSeq(list)
            /\ \A m \in DOMAIN list : IsNote(list[m]) /\ Tidy(list[m], n) /\ list[m].kind # "created"
<1> DEFINE tracked == actors[i].tracked
           list == Replies(i, ws, refused)
<1>1. IsSeq(list) /\ \A m \in DOMAIN list : \E w \in ws : IsReply(list[m], w, tracked[w], refused)
  BY RepliesAre
<1> HIDE DEF list, tracked
<1>2. ASSUME NEW x, NEW w, NEW r, IsReply(x, w, r, refused) PROVE IsNote(x) /\ Tidy(x, n) /\ x.kind # "created"
  <2>1. CASE r \in DOMAIN runtimes /\ w \notin refused
    <3> DEFINE e == Opened(w, r, runtimes[r], "live")
    <3>1. x = e
      BY <1>2, <2>1 DEF IsReply
    <3>2. IsNote(e) /\ e.kind = "opened" /\ e.panes = runtimes[r] /\ e.status = "live"
      BY DEF Opened, Event, IsNote
    <3>3. IsLayout(runtimes[r], n)
      BY <2>1
    <3> HIDE DEF e
    <3> QED BY <3>1, <3>2, <3>3 DEF Tidy, Statuses
  <2>2. ASSUME NEW status \in {"missing", "blocked"}, x = Changed(w, status)
        PROVE  IsNote(x) /\ Tidy(x, n) /\ x.kind # "created"
    <3> DEFINE e == Changed(w, status)
    <3>1. IsNote(e) /\ Tidy(e, n) /\ e.kind = "status" /\ x = e
      BY <2>2, WordsAreTidy DEF Statuses
    <3> HIDE DEF e
    <3> QED BY <3>1
  <2> QED BY <1>2, <2>1, <2>2 DEF IsReply
<1>3. \A m \in DOMAIN list : IsNote(list[m]) /\ Tidy(list[m], n) /\ list[m].kind # "created"
  BY <1>1, <1>2
<1> QED BY <1>1, <1>3 DEF list

\* A lost connection (daemon_bridge.rs:1993).
LEMMA LinkLostIsLaid ==
  ASSUME WindowInv, Laid, NEW i \in DOMAIN actors, LinkLost(i)
  PROVE  Laid'
<1> DEFINE list == Lost(i)
<1>0. Shape /\ InFlight /\ \A r \in DOMAIN runtimes : IsLayout(runtimes[r], Upto)
  BY DEF WindowInv, Laid
<1>1. Emit(i, list) /\ UNCHANGED <<untouched, runtimes, printed, minted>>
  BY DEF LinkLost
<1>2. IsSeq(list) /\ \A m \in DOMAIN list : IsNote(list[m]) /\ Tidy(list[m], Upto) /\ list[m].kind # "created"
  BY <1>0, LostAreTidy
<1> HIDE DEF list
<1> QED BY <1>0, <1>1, <1>2, SameUpto, TellingIsLaid

\* A reattach (daemon_bridge.rs:1345) tells of the trees the daemon has.
LEMMA ReattachIsLaid ==
  ASSUME WindowInv, Laid, NEW i \in DOMAIN actors, Reattach(i)
  PROVE  Laid'
<1>0. Shape /\ InFlight /\ \A r \in DOMAIN runtimes : IsLayout(runtimes[r], Upto)
  BY DEF WindowInv, Laid
<1>1. PICK refused \in SUBSET There(i) :
        /\ Emit(i, Replies(i, DOMAIN actors[i].tracked, refused))
        /\ UNCHANGED <<untouched, runtimes, printed, minted>>
  BY DEF Reattach
<1> DEFINE list == Replies(i, DOMAIN actors[i].tracked, refused)
<1>2. IsSeq(list) /\ \A m \in DOMAIN list : IsNote(list[m]) /\ Tidy(list[m], Upto) /\ list[m].kind # "created"
  BY <1>0, RepliesAreTidy
<1>3. Emit(i, list)
  BY <1>1
<1> HIDE DEF list
<1> QED BY <1>0, <1>1, <1>2, <1>3, SameUpto, TellingIsLaid

\* So does one that breaks off (daemon_bridge.rs:1411).
LEMMA ReattachFailsIsLaid ==
  ASSUME WindowInv, Laid, NEW i \in DOMAIN actors, ReattachFails(i)
  PROVE  Laid'
<1> DEFINE lost == Lost(i)
<1>0. Shape /\ InFlight /\ \A r \in DOMAIN runtimes : IsLayout(runtimes[r], Upto)
  BY DEF WindowInv, Laid
<1>1. PICK answered \in SUBSET DOMAIN actors[i].tracked, refused \in SUBSET There(i) :
        /\ Emit(i, Replies(i, answered, refused) \o lost)
        /\ UNCHANGED <<untouched, runtimes, printed, minted>>
  BY DEF ReattachFails
<1> DEFINE replies == Replies(i, answered, refused)
           list == replies \o lost
<1>2. /\ IsSeq(replies)
      /\ \A m \in DOMAIN replies : IsNote(replies[m]) /\ Tidy(replies[m], Upto) /\ replies[m].kind # "created"
      /\ IsSeq(lost)
      /\ \A m \in DOMAIN lost : IsNote(lost[m]) /\ Tidy(lost[m], Upto) /\ lost[m].kind # "created"
  BY <1>0, RepliesAreTidy, LostAreTidy
<1>3. Emit(i, list)
  BY <1>1
<1> HIDE DEF replies, lost
<1>4. IsSeq(list) /\ ToSet(list) = ToSet(replies) \cup ToSet(lost)
  BY <1>2, ConcatIsSeq
<1> HIDE DEF list
<1>5. \A m \in DOMAIN list : IsNote(list[m]) /\ Tidy(list[m], Upto) /\ list[m].kind # "created"
  <2>1. \A x \in ToSet(replies) \cup ToSet(lost) : IsNote(x) /\ Tidy(x, Upto) /\ x.kind # "created"
    BY <1>2 DEF ToSet
  <2>2. \A m \in DOMAIN list : list[m] \in ToSet(list)
    BY <1>4, SeqFacts
  <2> QED BY <1>4, <2>1, <2>2
<1> QED BY <1>0, <1>1, <1>3, <1>4, <1>5, SameUpto, TellingIsLaid

\* Output is of a pane the daemon has (pty.rs).
LEMMA DaemonPrintsIsLaid ==
  ASSUME WindowInv, Laid, NEW r \in DOMAIN runtimes, NEW p \in ToSet(runtimes[r]), DaemonPrints(r, p)
  PROVE  Laid'
<1> DEFINE list == Deltas(r, p)
<1>0. Shape /\ Actors
  BY DEF WindowInv, Shape
<1>1. /\ Emit(None, list) /\ printed' = printed \cup {p}
      /\ UNCHANGED <<untouched, runtimes, minted>>
  BY DEF DaemonPrints
<1>2. IsSeq(list) /\ \A n \in DOMAIN list : list[n] = Delta(p)
  BY <1>0, DeltasAre
<1> HIDE DEF list
<1>5. \A n \in DOMAIN list : IsNote(list[n]) /\ Tidy(list[n], Upto) /\ list[n].kind # "created"
  <2> DEFINE e == Delta(p)
  <2>1. IsNote(e) /\ e.kind = "delta" /\ e.status = ""
    BY DEF Delta, Event, IsNote
  <2>2. \A n \in DOMAIN list : list[n] = e
    BY <1>2
  <2> HIDE DEF e
  <2>3. Tidy(e, Upto)
    BY <2>1 DEF Tidy
  <2> QED BY <2>1, <2>2, <2>3
<1>6. p \in 1..Upto
  BY LayoutIs DEF Laid
<1>7. UNCHANGED <<life, workspaces, direct, index, widgets, shown, connecting, saved>>
  BY <1>1 DEF untouched, screen, aside, dialog
<1>8. /\ minted'.terminals = Upto /\ Upto \in Upto..MaxTerminals
      /\ printed' \subseteq 1..Upto /\ \A x \in DOMAIN runtimes' : IsLayout(runtimes'[x], Upto)
  BY <1>1, <1>6, SameUpto DEF Laid
<1>9. Fills(None, list)
  BY <1>1, <1>2, <1>5, <1>7, <1>8 DEF Fills
<1> QED BY <1>0, <1>9, FillsKeepsLaid

\* Every step of the actors and of the daemon.
LEMMA EndpointActsAreLaid ==
  ASSUME WindowInv, Laid, EndpointActs
  PROVE  Laid'
<1>1. ASSUME NEW i \in DOMAIN actors,
             \/ OpenRuntime(i) \/ AddPane(i) \/ RemovePane(i) \/ LeaveRuntime(i) \/ CommandRefused(i)
             \/ ForgetOrShutdown(i) \/ RefreshInventory(i) \/ NoDaemon(i) \/ LinkLost(i) \/ Reattach(i)
             \/ ReattachFails(i)
      PROVE  Laid'
  BY <1>1, OpenRuntimeIsLaid, AddPaneIsLaid, RemovePaneIsLaid, LeaveRuntimeIsLaid, AnswersAreLaid,
     ForgetOrShutdownIsLaid, LinkLostIsLaid, ReattachIsLaid, ReattachFailsIsLaid
<1> QED BY <1>1, DaemonPrintsIsLaid DEF EndpointActs

\* A command is worked off, by an actor that goes on.
LEMMA EndpointActsWorkOff ==
  ASSUME WindowInv, Retired, EndpointActs
  PROVE  Retired'
<1>0. Actors
  BY DEF WindowInv, Shape
<1>1. IsSeq(<<>>)
  BY ShortSeqs
<1>2. ASSUME NEW i \in DOMAIN actors, NEW kind, Takes(i, kind), kind # "shutdown", Connects(i),
             NEW tracked, NEW more, IsSeq(more), Done(i, "up", tracked, more)
      PROVE  Retired'
  <2>1. actors[i].queue # <<>> /\ Head(actors[i].queue).kind # "shutdown" /\ actors[i].link # "ended"
    BY <1>2 DEF Takes, Connects
  <2> QED BY <1>0, <1>2, <2>1, DoneWorksOff
<1>3. ASSUME NEW i \in DOMAIN actors, OpenRuntime(i) PROVE Retired'
  <2> DEFINE c == Head(actors[i].queue)
             r == IF c.runtime = None THEN Newest("runtimes") ELSE c.runtime
             leaves == IF c.runtime = None THEN <<>> ELSE runtimes[r]
             first == IF leaves = <<>> THEN <<Command("create", c.ws, r, None, c.at)>> ELSE <<>>
  <2>1. /\ Takes(i, "open") /\ Connects(i)
        /\ Done(i, "up", With(actors[i].tracked, c.ws, r), first)
    BY <1>3 DEF OpenRuntime
  <2>2. IsSeq(first)
    BY ShortSeqs
  <2> HIDE DEF first, c, r
  <2> QED BY <1>2, <2>1, <2>2
<1>4. ASSUME NEW i \in DOMAIN actors,
             AddPane(i) \/ RemovePane(i) \/ LeaveRuntime(i) \/ CommandRefused(i) \/ RefreshInventory(i)
      PROVE  Retired'
  <2>1. \E kind, tracked : Takes(i, kind) /\ kind # "shutdown" /\ Connects(i) /\ Done(i, "up", tracked, <<>>)
    BY <1>4 DEF AddPane, RemovePane, LeaveRuntime, CommandRefused, RefreshInventory
  <2> QED BY <1>1, <1>2, <2>1
<1>5. ASSUME NEW i \in DOMAIN actors, NoDaemon(i) PROVE Retired'
  <2> DEFINE link == "lost"  more == <<>>  tracked == actors[i].tracked
  <2>1. /\ actors[i].queue # <<>> /\ Head(actors[i].queue).kind # "shutdown" /\ actors[i].link # "ended"
        /\ Done(i, link, tracked, more) /\ link \in {"none", "up", "lost"} /\ IsSeq(more)
    BY <1>1, <1>5 DEF NoDaemon
  <2> HIDE DEF link, more, tracked
  <2> QED BY <1>0, <2>1, DoneWorksOff
<1>6. ASSUME NEW i \in DOMAIN actors, ForgetOrShutdown(i) PROVE Retired'
  <2>1. CASE Head(actors[i].queue).kind = "shutdown"
    <3>1. actors' = [actors EXCEPT ![i] = Ended]
      BY <1>6, <2>1 DEF ForgetOrShutdown
    <3>2. Ended.link = "ended"
      BY DEF Ended
    <3> QED BY <1>0, <3>1, <3>2, WorksOff
  <2>2. CASE Head(actors[i].queue).kind # "shutdown"
    <3> DEFINE link == actors[i].link
               more == <<>>
               tracked == Without(actors[i].tracked, {Head(actors[i].queue).ws})
               a == [queue |-> Tail(actors[i].queue) \o more, tracked |-> tracked, link |-> link]
    <3>1. actors[i].queue # <<>> /\ Done(i, link, tracked, more) /\ IsSeq(more)
      BY <1>1, <1>6, <2>2 DEF ForgetOrShutdown, Takes
    <3>2. link \in {"none", "up", "lost", "ended"}
      BY DEF Retired
    <3>3. CASE link = "ended"
      <4>1. actors' = [actors EXCEPT ![i] = a] /\ a.link = "ended"
        BY <3>1, <3>3 DEF Done
      <4> HIDE DEF a
      <4> QED BY <1>0, <4>1, WorksOff
    <3>4. CASE link # "ended"
      <4>1. link \in {"none", "up", "lost"} /\ actors[i].link # "ended"
        BY <3>2, <3>4
      <4> HIDE DEF link, more, tracked
      <4> QED BY <1>0, <2>2, <3>1, <4>1, DoneWorksOff
    <3> QED BY <3>3, <3>4
  <2> QED BY <2>1, <2>2
<1>7. ASSUME NEW i \in DOMAIN actors, NEW link \in {"none", "up", "lost"}, actors[i].link # "ended",
             actors' = [actors EXCEPT ![i].link = link]
      PROVE  Retired'
  <2> DEFINE a == [actors[i] EXCEPT !.link = link]
  <2>1. IsActor(actors[i])
    BY <1>0 DEF Actors
  <2>2. actors' = [actors EXCEPT ![i] = a] /\ a.link = link /\ a.queue = actors[i].queue
    BY <1>7, <2>1 DEF IsActor
  <2> HIDE DEF a
  <2> QED BY <1>0, <1>7, <2>2, WorksOff
<1>8. ASSUME NEW i \in DOMAIN actors, LinkLost(i) \/ Reattach(i) PROVE Retired'
  <2>1. /\ actors[i].link \in {"up", "lost"}
        /\ \E link \in {"none", "up", "lost"} : actors' = [actors EXCEPT ![i].link = link]
    BY <1>8 DEF LinkLost, Reattach
  <2> QED BY <1>7, <2>1
<1>9. ASSUME NEW r, NEW p, DaemonPrints(r, p) PROVE Retired'
  BY <1>9 DEF DaemonPrints, Retired
<1>10. ASSUME NEW i \in DOMAIN actors, ReattachFails(i) PROVE Retired'
  BY <1>10 DEF ReattachFails, Retired
<1> QED BY <1>3, <1>4, <1>5, <1>6, <1>8, <1>9, <1>10 DEF EndpointActs

-----------------------------------------------------------------------------
(* What the poller reads is put into layouts.                               *)

\* A status is a status.
LEMMA ToldIsLaid ==
  ASSUME NEW ws, NEW n, NEW e, e.status \in Statuses \cup {""},
         \A w \in DOMAIN ws : IsWorkspace(ws[w]) /\ IsLaid(ws[w], n)
  PROVE  /\ \A w \in DOMAIN Told(ws, e) : IsLaid(Told(ws, e)[w], n)
         /\ Shown(Told(ws, e)) = Shown(ws)
<1> DEFINE told == Told(ws, e)
<1>1. /\ DOMAIN told = DOMAIN ws
      /\ \A w \in DOMAIN ws : told[w].layout = ws[w].layout /\ told[w].zoom = ws[w].zoom
  BY ToldKeeps
<1>2. \A w \in DOMAIN ws : told[w].status = ws[w].status \/ told[w].status \in Statuses
  BY DEF Told, IsWorkspace
<1> HIDE DEF told
<1>3. \A w \in DOMAIN told : IsLaid(told[w], n)
  BY <1>1, <1>2 DEF IsLaid
<1>4. Shown(told) = Shown(ws)
  BY <1>1 DEF Shown
<1> QED BY <1>3, <1>4 DEF told

\* What is read next, as it must be.
LEMMA ReadIsTidy ==
  ASSUME WindowInv, Laid, NEW kind, Polls(kind)
  PROVE  /\ Tidy(Polling, Upto) /\ Polling.kind = kind /\ life = "up"
         /\ events # <<>> /\ events' = Tail(events) /\ Polling = events[1]
         /\ kind = "created" => Polling.pane \in 1..Upto /\ Polling.pane \notin Shown(workspaces)
<1>1. Shape /\ IsSeq(events)
  BY DEF WindowInv, Shape
<1>2. /\ life = "up" /\ events # <<>> /\ events' = Tail(events) /\ Polling = events[1]
      /\ Polling \in Sent /\ Polling.kind = kind
  BY <1>1, PollsTakes
<1>3. Tidy(Polling, Upto)
  BY <1>2 DEF Laid
<1>4. 1 \in DOMAIN events
  BY <1>1, <1>2, SeqFacts
<1>5. kind = "created" => Polling.pane \in 1..Upto /\ Polling.pane \notin Shown(workspaces)
  BY <1>2, <1>3, <1>4 DEF Laid, Unseen, Tidy
<1> QED BY <1>2, <1>3, <1>5

\* A step of the poller that keeps the layouts as they must be.
LEMMA ReadArranges ==
  ASSUME WindowInv, Laid, NEW kind, Polls(kind), life' = life,
         minted'.terminals \in Upto..MaxTerminals,
         \A w \in DOMAIN workspaces' : IsLaid(workspaces'[w], minted'.terminals),
         \/ saved' = saved
         \/ /\ \A w \in DOMAIN saved'.workspaces : IsLaid(saved'.workspaces[w], minted'.terminals)
            /\ saved'.direct \in BOOLEAN,
         UNCHANGED <<direct, runtimes, printed>>, connecting' \in BOOLEAN,
         index' \cup widgets' \subseteq index \cup widgets \cup 1..Upto \cup Shown(workspaces)',
         shown' \subseteq widgets',
         \A t \in Shown(workspaces)' : t \in Shown(workspaces) \/ t > Upto \/ Brings(Polling, t)
  PROVE  Laid'
<1> DEFINE m == minted'.terminals
<1>1. Upto \in Nat /\ m \in Nat /\ Upto <= m
  BY WindowBounds DEF Laid
<1>2. Shape /\ life = "up" /\ events # <<>> /\ events' = Tail(events) /\ Polling = events[1]
  BY ReadIsTidy DEF WindowInv
<1> HIDE DEF m
<1>3. 1..Upto \subseteq 1..m
  BY <1>1
<1>4. Shown(workspaces)' \subseteq 1..m
  <2> DEFINE ws == workspaces'
  <2>1. \A w \in DOMAIN ws : IsLaid(ws[w], m)
    BY DEF m
  <2> HIDE DEF ws
  <2>2. Shown(ws) \subseteq 1..m
    BY <2>1, ShownIsUpto
  <2> QED BY <2>2 DEF ws, Shown
<1>5. index' \cup widgets' \subseteq 1..m
  BY <1>3, <1>4 DEF Laid
<1>6. direct' \in BOOLEAN
  BY DEF Laid
<1>7. Arranges
  BY <1>2, <1>5, <1>6 DEF Arranges, m
<1> QED BY <1>2, <1>7, ArrangesKeepsLaid

\* apply_managed_workspace_opened (workspace_state.rs:469).
LEMMA WorkspaceOpenedIsLaid ==
  ASSUME WindowInv, Laid, WorkspaceOpened
  PROVE  Laid'
<1> DEFINE e == Polling
           w == e.ws
           x == Adopted(workspaces[w], e)
           ws == [workspaces EXCEPT ![e.ws] = Adopted(@, e)]
           removed == ToSet(workspaces[e.ws].layout) \ ToSet(ws[e.ws].layout)
           kept == Rebuilt(ws, e.ws, widgets \ removed)
           restored == ToSet(e.panes) \cap kept
<1>0. Shape /\ \A v \in DOMAIN workspaces : IsWorkspace(workspaces[v])
  BY DEF WindowInv, Shape
<1>1. /\ Polls("opened") /\ life' = life
      /\ UNCHANGED <<direct, connecting, runtimes, printed, minted>>
  BY DEF WorkspaceOpened, dialog, daemon
<1>2. Tidy(e, Upto) /\ e.kind = "opened"
  BY <1>1, ReadIsTidy
<1>3. minted'.terminals = Upto /\ Upto \in Nat /\ Upto \in Upto..MaxTerminals /\ connecting' \in BOOLEAN
  BY <1>1, SameUpto DEF Laid
<1>4. CASE w \in DOMAIN workspaces
  <2>1. /\ workspaces' = Told(ws, e) /\ widgets' = kept
        /\ shown' = ((shown \cap kept) \ restored) \cup (restored \cap e.prints)
        /\ index' = Shown(ws) /\ Save(ws, direct, dismissed)
    BY <1>4 DEF WorkspaceOpened
  <2>2. restored \subseteq kept /\ kept \subseteq Shown(ws)
    BY DEF Rebuilt
  <2>3. ws = [workspaces EXCEPT ![w] = x]
    OBVIOUS
  <2>4. /\ IsWorkspace(x) /\ x.layout = (IF e.panes = <<>> THEN workspaces[w].layout ELSE e.panes)
        /\ x.zoom = workspaces[w].zoom /\ x.status = workspaces[w].status
    BY <1>0, <1>4 DEF Adopted, IsWorkspace
  <2> HIDE DEF x, ws, kept, restored
  <2>5. IsLaid(workspaces[w], Upto) /\ IsLayout(e.panes, Upto)
    BY <1>2, <1>4 DEF Laid, Tidy
  <2>6. IsLaid(x, Upto)
    BY <2>4, <2>5 DEF IsLaid
  <2>7. /\ DOMAIN ws = DOMAIN workspaces
        /\ \A v \in DOMAIN ws : ws[v] = IF v = w THEN x ELSE workspaces[v]
    BY <2>3
  <2>8. \A v \in DOMAIN ws : IsWorkspace(ws[v]) /\ IsLaid(ws[v], Upto)
    BY <1>0, <2>4, <2>6, <2>7 DEF Laid
  <2>9. ASSUME NEW t \in Shown(ws) PROVE t \in Shown(workspaces) \/ Brings(e, t)
    <3>1. PICK v \in DOMAIN ws : t \in ToSet(ws[v].layout)
      BY <2>9, ShownMeans
    <3>2. t \in ToSet(workspaces[v].layout) \/ t \in ToSet(e.panes)
      BY <2>4, <2>7, <3>1
    <3> QED BY <1>2, <2>7, <3>1, <3>2, ShownMeans DEF Brings
  <2>10. e.status \in Statuses \cup {""}
    BY <1>2 DEF Tidy
  <2>11. /\ \A v \in DOMAIN workspaces' : IsLaid(workspaces'[v], Upto)
         /\ Shown(workspaces)' = Shown(ws)
    <3> DEFINE told == Told(ws, e)
    <3>1. (\A v \in DOMAIN told : IsLaid(told[v], Upto)) /\ Shown(told) = Shown(ws)
      BY <2>8, <2>10, ToldIsLaid
    <3>2. workspaces' = told
      BY <2>1
    <3> HIDE DEF told
    <3> QED BY <3>1, <3>2 DEF Shown
  <2>12. \/ saved' = saved
         \/ /\ \A v \in DOMAIN saved'.workspaces : IsLaid(saved'.workspaces[v], Upto)
            /\ saved'.direct \in BOOLEAN
    BY <1>3, <2>1, <2>8, SaveLays DEF Laid
  <2>13. shown' \subseteq widgets'
    BY <2>1, <2>2
  <2> QED BY <1>1, <1>3, <2>1, <2>2, <2>9, <2>11, <2>12, <2>13, ReadArranges
<1>5. CASE w \notin DOMAIN workspaces
  <2>1. UNCHANGED <<workspaces, widgets, shown, index, saved>>
    BY <1>5 DEF WorkspaceOpened
  <2>2. (\A v \in DOMAIN workspaces' : IsLaid(workspaces'[v], Upto)) /\ shown' \subseteq widgets'
    BY <2>1 DEF Laid
  <2>3. Shown(workspaces)' = Shown(workspaces)
    BY <2>1 DEF Shown
  <2> QED BY <1>1, <1>3, <2>1, <2>2, <2>3, ReadArranges
<1> QED BY <1>4, <1>5

\* apply_managed_pane_created (workspace_state.rs:423): no workspace shows the pane yet.
LEMMA PaneCreatedIsLaid ==
  ASSUME WindowInv, Laid, PaneCreated
  PROVE  Laid'
<1> DEFINE e == Polling
           w == e.ws
           known == e.ws \in DOMAIN workspaces /\ e.at \in ToSet(workspaces[e.ws].layout)
           Renamed(t) == IF t = e.at THEN e.pane ELSE t
           x == [workspaces[w] EXCEPT !.runtime = e.runtime, !.zoom = Renamed(@),
                                      !.layout = RenameLeaf(@, e.at, e.pane)]
           ws == [workspaces EXCEPT ![e.ws].runtime = e.runtime, ![e.ws].zoom = Renamed(@),
                                    ![e.ws].layout = RenameLeaf(@, e.at, e.pane)]
           kept == {Renamed(t) : t \in widgets}
<1>0. Shape /\ \A v \in DOMAIN workspaces : IsWorkspace(workspaces[v])
  BY DEF WindowInv, Shape
<1>1. /\ Polls("created") /\ life' = life
      /\ UNCHANGED <<direct, connecting, runtimes, printed, minted, saved>>
  BY DEF PaneCreated, dialog, daemon
<1>2. /\ Tidy(e, Upto) /\ e.kind = "created"
      /\ e.pane \in 1..Upto /\ e.pane \notin Shown(workspaces)
  BY <1>1, ReadIsTidy
<1>3. minted'.terminals = Upto /\ Upto \in Nat /\ Upto \in Upto..MaxTerminals /\ connecting' \in BOOLEAN
  BY <1>1, SameUpto DEF Laid
<1>4. e.status \in Statuses \cup {""}
  BY <1>2 DEF Tidy
<1>5. CASE known
  <2>1. workspaces' = Told(ws, e) /\ widgets' = kept /\ shown' = shown \cap kept /\ index' = Shown(ws)
    BY <1>5 DEF PaneCreated, DrawWithout
  <2>2. ws = [workspaces EXCEPT ![w] = x]
    OBVIOUS
  <2>3. kept \subseteq widgets \cup {e.pane}
    OBVIOUS
  <2>4. /\ IsWorkspace(x) /\ x.layout = RenameLeaf(workspaces[w].layout, e.at, e.pane)
        /\ x.zoom \in {workspaces[w].zoom, e.pane} /\ x.status = workspaces[w].status
    BY <1>0, <1>5 DEF IsWorkspace
  <2>5. w \in DOMAIN workspaces
    BY <1>5
  <2> HIDE DEF x, ws, kept
  <2>6. IsLaid(workspaces[w], Upto) /\ e.pane \notin ToSet(workspaces[w].layout)
    BY <1>2, <2>5, ShownMeans DEF Laid
  <2>7. /\ IsLayout(x.layout, Upto) /\ x.layout # <<>>
        /\ ToSet(x.layout) \subseteq ToSet(workspaces[w].layout) \cup {e.pane}
    BY <1>2, <2>4, <2>6, RenamedIsLayout DEF IsLaid
  <2>8. IsLaid(x, Upto)
    <3>1. e.pane \in 0..Upto
      BY <1>2, <1>3
    <3> QED BY <2>4, <2>6, <2>7, <3>1 DEF IsLaid
  <2>9. /\ DOMAIN ws = DOMAIN workspaces
        /\ \A v \in DOMAIN ws : ws[v] = IF v = w THEN x ELSE workspaces[v]
    BY <2>2
  <2>10. \A v \in DOMAIN ws : IsWorkspace(ws[v]) /\ IsLaid(ws[v], Upto)
    BY <1>0, <2>4, <2>8, <2>9 DEF Laid
  <2>11. ASSUME NEW t \in Shown(ws) PROVE t \in Shown(workspaces) \/ Brings(e, t)
    <3>1. PICK v \in DOMAIN ws : t \in ToSet(ws[v].layout)
      BY <2>11, ShownMeans
    <3>2. t \in ToSet(workspaces[v].layout) \/ t = e.pane
      BY <2>7, <2>9, <3>1
    <3> QED BY <1>2, <2>9, <3>1, <3>2, ShownMeans DEF Brings
  <2>12. /\ \A v \in DOMAIN workspaces' : IsLaid(workspaces'[v], Upto)
         /\ Shown(workspaces)' = Shown(ws)
    <3> DEFINE told == Told(ws, e)
    <3>1. (\A v \in DOMAIN told : IsLaid(told[v], Upto)) /\ Shown(told) = Shown(ws)
      BY <1>4, <2>10, ToldIsLaid
    <3>2. workspaces' = told
      BY <2>1
    <3> HIDE DEF told
    <3> QED BY <3>1, <3>2 DEF Shown
  <2>13. index' \cup widgets' \subseteq index \cup widgets \cup 1..Upto \cup Shown(workspaces)' /\ shown' \subseteq widgets'
    BY <1>2, <2>1, <2>3, <2>12
  <2> QED BY <1>1, <1>3, <2>11, <2>12, <2>13, ReadArranges
<1>6. CASE ~known
  <2>1. workspaces' = Told(workspaces, e) /\ UNCHANGED <<widgets, shown, index>>
    BY <1>6 DEF PaneCreated
  <2>2. /\ \A v \in DOMAIN workspaces' : IsLaid(workspaces'[v], Upto)
        /\ Shown(workspaces)' = Shown(workspaces)
    <3> DEFINE told == Told(workspaces, e)
    <3>1. (\A v \in DOMAIN told : IsLaid(told[v], Upto)) /\ Shown(told) = Shown(workspaces)
      BY <1>0, <1>4, ToldIsLaid DEF Laid
    <3>2. workspaces' = told
      BY <2>1
    <3> HIDE DEF told
    <3> QED BY <3>1, <3>2 DEF Shown
  <2>3. shown' \subseteq widgets'
    BY <2>1 DEF Laid
  <2> QED BY <1>1, <1>3, <2>1, <2>2, <2>3, ReadArranges
<1> QED BY <1>5, <1>6

\* apply_managed_pane_closed (workspace_state.rs:456).
LEMMA PaneClosedIsLaid ==
  ASSUME WindowInv, Laid, PaneClosed
  PROVE  Laid'
<1> DEFINE e == Polling
           w == e.ws
           open == w \in DOMAIN workspaces
           last == open /\ workspaces[w].layout = <<e.at>>
           x == [workspaces[w] EXCEPT !.layout = RemoveLeaf(@, e.at)]
           ws == [workspaces EXCEPT ![w].layout = RemoveLeaf(@, e.at)]
           removed == {e.at}
<1>0. Shape /\ \A v \in DOMAIN workspaces : IsWorkspace(workspaces[v])
  BY DEF WindowInv, Shape
<1>1. /\ Polls("closed") /\ life' = life
      /\ UNCHANGED <<direct, connecting, runtimes, printed, minted, saved>>
  BY DEF PaneClosed, aside, dialog, daemon
<1>2. minted'.terminals = Upto /\ Upto \in Nat /\ Upto \in Upto..MaxTerminals /\ connecting' \in BOOLEAN
  BY <1>1, SameUpto DEF Laid
<1>3. CASE open /\ ~last
  <2>1. DrawWithout(removed, ws, Rebuilt(ws, w, widgets \ removed)) /\ index' = Shown(ws)
    BY <1>3 DEF PaneClosed
  <2>2. ws = [workspaces EXCEPT ![w] = x]
    OBVIOUS
  <2>3. x.layout = RemoveLeaf(workspaces[w].layout, e.at) /\ x.zoom = workspaces[w].zoom /\ x.status = workspaces[w].status
    BY <1>0, <1>3 DEF IsWorkspace
  <2>4. w \in DOMAIN workspaces /\ workspaces[w].layout # <<e.at>> /\ IsLaid(workspaces[w], Upto)
    BY <1>3 DEF Laid
  <2> HIDE DEF x, ws, removed
  <2>5. workspaces' = ws /\ widgets' \subseteq Shown(ws) /\ shown' \subseteq widgets' /\ Shown(ws) = Shown(workspaces)'
    BY <2>1 DEF DrawWithout, Rebuilt, Shown
  <2> HIDE DEF e, w
  <2>6. /\ IsLayout(x.layout, Upto) /\ x.layout # <<>> /\ ToSet(x.layout) \subseteq ToSet(workspaces[w].layout)
    BY <2>3, <2>4, RemovedIsLayout DEF IsLaid
  <2>7. IsLaid(x, Upto)
    BY <2>3, <2>4, <2>6 DEF IsLaid
  <2>8. workspaces' = [workspaces EXCEPT ![w] = x]
        /\ ToSet(x.layout) \subseteq ToSet(workspaces[w].layout) \cup {}
    BY <2>2, <2>5, <2>6
  <2>9. /\ \A v \in DOMAIN workspaces' : IsLaid(workspaces'[v], Upto)
        /\ \A t \in Shown(workspaces)' : t \in Shown(workspaces) \/ t \in {}
    <3> DEFINE T == {}
    <3>1. ToSet(x.layout) \subseteq ToSet(workspaces[w].layout) \cup T /\ Upto <= Upto
      BY <1>2, <2>8
    <3> HIDE DEF T
    <3>2. /\ \A v \in DOMAIN workspaces' : IsLaid(workspaces'[v], Upto)
          /\ \A t \in Shown(workspaces)' : t \in Shown(workspaces) \/ t \in T
      BY <1>2, <2>4, <2>7, <2>8, <3>1, OneIsLaid
    <3> QED BY <3>2 DEF T
  <2> QED BY <1>1, <1>2, <2>1, <2>5, <2>9, ReadArranges
<1>4. CASE ~(open /\ ~last)
  <2>1. /\ workspaces' = workspaces /\ widgets' = widgets \ removed /\ shown' = shown \cap widgets'
        /\ index' = index
    BY <1>4 DEF PaneClosed, DrawWithout
  <2>2. (\A v \in DOMAIN workspaces' : IsLaid(workspaces'[v], Upto)) /\ shown' \subseteq widgets'
    BY <2>1 DEF Laid
  <2>3. Shown(workspaces)' = Shown(workspaces)
    BY <2>1 DEF Shown
  <2> QED BY <1>1, <1>2, <2>1, <2>2, <2>3, ReadArranges
<1> QED BY <1>3, <1>4

\* set_workspace_connection_status (window/runtime.rs:1126) and feed_coalesced_deltas (:804) leave the layouts.
LEMMA StatusOrDeltaIsLaid ==
  ASSUME WindowInv, Laid, StatusChanged \/ OutputDelta
  PROVE  Laid'
<1> DEFINE e == Polling
           w == e.ws
           ws == [workspaces EXCEPT ![w].runtime = None, ![w].status = e.status]
<1>0. Shape /\ \A v \in DOMAIN workspaces : IsWorkspace(workspaces[v])
  BY DEF WindowInv, Shape
<1>1. CASE StatusChanged
  <2>1. PICK kind \in {"status", "detached", "terminated"} :
          /\ Polls(kind) /\ life' = life
          /\ UNCHANGED <<direct, index, widgets, shown, connecting, runtimes, printed, minted, saved>>
          /\ workspaces' = IF kind = "terminated" /\ w \in DOMAIN workspaces THEN ws ELSE Told(workspaces, e)
    BY <1>1 DEF StatusChanged, dialog, daemon
  <2>2. minted'.terminals = Upto /\ Upto \in Nat /\ Upto \in Upto..MaxTerminals /\ connecting' \in BOOLEAN
    BY <2>1, SameUpto DEF Laid
  <2>3. Tidy(e, Upto) /\ e.kind = kind
    BY <2>1, ReadIsTidy
  <2>4. /\ \A v \in DOMAIN workspaces' : IsLaid(workspaces'[v], Upto)
        /\ Shown(workspaces)' = Shown(workspaces)
    <3>1. CASE kind = "terminated" /\ w \in DOMAIN workspaces
      <4>1. /\ DOMAIN ws = DOMAIN workspaces
            /\ \A v \in DOMAIN ws : /\ ws[v].layout = workspaces[v].layout /\ ws[v].zoom = workspaces[v].zoom
                                    /\ ws[v].status \in {workspaces[v].status, e.status}
        BY <1>0, <3>1 DEF IsWorkspace
      <4>2. workspaces' = ws /\ e.status \in Statuses
        BY <2>1, <2>3, <3>1 DEF Tidy
      <4> HIDE DEF ws
      <4>3. \A v \in DOMAIN workspaces' : IsLaid(workspaces'[v], Upto)
        BY <4>1, <4>2 DEF Laid, IsLaid
      <4> QED BY <4>1, <4>2, <4>3 DEF Shown
    <3>2. CASE ~(kind = "terminated" /\ w \in DOMAIN workspaces)
      <4> DEFINE told == Told(workspaces, e)
      <4>1. (\A v \in DOMAIN told : IsLaid(told[v], Upto)) /\ Shown(told) = Shown(workspaces)
        BY <1>0, <2>3, ToldIsLaid DEF Laid, Tidy
      <4>2. workspaces' = told
        BY <2>1, <3>2
      <4> HIDE DEF told
      <4> QED BY <4>1, <4>2 DEF Shown
    <3> QED BY <3>1, <3>2
  <2>5. shown' \subseteq widgets'
    BY <2>1 DEF Laid
  <2> QED BY <2>1, <2>2, <2>4, <2>5, ReadArranges
<1>2. CASE OutputDelta
  <2>1. /\ Polls("delta") /\ life' = life
        /\ shown' \subseteq shown \cup widgets
        /\ UNCHANGED <<workspaces, direct, index, widgets, connecting, runtimes, printed, minted, saved>>
    BY <1>2 DEF OutputDelta, aside, dialog, daemon
  <2>2. minted'.terminals = Upto /\ Upto \in Nat /\ Upto \in Upto..MaxTerminals /\ connecting' \in BOOLEAN
    BY <2>1, SameUpto DEF Laid
  <2>3. (\A v \in DOMAIN workspaces' : IsLaid(workspaces'[v], Upto)) /\ shown' \subseteq widgets'
    BY <2>1 DEF Laid
  <2>4. Shown(workspaces)' = Shown(workspaces)
    BY <2>1 DEF Shown
  <2> QED BY <2>1, <2>2, <2>3, <2>4, ReadArranges
<1> QED BY <1>1, <1>2

\* recover_managed_workspaces_from_inventory (workspace_state.rs:302): a recovered workspace has the tree
\* of its runtime, or a new terminal of its own if that has none.
LEMMA InventoryLoadedIsLaid ==
  ASSUME WindowInv, Laid, InventoryLoaded
  PROVE  Laid'
<1> DEFINE e == Polling
           hidden == dismissed \cap DOMAIN e.stock
           found == Recoverable(workspaces, e.stock, hidden)
           treeless == {r \in found : e.stock[r] = <<>>}
           n == Cardinality(treeless)
           Leaf(r) == minted.terminals + Cardinality({q \in treeless : q <= r})
           Layout(r) == IF r \in treeless THEN <<Leaf(r)>> ELSE e.stock[r]
           back == {Recovered(r) : r \in found}
           ws == [w \in back \cup DOMAIN workspaces |->
                    IF w \in back THEN Workspace(Layout(w - MaxWorkspaces), w - MaxWorkspaces) ELSE workspaces[w]]
           kept == widgets \cup UNION {ToSet(Layout(r)) : r \in found}
           m == minted'.terminals
<1>0. Shape /\ InFlight /\ Numbered
  BY DEF WindowInv
<1>1. /\ Polls("inventory") /\ life' = life /\ UNCHANGED <<direct, runtimes, printed>>
      /\ connecting' \in BOOLEAN
  BY DEF InventoryLoaded, daemon, screen, dialog, Laid
<1>2. Tidy(e, Upto) /\ e.kind = "inventory"
  BY <1>1, ReadIsTidy
<1>3. Upto \in Nat /\ MaxTerminals \in Nat
  BY WindowBounds DEF Laid
<1>4. CASE connecting
  <2>1. UNCHANGED <<workspaces, index, widgets, shown, saved, minted>>
    BY <1>4 DEF InventoryLoaded, screen
  <2>2. minted'.terminals = Upto /\ Upto \in Upto..MaxTerminals
    BY <2>1, SameUpto
  <2>3. (\A v \in DOMAIN workspaces' : IsLaid(workspaces'[v], Upto)) /\ shown' \subseteq widgets'
    BY <2>1 DEF Laid
  <2>4. Shown(workspaces)' = Shown(workspaces)
    BY <2>1 DEF Shown
  <2> QED BY <1>1, <2>1, <2>2, <2>3, <2>4, ReadArranges
<1>5. CASE ~connecting
  <2>1. /\ minted.terminals + n <= MaxTerminals /\ minted' = [minted EXCEPT !.terminals = @ + n]
        /\ workspaces' = ws /\ widgets' = kept /\ shown' = shown \cap kept
        /\ index' = index \/ index' = Shown(ws)
        /\ saved' = saved \/ Save(ws, direct, hidden)
    BY <1>5 DEF InventoryLoaded, Draw, DrawWithout
  <2>2. found \subseteq DOMAIN e.stock /\ found \subseteq Known /\ Known \subseteq Runtimes /\ IsFiniteSet(Known)
    <3>1. e \in Sent
      BY <1>0, <1>1, PollFacts
    <3>2. DOMAIN e.stock \subseteq Known
      BY <1>0, <3>1 DEF InFlight, IsEvent
    <3>3. IsFiniteSet(Known)
      BY <1>0, FS_Interval DEF Known, Shape
    <3> QED BY <1>0, <3>2, <3>3, KnownNumbers DEF Recoverable
  <2>3. IsFiniteSet(treeless) /\ n \in Nat
    <3>1. treeless \subseteq Known
      BY <2>2
    <3> HIDE DEF treeless
    <3> QED BY <2>2, <3>1, FS_Subset, FS_CardinalityType
  <2>4. m = Upto + n /\ m \in Nat /\ Upto <= m /\ m \in Upto..MaxTerminals
    <3>1. DOMAIN minted = {"workspaces", "runtimes", "terminals"}
      BY <1>0 DEF Shape
    <3>2. m = minted.terminals + n
      BY <2>1, <3>1
    <3> HIDE DEF n, m
    <3> QED BY <1>3, <2>1, <2>3, <3>2 DEF Upto
  <2>5. ASSUME NEW r \in treeless PROVE Leaf(r) \in 1..m /\ Leaf(r) > Upto
    <3> DEFINE upto == {q \in treeless : q <= r}
    <3>1. r \in Nat
      BY <2>2, Numbers
    <3>2. r \in upto /\ upto \subseteq treeless
      BY <3>1
    <3>3. Leaf(r) = Upto + Cardinality(upto)
      BY DEF Upto
    <3> HIDE DEF upto, treeless, m, Leaf
    <3>4. Cardinality(upto) \in Nat /\ Cardinality(upto) <= n /\ Cardinality(upto) # 0
      <4>1. IsFiniteSet(upto) /\ Cardinality(upto) <= n
        BY <2>3, <3>2, FS_Subset
      <4>2. Cardinality(upto) # 0
        BY <3>2, <4>1, FS_EmptySet
      <4> QED BY <4>1, <4>2, FS_CardinalityType
    <3> HIDE DEF n
    <3> QED BY <1>3, <2>3, <2>4, <3>3, <3>4
  <2>6. ASSUME NEW r \in found
        PROVE  /\ IsLayout(Layout(r), m) /\ Layout(r) # <<>>
               /\ \A t \in ToSet(Layout(r)) : t > Upto \/ Brings(e, t)
    <3>1. CASE r \in treeless
      <4> DEFINE t == Leaf(r)
      <4>1. Layout(r) = <<t>> /\ t \in 1..m /\ t > Upto
        BY <2>5, <3>1
      <4> HIDE DEF t, Layout
      <4> QED BY <4>1, SmallLayouts
    <3>2. CASE r \notin treeless
      <4>1. Layout(r) = e.stock[r] /\ e.stock[r] # <<>> /\ r \in DOMAIN e.stock
        BY <2>2, <3>2
      <4>2. IsLayout(e.stock[r], Upto)
        BY <1>2, <4>1 DEF Tidy
      <4> HIDE DEF Layout
      <4>3. IsLayout(Layout(r), m)
        BY <1>3, <2>4, <4>1, <4>2, LayoutsLast
      <4> QED BY <1>2, <4>1, <4>3 DEF Brings
    <3> QED BY <3>1, <3>2
  <2>7. \A r \in found : Recovered(r) \in back /\ Recovered(r) - MaxWorkspaces = r
    BY <2>2, Numbers
  <2>8. \A w \in back : \E r \in found : w = Recovered(r)
    OBVIOUS
  <2>9. /\ DOMAIN ws = back \cup DOMAIN workspaces
        /\ \A w \in DOMAIN workspaces \ back : ws[w] = workspaces[w]
    OBVIOUS
  <2>10. ASSUME NEW r \in found
         PROVE  ws[Recovered(r)].layout = Layout(r) /\ IsLaid(ws[Recovered(r)], m)
    <3> DEFINE w == Recovered(r)
    <3>1. w \in back /\ w - MaxWorkspaces = r
      BY <2>7
    <3>2. ws[w] = Workspace(Layout(w - MaxWorkspaces), w - MaxWorkspaces)
      BY <3>1
    <3>3. IsLayout(Layout(r), m) /\ Layout(r) # <<>>
      BY <2>6
    <3> HIDE DEF ws, w, Layout, m
    <3>4. ws[w].layout = Layout(r) /\ ws[w].zoom = 0 /\ ws[w].status = "waiting"
      BY <3>1, <3>2 DEF Workspace, None
    <3>5. 0 \in 0..m /\ "waiting" \in Statuses
      BY <2>4 DEF Statuses
    <3> QED BY <3>3, <3>4, <3>5 DEF IsLaid, w
  <2> HIDE DEF ws, Layout, n, m, found, back, e
  <2>11. \A w \in DOMAIN ws : IsLaid(ws[w], m)
    <3> SUFFICES ASSUME NEW w \in DOMAIN ws PROVE IsLaid(ws[w], m)
      OBVIOUS
    <3>1. CASE w \in back
      BY <2>8, <2>10, <3>1
    <3>2. CASE w \notin back
      <4>1. ws[w] = workspaces[w] /\ IsLaid(workspaces[w], Upto)
        BY <2>9, <3>2 DEF Laid
      <4> QED BY <1>3, <2>4, <4>1, LayoutsLast
    <3> QED BY <3>1, <3>2
  <2>12. ASSUME NEW t \in Shown(ws) PROVE t \in Shown(workspaces) \/ t > Upto \/ Brings(e, t)
    <3>1. PICK w \in DOMAIN ws : t \in ToSet(ws[w].layout)
      BY <2>12, ShownMeans
    <3>2. CASE w \in back
      BY <2>6, <2>8, <2>10, <3>1, <3>2
    <3>3. CASE w \notin back
      BY <2>9, <3>1, <3>3, ShownMeans
    <3> QED BY <3>2, <3>3
  <2>13. kept \subseteq widgets \cup Shown(ws)
    <3> SUFFICES ASSUME NEW r \in found, NEW t \in ToSet(Layout(r)) PROVE t \in Shown(ws)
      OBVIOUS
    <3>1. Recovered(r) \in DOMAIN ws /\ t \in ToSet(ws[Recovered(r)].layout)
      BY <2>7, <2>9, <2>10
    <3> QED BY <3>1, ShownMeans
  <2> HIDE DEF kept, hidden
  <2>14. \/ saved' = saved
         \/ /\ \A w \in DOMAIN saved'.workspaces : IsLaid(saved'.workspaces[w], m)
            /\ saved'.direct \in BOOLEAN
    BY <2>1, <2>4, <2>11, SaveLays DEF Laid
  <2>15. Shown(workspaces)' = Shown(ws)
    BY <2>1 DEF Shown
  <2>16. \A w \in DOMAIN workspaces' : IsLaid(workspaces'[w], m)
    BY <2>1, <2>11
  <2>17. /\ index' \cup widgets' \subseteq index \cup widgets \cup 1..Upto \cup Shown(workspaces)'
         /\ shown' \subseteq widgets'
    BY <2>1, <2>13, <2>15
  <2>18. \A t \in Shown(workspaces)' : t \in Shown(workspaces) \/ t > Upto \/ Brings(Polling, t)
    BY <2>12, <2>15 DEF e
  <2> QED BY <1>1, <2>4, <2>14, <2>16, <2>17, <2>18, ReadArranges DEF m
<1> QED BY <1>4, <1>5

\* Every step of the poller.
LEMMA ReconcilesAreLaid ==
  ASSUME WindowInv, Laid, Reconciles
  PROVE  Laid'
BY WorkspaceOpenedIsLaid, PaneCreatedIsLaid, PaneClosedIsLaid, StatusOrDeltaIsLaid, InventoryLoadedIsLaid
   DEF Reconciles

\* What is read asks at most to open what is recovered.
LEMMA ReconcilesWorkOff ==
  ASSUME WindowInv, Retired, Reconciles
  PROVE  Retired'
<1>0. Shape /\ InFlight /\ Actors
  BY DEF WindowInv, Shape
<1>1. CASE actors' = actors
  BY <1>1 DEF Retired
<1>2. CASE InventoryLoaded
  <2> DEFINE e == Polling
             hidden == dismissed \cap DOMAIN e.stock
             found == Recoverable(workspaces, e.stock, hidden)
             back == {Recovered(r) : r \in found}
  <2>1. actors' = actors \/ \E ws : Send(Opens(ws, back))
    BY <1>2 DEF InventoryLoaded
  <2>2. e \in Sent
    BY <1>0, <1>2, PollFacts DEF InventoryLoaded
  <2>3. found \subseteq Known
    BY <1>0, <2>2 DEF InFlight, IsEvent, Recoverable
  <2>4. back \in SUBSET (Issued \cup {None})
    BY <2>3 DEF Issued
  <2> HIDE DEF back
  <2>5. ASSUME NEW ws, Send(Opens(ws, back)) PROVE Retired'
    BY <1>0, <2>4, <2>5, OpensIsSeq, SendWorksOff
  <2> QED BY <1>1, <2>1, <2>5
<1>3. ~InventoryLoaded => actors' = actors
  BY DEF Reconciles, WorkspaceOpened, PaneCreated, PaneClosed, StatusChanged, OutputDelta
<1> QED BY <1>1, <1>2, <1>3

-----------------------------------------------------------------------------
(* The connections the daemon has attached.                                 *)

\* An actor that has no reconnect before it is attached to every runtime it tracks a workspace in, but for
\* the ones the daemon detached it from or refused it (daemon_bridge.rs:1149, 1417; server.rs:1281).
Linked(i) == actors[i].link \in {"none", "up"} =>
  \A w \in DOMAIN actors[i].tracked :
    actors[i].tracked[w] \in DOMAIN runtimes => <<i, actors[i].tracked[w]>> \in attached \cup severed
Wired ==
  /\ unheard \subseteq printed
  /\ attached \cup severed \subseteq (DOMAIN actors) \X Known
  /\ \A i \in DOMAIN actors : Linked(i)

\* A step of one actor, with what becomes of its own connection.
LEMMA OneIsWired ==
  ASSUME Actors, InFlight, Wired, NEW i \in DOMAIN actors, NEW a, actors' = [actors EXCEPT ![i] = a],
         unheard' \subseteq printed', Known \subseteq Known', DOMAIN runtimes' \cap Known \subseteq DOMAIN runtimes,
         attached' \cup severed' \subseteq (attached \cup severed) \cup ({i} \X Known'),
         \A j \in DOMAIN actors : \A r \in DOMAIN runtimes' :
           j # i /\ <<j, r>> \in attached \cup severed => <<j, r>> \in attached' \cup severed',
         a.link \in {"none", "up"} =>
           \A w \in DOMAIN a.tracked :
             a.tracked[w] \in DOMAIN runtimes' => <<i, a.tracked[w]>> \in attached' \cup severed'
  PROVE  Wired'
<1>1. DOMAIN actors' = DOMAIN actors /\ \A n \in DOMAIN actors' : actors'[n] = IF n = i THEN a ELSE actors[n]
  OBVIOUS
<1>2. attached' \cup severed' \subseteq (DOMAIN actors') \X Known'
  BY <1>1 DEF Wired
<1>3. ASSUME NEW j \in DOMAIN actors', actors'[j].link \in {"none", "up"}, NEW w \in DOMAIN actors'[j].tracked,
             actors'[j].tracked[w] \in DOMAIN runtimes'
      PROVE  <<j, actors'[j].tracked[w]>> \in attached' \cup severed'
  <2>1. CASE j = i
    BY <1>1, <1>3, <2>1
  <2>2. CASE j # i
    <3>1. j \in DOMAIN actors /\ actors'[j] = actors[j]
      BY <1>1, <2>2
    <3>2. actors[j].tracked[w] \in Known
      BY <1>3, <3>1 DEF InFlight
    <3>3. <<j, actors[j].tracked[w]>> \in attached \cup severed
      BY <1>3, <3>1, <3>2 DEF Wired, Linked
    <3> QED BY <1>3, <2>2, <3>1, <3>3
  <2> QED BY <2>1, <2>2
<1> QED BY <1>2, <1>3 DEF Wired, Linked

\* A step that leaves the connections as they are.
LEMMA SameIsWired ==
  ASSUME Actors, InFlight, Wired, NEW i \in DOMAIN actors, NEW a, actors' = [actors EXCEPT ![i] = a],
         unheard' \subseteq printed', Known \subseteq Known', DOMAIN runtimes' \cap Known \subseteq DOMAIN runtimes,
         UNCHANGED <<attached, severed>>,
         a.link \in {"none", "up"} => actors[i].link \in {"none", "up"},
         \A w \in DOMAIN a.tracked : w \in DOMAIN actors[i].tracked /\ a.tracked[w] = actors[i].tracked[w]
  PROVE  Wired'
<1>1. ASSUME a.link \in {"none", "up"}, NEW w \in DOMAIN a.tracked, a.tracked[w] \in DOMAIN runtimes'
      PROVE  <<i, a.tracked[w]>> \in attached' \cup severed'
  <2>1. w \in DOMAIN actors[i].tracked /\ a.tracked[w] = actors[i].tracked[w] /\ actors[i].tracked[w] \in Known
    BY DEF InFlight
  <2> QED BY <1>1, <2>1 DEF Wired, Linked
<1> QED BY <1>1, OneIsWired

\* A step that is none of the actors.
LEMMA NoneIsWired ==
  ASSUME Actors, InFlight, Wired, actors' = actors, unheard' \subseteq printed', Known \subseteq Known',
         DOMAIN runtimes' \cap Known \subseteq DOMAIN runtimes, UNCHANGED <<attached, severed>>
  PROVE  Wired'
<1>1. ASSUME NEW i \in DOMAIN actors, NEW w \in DOMAIN actors[i].tracked PROVE actors[i].tracked[w] \in Known
  BY DEF InFlight
<1>2. \A i \in DOMAIN actors : Linked(i)'
  BY <1>1 DEF Wired, Linked
<1> QED BY <1>2 DEF Wired

\* The actor in use gets commands, or is replaced.
LEMMA SendIsWired ==
  ASSUME Actors, InFlight, Wired, NEW commands, Send(commands), UNCHANGED daemon, Known \subseteq Known'
  PROVE  Wired'
<1> DEFINE i == Len(actors)
           a == [actors[i] EXCEPT !.queue = @ \o commands]
<1>1. i \in DOMAIN actors /\ IsActor(actors[i])
  BY SeqFacts DEF Actors
<1>2. a.link = actors[i].link /\ a.tracked = actors[i].tracked /\ actors' = [actors EXCEPT ![i] = a]
  BY <1>1 DEF IsActor, Send
<1>3. UNCHANGED <<runtimes, printed, attached, severed, unheard>> /\ unheard' \subseteq printed'
  BY DEF daemon, hearing, Wired
<1> HIDE DEF a, i
<1> QED BY <1>1, <1>2, <1>3, SameIsWired

LEMMA RetryEndpointIsWired ==
  ASSUME Shape, InFlight, Wired, NEW w, RetryEndpoint(w)
  PROVE  Wired'
<1> DEFINE k == Len(actors)
           c == Command("shutdown", None, None, None, None)
           old == [actors EXCEPT ![k].queue = Append(@, c)]
           new == [Fresh EXCEPT !.queue = Opens(workspaces, Reconnected(workspaces, w))]
<1>1. actors' = Append(old, new) /\ UNCHANGED <<daemon, minted>>
  BY DEF RetryEndpoint
<1>2. k \in DOMAIN actors /\ DOMAIN actors = 1..k /\ k \in Nat /\ IsActor(actors[k])
  BY SeqFacts DEF Shape, Actors
<1>3. DOMAIN new.tracked = {}
  BY DEF Fresh
<1> HIDE DEF c, new
<1>4. /\ DOMAIN old = 1..k /\ old = [n \in 1..k |-> old[n]]
      /\ \A n \in 1..k : old[n].link = actors[n].link /\ old[n].tracked = actors[n].tracked
  BY <1>2 DEF IsActor
<1> HIDE DEF old
<1>5. IsSeq(old) /\ Len(old) = k
  BY <1>2, <1>4, ListIsSeq
<1>6. DOMAIN actors' = 1..(k + 1) /\ \A n \in 1..(k + 1) : actors'[n] = IF n = k + 1 THEN new ELSE old[n]
  <2>1. actors' = old \o <<new>> /\ IsSeq(<<new>>) /\ Len(<<new>>) = 1 /\ <<new>>[1] = new
    <3>1. IsSeq(<<new>>)
      BY ShortSeqs
    <3>2. Len(<<new>>) = 1 /\ <<new>>[1] = new
      OBVIOUS
    <3>3. old \in Seq(ToSet(old))
      BY <1>5 DEF IsSeq
    <3>4. Append(old, new) = old \o <<new>>
      BY <3>3, AppendIsConcat
    <3> QED BY <1>1, <3>1, <3>2, <3>4
  <2>2. /\ IsSeq(old \o <<new>>) /\ Len(old \o <<new>>) = k + 1
        /\ \A n \in 1..(k + 1) : (old \o <<new>>)[n] = IF n <= k THEN old[n] ELSE <<new>>[n - k]
    BY <1>5, <2>1, ConcatIsSeq
  <2>3. DOMAIN (old \o <<new>>) = 1..(k + 1)
    BY <1>2, <2>2, SeqFacts
  <2> QED BY <1>2, <2>1, <2>2, <2>3
<1>7. UNCHANGED <<runtimes, printed, attached, severed, unheard>> /\ Known' = Known
  BY <1>1 DEF daemon, hearing, Known
<1>8. DOMAIN actors \subseteq DOMAIN actors'
  BY <1>2, <1>6
<1>9. ASSUME NEW n \in DOMAIN actors', actors'[n].link \in {"none", "up"}, NEW v \in DOMAIN actors'[n].tracked,
             actors'[n].tracked[v] \in DOMAIN runtimes'
      PROVE  <<n, actors'[n].tracked[v]>> \in attached' \cup severed'
  <2>1. n \in 1..k
    BY <1>2, <1>3, <1>6, <1>9
  <2>n. n \in 1..(k + 1) /\ n # k + 1
    BY <1>2, <2>1
  <2>2. n \in DOMAIN actors /\ actors'[n].link = actors[n].link /\ actors'[n].tracked = actors[n].tracked
    <3>1. actors'[n] = old[n]
      BY <1>6, <2>n
    <3> QED BY <1>2, <1>4, <2>1, <3>1
  <2> QED BY <1>7, <1>9, <2>2 DEF Wired, Linked
<1> QED BY <1>7, <1>8, <1>9 DEF Wired, Linked

\* The user asks the actors, and not the daemon.
LEMMA UserActsKeepDaemon ==
  ASSUME UserActs
  PROVE  /\ UNCHANGED daemon
         /\ \/ actors' = actors \/ \E commands : Send(commands)
            \/ \E w \in DOMAIN workspaces : RetryEndpoint(w)
<1> DEFINE Goal == /\ UNCHANGED daemon
                   /\ \/ actors' = actors \/ \E commands : Send(commands)
                      \/ \E w \in DOMAIN workspaces : RetryEndpoint(w)
<1>1. ASSUME AddWorkspace \/ CloseAllSessions PROVE Goal
  BY <1>1 DEF AddWorkspace, CloseAllSessions, EndWorkspaces
<1>2. ASSUME CloseDirect \/ ConnectExisting \/ DismissDialog PROVE Goal
  BY <1>2 DEF CloseDirect, ConnectExisting, DismissDialog
<1>3. ASSUME NEW r \in offer, AttachToExistingRuntime(r) PROVE Goal
  BY <1>3 DEF AttachToExistingRuntime
<1>4. ASSUME NEW w \in DOMAIN workspaces, CloseSession(w) \/ DetachRuntime(w) PROVE Goal
  BY <1>4 DEF CloseSession, DetachRuntime, EndWorkspaces
<1>5. ASSUME NEW w \in DOMAIN workspaces, RetryWorkspace(w) \/ RetryEndpoint(w) PROVE Goal
  <2>1. RetryEndpoint(w) => UNCHANGED daemon
    BY DEF RetryEndpoint
  <2> QED BY <1>5, <2>1 DEF RetryWorkspace
<1>6. ASSUME NEW w \in DOMAIN workspaces, NEW t, SplitTerminal(w, t) PROVE Goal
  BY <1>6 DEF SplitTerminal
<1>7. ASSUME NEW w \in DOMAIN workspaces, NEW t, ClosePaneOf(w, t) PROVE Goal
  BY <1>7 DEF ClosePaneOf
<1>8. ASSUME NEW w \in DOMAIN workspaces, NEW t, TogglePaneZoom(w, t) PROVE Goal
  BY <1>8 DEF TogglePaneZoom
<1> QED BY <1>1, <1>2, <1>3, <1>4, <1>5, <1>6, <1>7, <1>8 DEF UserActs

\* The user and the poller do not touch the connections.
LEMMA ClientIsWired ==
  ASSUME WindowInv, Wired, UserActs \/ Reconciles \/ AutoSave \/ Quit \/ Start
  PROVE  Wired'
<1>0. Shape /\ Actors /\ InFlight
  BY DEF WindowInv, Shape
<1>1. Known \subseteq Known'
  <2>1. minted.runtimes \in Nat
    BY <1>0 DEF Shape
  <2>2. CASE UserActs \/ AutoSave \/ Quit
    BY <2>2, UserActsAreOrders DEF Orders, Known
  <2>3. CASE Reconciles
    BY <1>0, <2>3, ReconcilesReads, ReadsNumbers
  <2>4. CASE Start
    BY <2>4 DEF Start, Known
  <2> QED BY <2>2, <2>3, <2>4
<1>2. UNCHANGED daemon
  <2>1. UserActs => UNCHANGED daemon
    BY UserActsKeepDaemon
  <2>2. Reconciles => UNCHANGED daemon
    BY DEF Reconciles, WorkspaceOpened, PaneCreated, PaneClosed, StatusChanged, InventoryLoaded, OutputDelta
  <2> QED BY <2>1, <2>2 DEF AutoSave, Quit, Start
<1>3. ASSUME actors' = actors PROVE Wired'
  <2>1. UNCHANGED <<runtimes, printed, attached, severed, unheard>> /\ unheard' \subseteq printed'
    BY <1>2 DEF daemon, hearing, Wired
  <2> QED BY <1>0, <1>1, <1>3, <2>1, NoneIsWired
<1>4. ASSUME NEW commands, Send(commands) PROVE Wired'
  BY <1>0, <1>1, <1>2, <1>4, SendIsWired
<1>5. CASE UserActs
  <2>1. \/ actors' = actors \/ \E commands : Send(commands)
        \/ \E w \in DOMAIN workspaces : RetryEndpoint(w)
    BY <1>5, UserActsKeepDaemon
  <2> QED BY <1>0, <1>3, <1>4, <2>1, RetryEndpointIsWired
<1>6. CASE Reconciles
  <2>1. actors' = actors \/ \E commands : Send(commands)
    BY <1>6 DEF Reconciles, WorkspaceOpened, PaneCreated, PaneClosed, StatusChanged, InventoryLoaded, OutputDelta
  <2> QED BY <1>3, <1>4, <2>1
<1>7. CASE AutoSave \/ Quit
  BY <1>3, <1>7 DEF AutoSave, Quit
<1>8. CASE Start
  BY <1>4, <1>8 DEF Start
<1> QED BY <1>5, <1>6, <1>7, <1>8

\* An actor that opens a workspace is attached to its runtime (workspace.rs:392).
LEMMA OpenRuntimeIsWired ==
  ASSUME WindowInv, Wired, Known \subseteq Known', DOMAIN runtimes' \cap Known \subseteq DOMAIN runtimes,
         NEW i \in DOMAIN actors, OpenRuntime(i)
  PROVE  Wired'
<1> DEFINE c == Head(actors[i].queue)
           r == IF c.runtime = None THEN Newest("runtimes") ELSE c.runtime
           leaves == IF c.runtime = None THEN <<>> ELSE runtimes[r]
           first == IF leaves = <<>> THEN <<Command("create", c.ws, r, None, c.at)>> ELSE <<>>
           tracked == With(actors[i].tracked, c.ws, r)
           a == [queue |-> Tail(actors[i].queue) \o first, tracked |-> tracked, link |-> "up"]
<1>0. Shape /\ Actors /\ InFlight /\ Numbered
  BY DEF WindowInv, Shape
<1>1. /\ Connects(i) /\ Done(i, "up", tracked, first)
      /\ IF c.runtime = None THEN Mint("runtimes") ELSE c.runtime \in DOMAIN runtimes
      /\ attached' = attached \cup ({i} \X {r}) /\ severed' = (severed \cup ({i} \X {})) \ ({i} \X {r})
      /\ unheard' = unheard \ PanesAt({r}) /\ printed' = printed
  BY DEF OpenRuntime, Attach
<1>2. actors' = [actors EXCEPT ![i] = a] /\ a.tracked = tracked
  BY <1>1 DEF Done
<1>3. r \in Known'
  <2>1. CASE c.runtime = None
    <3>1. minted' = [minted EXCEPT !["runtimes"] = @ + 1]
      BY <1>1, <2>1 DEF Mint
    <3>2. minted.runtimes \in Nat /\ DOMAIN minted = {"workspaces", "runtimes", "terminals"}
      BY <1>0 DEF Shape
    <3>3. minted'.runtimes = minted.runtimes + 1
      BY <3>1, <3>2
    <3>4. r = minted.runtimes + 1
      BY <2>1 DEF Newest
    <3> QED BY <3>2, <3>3, <3>4 DEF Known
  <2>2. CASE c.runtime # None
    BY <1>0, <1>1, <2>2 DEF Numbered
  <2> QED BY <2>1, <2>2
<1> HIDE DEF r, c, first, leaves
<1>4. \A w \in DOMAIN tracked : tracked[w] = r \/ (w \in DOMAIN actors[i].tracked /\ tracked[w] = actors[i].tracked[w])
  BY DEF With
<1> HIDE DEF tracked, a
<1>5. actors[i].link \in {"none", "up"}
  BY <1>1 DEF Connects
<1>6. ASSUME NEW w \in DOMAIN a.tracked, a.tracked[w] \in DOMAIN runtimes'
      PROVE  <<i, a.tracked[w]>> \in attached' \cup severed'
  <2>1. CASE a.tracked[w] = r
    BY <1>1, <2>1
  <2>2. CASE a.tracked[w] # r
    <3>1. w \in DOMAIN actors[i].tracked /\ a.tracked[w] = actors[i].tracked[w]
      BY <1>2, <1>4, <2>2
    <3>2. actors[i].tracked[w] \in Known
      BY <1>0, <3>1 DEF InFlight
    <3>3. <<i, a.tracked[w]>> \in attached \cup severed
      BY <1>5, <1>6, <3>1, <3>2 DEF Wired, Linked
    <3> QED BY <1>1, <2>2, <3>3
  <2> QED BY <2>1, <2>2
<1>7. /\ unheard' \subseteq printed'
      /\ attached' \cup severed' \subseteq (attached \cup severed) \cup ({i} \X Known')
      /\ \A j \in DOMAIN actors : \A q \in DOMAIN runtimes' :
           j # i /\ <<j, q>> \in attached \cup severed => <<j, q>> \in attached' \cup severed'
  BY <1>1, <1>3 DEF Wired
<1> QED BY <1>0, <1>2, <1>6, <1>7, OneIsWired

\* A detach takes the connection off the runtime for good, and its workspace from what is tracked
\* (server.rs:1281); a runtime that is terminated has no connections.
LEMMA LeaveRuntimeIsWired ==
  ASSUME WindowInv, Wired, Known \subseteq Known', DOMAIN runtimes' \cap Known \subseteq DOMAIN runtimes,
         NEW i \in DOMAIN actors, LeaveRuntime(i)
  PROVE  Wired'
<1> DEFINE c == Head(actors[i].queue)
           r == c.runtime
           tracked == Without(actors[i].tracked, {c.ws})
           a == [queue |-> Tail(actors[i].queue) \o <<>>, tracked |-> tracked, link |-> "up"]
<1>0. Shape /\ Actors /\ InFlight /\ Numbered
  BY DEF WindowInv, Shape
<1>1. PICK kind \in {"detach", "terminate"} :
        /\ Connects(i) /\ Done(i, "up", tracked, <<>>) /\ r \in DOMAIN runtimes
        /\ kind = "terminate" => DOMAIN runtimes' = DOMAIN runtimes \ {r}
        /\ attached' = IF kind = "detach" THEN attached \ {<<i, r>>} ELSE {x \in attached : x[2] # r}
        /\ severed' = severed \cup (IF kind = "detach" THEN {<<i, r>>} ELSE {})
        /\ UNCHANGED <<unheard, printed>>
  BY DEF LeaveRuntime, Deaf, Restrict
<1>2. actors' = [actors EXCEPT ![i] = a] /\ a.tracked = tracked /\ actors[i].link \in {"none", "up"}
  BY <1>1 DEF Done, Connects
<1>3. r \in Known
  BY <1>0, <1>1 DEF Numbered
<1> HIDE DEF r, a
<1>4. \A w \in DOMAIN tracked : w \in DOMAIN actors[i].tracked /\ tracked[w] = actors[i].tracked[w]
  BY DEF Without, Restrict
<1> HIDE DEF tracked, c
<1>5. ASSUME NEW j \in DOMAIN actors, NEW q \in DOMAIN runtimes', <<j, q>> \in attached \cup severed
      PROVE  <<j, q>> \in attached' \cup severed'
  <2>1. kind = "terminate" => q # r
    BY <1>1
  <2> QED BY <1>1, <1>5, <2>1
<1>6. ASSUME NEW w \in DOMAIN a.tracked, a.tracked[w] \in DOMAIN runtimes'
      PROVE  <<i, a.tracked[w]>> \in attached' \cup severed'
  <2>1. w \in DOMAIN actors[i].tracked /\ a.tracked[w] = actors[i].tracked[w] /\ actors[i].tracked[w] \in Known
    BY <1>0, <1>2, <1>4 DEF InFlight
  <2>2. <<i, a.tracked[w]>> \in attached \cup severed
    BY <1>2, <1>6, <2>1 DEF Wired, Linked
  <2> QED BY <1>5, <1>6, <2>2
<1>7. /\ unheard' \subseteq printed'
      /\ attached' \cup severed' \subseteq (attached \cup severed) \cup ({i} \X Known')
  BY <1>1, <1>3 DEF Wired
<1> QED BY <1>0, <1>2, <1>5, <1>6, <1>7, OneIsWired

\* A connection that ends is detached from every runtime; the actor has no reconnect before it only if it
\* tracks nothing.
LEMMA DisconnectIsWired ==
  ASSUME WindowInv, Wired, Known \subseteq Known', DOMAIN runtimes' \cap Known \subseteq DOMAIN runtimes,
         NEW i \in DOMAIN actors, NEW a, actors' = [actors EXCEPT ![i] = a], Disconnect(i),
         UNCHANGED <<printed, unheard>>, a.link \in {"none", "up"} => DOMAIN a.tracked = {}
  PROVE  Wired'
<1>0. Shape /\ Actors /\ InFlight
  BY DEF WindowInv, Shape
<1>1. attached' = {x \in attached : x[1] # i} /\ severed' = {x \in severed : x[1] # i}
  BY DEF Disconnect
<1>2. /\ unheard' \subseteq printed'
      /\ attached' \cup severed' \subseteq (attached \cup severed) \cup ({i} \X Known')
      /\ \A j \in DOMAIN actors : \A q \in DOMAIN runtimes' :
           j # i /\ <<j, q>> \in attached \cup severed => <<j, q>> \in attached' \cup severed'
  BY <1>1 DEF Wired
<1> QED BY <1>0, <1>2, OneIsWired

\* A reattach attaches what is tracked and there, or is refused (daemon_bridge.rs:1345).
LEMMA ReattachIsWired ==
  ASSUME WindowInv, Wired, Known \subseteq Known', DOMAIN runtimes' \cap Known \subseteq DOMAIN runtimes,
         NEW i \in DOMAIN actors, Reattach(i)
  PROVE  Wired'
<1> DEFINE tracked == DOMAIN actors[i].tracked
           a == [actors[i] EXCEPT !.link = "up"]
<1>0. Shape /\ Actors /\ InFlight /\ IsActor(actors[i])
  BY DEF WindowInv, Shape, Actors
<1>1. PICK refused \in SUBSET There(i) :
        /\ actors' = [actors EXCEPT ![i].link = "up"]
        /\ Attach(i, Reached(i, tracked \ refused), Reached(i, refused))
        /\ UNCHANGED <<runtimes, printed>>
  BY DEF Reattach
<1> DEFINE on == Reached(i, tracked \ refused)
           off == Reached(i, refused)
<1>2. /\ attached' = attached \cup ({i} \X on) /\ severed' = (severed \cup ({i} \X off)) \ ({i} \X on)
      /\ unheard' \subseteq unheard
  BY <1>1 DEF Attach
<1>3. actors' = [actors EXCEPT ![i] = a] /\ a.tracked = actors[i].tracked
  BY <1>0, <1>1 DEF IsActor
<1>4. on \cup off \subseteq Known
  BY <1>0 DEF Reached, There, InFlight
<1>5. ASSUME NEW w \in DOMAIN a.tracked, a.tracked[w] \in DOMAIN runtimes' PROVE a.tracked[w] \in on \cup off
  BY <1>1, <1>3, <1>5 DEF Reached, There
<1> HIDE DEF on, off, a
<1>6. \A w \in DOMAIN a.tracked : a.tracked[w] \in DOMAIN runtimes' => <<i, a.tracked[w]>> \in attached' \cup severed'
  BY <1>2, <1>5
<1>7. /\ unheard' \subseteq printed'
      /\ attached' \cup severed' \subseteq (attached \cup severed) \cup ({i} \X Known')
      /\ \A j \in DOMAIN actors : \A q \in DOMAIN runtimes' :
           j # i /\ <<j, q>> \in attached \cup severed => <<j, q>> \in attached' \cup severed'
  BY <1>1, <1>2, <1>4 DEF Wired
<1> QED BY <1>0, <1>3, <1>6, <1>7, OneIsWired

\* Every step of the actors and of the daemon.
LEMMA EndpointActsAreWired ==
  ASSUME WindowInv, Wired, EndpointActs
  PROVE  Wired'
<1>0. Shape /\ Actors /\ InFlight /\ Spreads
  BY EndpointActsSpread DEF WindowInv, Shape
<1>1. Known \subseteq Known' /\ DOMAIN runtimes' \cap Known \subseteq DOMAIN runtimes
  <2>1. minted.runtimes \in Nat /\ minted'.runtimes \in Nat /\ minted'.runtimes >= minted.runtimes
    BY <1>0, WindowBounds DEF Shape, Spreads
  <2>2. minted'.workspaces = minted.workspaces /\ minted.workspaces \in Nat
    BY <1>0 DEF Shape, Spreads
  <2> QED BY <1>0, <2>1, <2>2, NumbersGrow DEF Spreads
<1>2. ASSUME NEW i \in DOMAIN actors, NEW link, NEW tracked, NEW more, Done(i, link, tracked, more),
             link \in {"none", "up"} => actors[i].link \in {"none", "up"},
             \A w \in DOMAIN tracked : w \in DOMAIN actors[i].tracked /\ tracked[w] = actors[i].tracked[w],
             UNCHANGED <<attached, severed>>, unheard' \subseteq printed'
      PROVE  Wired'
  <2> DEFINE a == [queue |-> Tail(actors[i].queue) \o more, tracked |-> tracked, link |-> link]
  <2>1. actors' = [actors EXCEPT ![i] = a] /\ a.link = link /\ a.tracked = tracked
    BY <1>2 DEF Done
  <2> HIDE DEF a
  <2> QED BY <1>0, <1>1, <1>2, <2>1, SameIsWired
<1>3. ASSUME NEW i \in DOMAIN actors, RemovePane(i) \/ CommandRefused(i) \/ RefreshInventory(i) \/ NoDaemon(i)
      PROVE  Wired'
  <2>1. /\ \E link \in {"up", "lost"} : /\ Done(i, link, actors[i].tracked, <<>>)
                                        /\ link = "up" => actors[i].link \in {"none", "up"}
        /\ UNCHANGED <<attached, severed, unheard, printed>>
    BY <1>3 DEF RemovePane, CommandRefused, RefreshInventory, NoDaemon, Connects, daemon, hearing
  <2>2. unheard' \subseteq printed'
    BY <2>1 DEF Wired
  <2> QED BY <1>2, <2>1, <2>2
<1>4. ASSUME NEW i \in DOMAIN actors, AddPane(i) PROVE Wired'
  <2>1. PICK early \in BOOLEAN :
          /\ Done(i, "up", actors[i].tracked, <<>>) /\ actors[i].link \in {"none", "up"}
          /\ UNCHANGED <<attached, severed>>
          /\ printed' = printed \cup (IF early THEN {Newest("terminals")} ELSE {})
          /\ Unheard(Head(actors[i].queue).runtime, IF early THEN {Newest("terminals")} ELSE {})
    BY <1>4 DEF AddPane, Connects
  <2>2. unheard' \subseteq printed'
    BY <2>1 DEF Wired, Unheard
  <2> QED BY <1>2, <2>1, <2>2
<1>5. ASSUME NEW i \in DOMAIN actors, ForgetOrShutdown(i) PROVE Wired'
  <2>1. UNCHANGED <<printed, unheard>>
    BY <1>5 DEF ForgetOrShutdown
  <2>2. CASE Head(actors[i].queue).kind = "shutdown"
    <3>1. actors' = [actors EXCEPT ![i] = Ended] /\ Disconnect(i)
      BY <1>5, <2>2 DEF ForgetOrShutdown
    <3>2. Ended.link = "ended"
      BY DEF Ended
    <3> QED BY <1>1, <2>1, <3>1, <3>2, DisconnectIsWired
  <2>3. CASE Head(actors[i].queue).kind # "shutdown"
    <3> DEFINE tracked == Without(actors[i].tracked, {Head(actors[i].queue).ws})
    <3>1. Done(i, actors[i].link, tracked, <<>>) /\ UNCHANGED <<attached, severed>>
      BY <1>5, <2>3 DEF ForgetOrShutdown
    <3>2. \A w \in DOMAIN tracked : w \in DOMAIN actors[i].tracked /\ tracked[w] = actors[i].tracked[w]
      BY DEF Without, Restrict
    <3>3. unheard' \subseteq printed'
      BY <2>1 DEF Wired
    <3> HIDE DEF tracked
    <3> QED BY <1>2, <3>1, <3>2, <3>3
  <2> QED BY <2>2, <2>3
<1>6. ASSUME NEW i \in DOMAIN actors, LinkLost(i) PROVE Wired'
  <2> DEFINE a == [actors[i] EXCEPT !.link = IF actors[i].tracked = <<>> THEN "none" ELSE "lost"]
  <2>1. IsActor(actors[i]) /\ DOMAIN <<>> = {}
    BY <1>0 DEF Actors
  <2>2. a.tracked = actors[i].tracked /\ a.link = IF actors[i].tracked = <<>> THEN "none" ELSE "lost"
    BY <2>1 DEF IsActor
  <2>3. actors' = [actors EXCEPT ![i] = a] /\ Disconnect(i) /\ UNCHANGED <<printed, unheard>>
    BY <1>6 DEF LinkLost
  <2> HIDE DEF a
  <2> QED BY <1>1, <2>1, <2>2, <2>3, DisconnectIsWired
<1>7. ASSUME NEW i \in DOMAIN actors, ReattachFails(i) PROVE Wired'
  <2>1. UNCHANGED <<actors, printed, attached, severed>> /\ unheard' \subseteq unheard
    BY <1>7 DEF ReattachFails
  <2>2. unheard' \subseteq printed'
    BY <2>1 DEF Wired
  <2> QED BY <1>0, <1>1, <2>1, <2>2, NoneIsWired
<1>8. ASSUME NEW r, NEW p, DaemonPrints(r, p) PROVE Wired'
  <2>1. UNCHANGED <<actors, attached, severed>> /\ printed' = printed \cup {p} /\ unheard' \subseteq unheard \cup {p}
    BY <1>8 DEF DaemonPrints, Unheard
  <2>2. unheard' \subseteq printed'
    BY <2>1 DEF Wired
  <2> QED BY <1>0, <1>1, <2>1, <2>2, NoneIsWired
<1>9. ASSUME NEW i \in DOMAIN actors, OpenRuntime(i) \/ LeaveRuntime(i) \/ Reattach(i) PROVE Wired'
  BY <1>0, <1>1, <1>9, OpenRuntimeIsWired, LeaveRuntimeIsWired, ReattachIsWired
<1> QED BY <1>3, <1>4, <1>5, <1>6, <1>7, <1>8, <1>9 DEF EndpointActs

-----------------------------------------------------------------------------
(* The client ends and starts.                                              *)

\* The process ends: what is left is on disk, and at the daemon.
LEMMA ExitIsLaid ==
  ASSUME WindowInv, Laid, Wired, Exit
  PROVE  Laid' /\ Retired' /\ Wired'
<1>1. /\ life' = "off" /\ workspaces' = <<>> /\ index' = {} /\ widgets' = {} /\ shown' = {} /\ connecting' = FALSE
      /\ actors' = <<Fresh>> /\ events' = <<>>
      /\ attached' = {} /\ severed' = {}
      /\ UNCHANGED <<direct, saved, runtimes, printed, unheard, minted>>
  BY DEF Exit
<1>2. DOMAIN workspaces' = {} /\ DOMAIN events' = {} /\ Sent' = {}
  BY <1>1, ShortSeqs DEF Sent
<1>3. Unseen'
  BY <1>2 DEF Unseen
<1>4. Upto' = Upto
  BY <1>1 DEF Upto
<1>5. Laid'
  BY <1>1, <1>2, <1>3, <1>4 DEF Laid
<1>6. Retired'
  <2>1. Len(<<Fresh>>) = 1 /\ DOMAIN <<Fresh>> = {1} /\ <<Fresh>>[1] = Fresh /\ Fresh.link = "none"
    BY DEF Fresh
  <2>2. MaxActors \in Nat /\ 1 <= MaxActors
    BY WindowBounds
  <2> QED BY <1>1, <2>1, <2>2 DEF Retired
<1>7. Wired'
  <2>1. DOMAIN <<Fresh>> = {1} /\ <<Fresh>>[1] = Fresh /\ DOMAIN Fresh.tracked = {}
    BY DEF Fresh
  <2>2. \A i \in DOMAIN actors' : DOMAIN actors'[i].tracked = {}
    BY <1>1, <2>1
  <2>3. unheard' \subseteq printed'
    BY <1>1 DEF Wired
  <2> QED BY <1>1, <2>2, <2>3 DEF Wired, Linked
<1> QED BY <1>5, <1>6, <1>7

\* What was saved is shown again (load_state).
LEMMA StartIsLaid ==
  ASSUME WindowInv, Laid, Start
  PROVE  Laid'
<1> DEFINE ws == Loaded.workspaces
<1>1. /\ life = "off" /\ life' = "up" /\ workspaces' = ws /\ direct' = Loaded.direct
      /\ index' = Shown(ws) /\ widgets' = Shown(ws)
      /\ UNCHANGED <<shown, connecting, saved, events, runtimes, printed, minted>>
  BY DEF Start, aside, dialog, daemon
<1>2. /\ DOMAIN ws = DOMAIN saved.workspaces
      /\ \A w \in DOMAIN ws : ws[w] = saved.workspaces[w]
  BY LoadedFacts
<1>3. direct' \in BOOLEAN
  <2>1. CASE DOMAIN saved.workspaces = {} /\ ~saved.direct
    <3>1. Loaded.direct = TRUE
      BY <2>1 DEF Loaded, Record
    <3> QED BY <1>1, <3>1
  <2>2. CASE ~(DOMAIN saved.workspaces = {} /\ ~saved.direct)
    BY <1>1, <2>2 DEF Loaded, Laid
  <2> QED BY <2>1, <2>2
<1>4. events' = <<>> /\ shown' = {}
  BY <1>1 DEF WindowInv, Off, Laid
<1>5. DOMAIN events' = {} /\ Sent' = {}
  BY <1>4, ShortSeqs DEF Sent
<1>6. Unseen'
  BY <1>5 DEF Unseen
<1>7. Upto' = Upto
  BY <1>1 DEF Upto
<1> HIDE DEF ws
<1>8. \A w \in DOMAIN ws : IsLaid(ws[w], Upto)
  BY <1>2 DEF Laid
<1>9. Shown(ws) \subseteq 1..Upto
  BY <1>8, ShownIsUpto
<1> QED BY <1>1, <1>3, <1>4, <1>5, <1>6, <1>7, <1>8, <1>9 DEF Laid

\* And the new actor is asked to open it.
LEMMA StartWorksOff ==
  ASSUME WindowInv, Retired, Start
  PROVE  Retired'
<1> DEFINE ws == Loaded.workspaces
           ask == Command("inventory", None, None, None, None)
           commands == IF ws = <<>> THEN <<ask>> ELSE Opens(ws, DOMAIN ws)
<1>0. Shape /\ Actors
  BY DEF WindowInv, Shape
<1>1. Send(commands)
  BY DEF Start
<1>2. DOMAIN ws \in SUBSET (Issued \cup {None})
  BY LoadedFacts DEF WindowInv, Numbered
<1> HIDE DEF ws, ask
<1>3. IsSeq(commands)
  <2>1. IsSeq(Opens(ws, DOMAIN ws))
    BY <1>0, <1>2, OpensIsSeq
  <2>2. IsSeq(<<ask>>)
    BY ShortSeqs
  <2> QED BY <2>1, <2>2
<1> HIDE DEF commands
<1> QED BY <1>0, <1>1, <1>3, SendWorksOff

\* A runtime of two panes, open in one workspace, in two, or detached.
LEMMA InitIsLaid ==
  ASSUME Init
  PROVE  Laid /\ Retired /\ Wired
<1>1. PICK open \in {0, 1, 2} :
        LET ws == [w \in 1..open |-> [Workspace(<<1, 2>>, 1) EXCEPT !.status = "live"]]
            settled == open > 0
        IN /\ life = "up" /\ workspaces = ws /\ direct = ~settled
           /\ index = Shown(ws) /\ widgets = Shown(ws) /\ shown = {} /\ connecting = FALSE
           /\ saved = Record(ws, ~settled, {})
           /\ actors = <<IF settled THEN [queue |-> <<>>, tracked |-> [w \in 1..open |-> 1], link |-> "up"]
                         ELSE Fresh>>
           /\ events = <<>> /\ runtimes = Only(1, <<1, 2>>) /\ printed = {}
           /\ attached = (IF settled THEN {<<1, 1>>} ELSE {}) /\ severed = {} /\ unheard = {}
           /\ minted = [workspaces |-> IF settled THEN open ELSE 1, runtimes |-> 1, terminals |-> 2]
  BY DEF Init
<1> DEFINE settled == open > 0
           x == [Workspace(<<1, 2>>, 1) EXCEPT !.status = "live"]
           ws == [w \in 1..open |-> x]
           a == IF settled THEN [queue |-> <<>>, tracked |-> [w \in 1..open |-> 1], link |-> "up"] ELSE Fresh
           pair == <<1, 2>>
<1>2. /\ life = "up" /\ workspaces = ws /\ direct = ~settled
      /\ index = Shown(ws) /\ widgets = Shown(ws) /\ shown = {} /\ connecting = FALSE
      /\ saved = Record(ws, ~settled, {}) /\ actors = <<a>> /\ events = <<>>
      /\ runtimes = Only(1, pair) /\ printed = {} /\ Upto = 2 /\ Known = {1}
      /\ attached = (IF settled THEN {<<1, 1>>} ELSE {}) /\ severed = {} /\ unheard = {}
  BY <1>1 DEF Upto, Known
<1>3. IsLayout(pair, 2) /\ pair # <<>>
  <2>1. pair \in Seq(1..2) /\ DOMAIN pair = {1, 2} /\ pair[1] = 1 /\ pair[2] = 2 /\ pair # <<>>
    OBVIOUS
  <2> HIDE DEF pair
  <2> QED BY <2>1 DEF IsLayout, NoDuplicates
<1>4. x.layout = pair /\ x.zoom = 0 /\ x.status = "live"
  BY DEF Workspace, None
<1> HIDE DEF x, pair
<1>5. IsLaid(x, 2)
  BY <1>3, <1>4 DEF IsLaid, Statuses
<1>6. \A w \in DOMAIN ws : IsLaid(ws[w], 2)
  BY <1>5
<1>7. /\ a.link \in {"up", "none"}
      /\ \A w \in DOMAIN a.tracked : settled /\ a.tracked[w] = 1
  BY DEF Fresh
<1> HIDE DEF ws, a, settled
<1>8. Shown(ws) \subseteq 1..2
  BY <1>6, ShownIsUpto
<1>9. (\A w \in DOMAIN saved.workspaces : IsLaid(saved.workspaces[w], 2)) /\ saved.direct \in BOOLEAN
  <2>0. settled \in BOOLEAN
    BY DEF settled
  <2>1. saved.workspaces = [w \in DOMAIN ws |-> Workspace(ws[w].layout, ws[w].runtime)] /\ saved.direct = ~settled
    BY <1>2 DEF Record
  <2>2. ASSUME NEW w \in DOMAIN ws PROVE IsLaid(Workspace(ws[w].layout, ws[w].runtime), 2)
    <3> DEFINE y == Workspace(ws[w].layout, ws[w].runtime)
    <3>1. y.layout = ws[w].layout /\ y.zoom = 0 /\ y.status = "waiting"
      BY DEF Workspace, None
    <3> HIDE DEF y
    <3>2. IsLaid(y, 2)
      BY <1>6, <3>1 DEF IsLaid, Statuses
    <3> QED BY <3>2 DEF y
  <2> QED BY <2>0, <2>1, <2>2
<1>10. \A r \in DOMAIN runtimes : IsLayout(runtimes[r], 2)
  BY <1>2, <1>3 DEF Only
<1>11. DOMAIN events = {} /\ Sent = {}
  BY <1>2, ShortSeqs DEF Sent
<1>12. Upto \in 0..MaxTerminals
  BY <1>2, WindowBounds
<1>settled. settled \in BOOLEAN
  BY DEF settled
<1>13. Laid
  BY <1>2, <1>6, <1>8, <1>9, <1>10, <1>11, <1>12, <1>settled DEF Laid, Unseen
<1>14. Retired
  <2>1. Len(actors) = 1 /\ DOMAIN actors = {1} /\ actors[1] = a
    BY <1>2
  <2>2. MaxActors \in Nat /\ 1 <= MaxActors
    BY WindowBounds
  <2> QED BY <1>7, <2>1, <2>2 DEF Retired
<1>15. Wired
  <2>1. DOMAIN actors = {1} /\ actors[1] = a
    BY <1>2
  <2>2. attached \cup severed \subseteq (DOMAIN actors) \X Known
    BY <1>2, <2>1
  <2> QED BY <1>2, <1>7, <2>1, <2>2 DEF Wired, Linked
<1> QED BY <1>13, <1>14, <1>15

\* Every step.
LEMMA StepIsLaid ==
  ASSUME WindowInv, Laid, Retired, Wired, [Next]_vars
  PROVE  Laid' /\ Retired' /\ Wired'
<1>1. CASE UserActs
  BY <1>1, UserActsAreLaid, UserActsWorkOff, ClientIsWired
<1>2. CASE EndpointActs
  BY <1>2, EndpointActsAreLaid, EndpointActsWorkOff, EndpointActsAreWired
<1>3. CASE Reconciles
  BY <1>3, ReconcilesAreLaid, ReconcilesWorkOff, ClientIsWired
<1>4. CASE AutoSave \/ Quit
  <2>1. actors' = actors
    BY <1>4 DEF AutoSave, Quit
  <2> QED BY <1>4, <2>1, UndrawnIsLaid, ClientIsWired DEF Retired
<1>5. CASE Exit
  BY <1>5, ExitIsLaid
<1>6. CASE Start
  BY <1>6, StartIsLaid, StartWorksOff, ClientIsWired
<1>7. CASE UNCHANGED vars
  BY <1>7 DEF vars, screen, aside, dialog, daemon, hearing, Laid, Retired, Wired, Linked, Known, Unseen, Upto, Sent
<1> QED BY <1>1, <1>2, <1>3, <1>4, <1>5, <1>6, <1>7 DEF Next

\* Every layout, of a workspace, on disk, at the daemon or told of, is of terminals that have been minted, each
\* of them once (workspace_state.rs:121-165), an actor that was replaced ends (daemon_bridge.rs:298), and an actor
\* is attached to what it tracks unless it was detached or refused (server.rs:1281, daemon_bridge.rs:1417).
THEOREM LayingIsInductive == Spec => [](Laid /\ Retired /\ Wired)
<1>1. Init => Laid /\ Retired /\ Wired
  BY InitIsLaid
<1>2. WindowInv /\ Laid /\ Retired /\ Wired /\ [Next]_vars => (Laid /\ Retired /\ Wired)'
  BY StepIsLaid
<1> QED BY <1>1, <1>2, WindowIsInductive, PTL DEF Spec

\* A sequence without duplicates has as many elements as places.
LEMMA PlacesAndLeaves ==
  ASSUME NEW s, NEW n, IsLayout(s, n)
  PROVE  Cardinality(ToSet(s)) = Len(s)
<1>1. Len(s) \in Nat /\ DOMAIN s = 1..Len(s)
  BY LayoutIs
<1>2. s \in Bijection(1..Len(s), ToSet(s))
  <2>1. s \in [1..Len(s) -> ToSet(s)]
    <3>1. s = [k \in DOMAIN s |-> s[k]]
      BY LenProperties DEF IsLayout
    <3> QED BY <1>1, <3>1 DEF ToSet
  <2>2. \A i, j \in DOMAIN s : s[i] = s[j] => i = j
    BY DEF IsLayout, NoDuplicates
  <2>3. \A t \in ToSet(s) : \E k \in DOMAIN s : s[k] = t
    BY DEF ToSet
  <2> QED BY <1>1, <2>1, <2>2, <2>3 DEF Bijection, Injection, Surjection, IsInjective
<1>3. ExistsBijection(1..Len(s), ToSet(s))
  BY <1>2 DEF ExistsBijection
<1> QED BY <1>1, <1>3, FS_CountingElements

\* What the invariants say of the tables.
LEMMA LaidIsTyped ==
  ASSUME WindowInv, Laid, Retired, Wired
  PROVE  TypeOK
<1>0. Shape /\ Numbered /\ Actors
  BY DEF WindowInv, Shape
<1>1. Upto \in Nat /\ MaxTerminals \in Nat /\ Upto <= MaxTerminals
  BY WindowBounds DEF Laid
<1>2. /\ 1..Upto \subseteq Terminals /\ 0..Upto \subseteq Terminals \cup {None}
      /\ \A s : IsLayout(s, Upto) => IsLayout(s, MaxTerminals)
  BY <1>1, LayoutsLast DEF Terminals, None
<1>3. Known \subseteq Runtimes
  BY <1>0, KnownNumbers
<1>4. Issued \subseteq Ids
  <2>1. /\ \A w \in Issued : w \in Nat /\ w <= MaxWorkspaces + MaxRuntimes
        /\ None \notin Issued
    BY <1>0, KnownNumbers
  <2> QED BY <2>1, Numbers DEF Ids, None
<1>5. ASSUME NEW w \in DOMAIN workspaces
      PROVE  /\ workspaces[w].layout \in Seq(Terminals) \ {<<>>}
             /\ Cardinality(ToSet(workspaces[w].layout)) = Len(workspaces[w].layout)
             /\ workspaces[w].runtime \in Runtimes \cup {None}
             /\ workspaces[w].zoom \in Terminals \cup {None}
             /\ workspaces[w].status \in Statuses
  <2>1. IsLaid(workspaces[w], Upto)
    BY DEF Laid
  <2>2. IsLayout(workspaces[w].layout, Upto) /\ workspaces[w].layout # <<>>
    BY <2>1 DEF IsLaid
  <2>3. workspaces[w].layout \in Seq(Terminals)
    BY <1>2, <2>2 DEF IsLayout, Terminals
  <2>4. workspaces[w].runtime \in Runtimes \cup {None}
    BY <1>0, <1>3 DEF Numbered
  <2> QED BY <1>2, <2>1, <2>2, <2>3, <2>4, PlacesAndLeaves DEF IsLaid
<1>6. dismissed \cup offer \cup DOMAIN runtimes \subseteq Runtimes /\ DOMAIN workspaces \subseteq Ids
  BY <1>0, <1>3, <1>4 DEF Numbered
<1>7. Len(actors) \in 1..MaxActors
  <2>1. Len(actors) \in Nat /\ Len(actors) > 0
    BY <1>0, SeqFacts DEF Actors
  <2>2. MaxActors \in Nat /\ Len(actors) <= MaxActors
    BY WindowBounds DEF Retired
  <2> QED BY <2>1, <2>2
<1>8. ASSUME NEW i \in DOMAIN actors
      PROVE  /\ actors[i].link \in {"none", "up", "lost", "ended"}
             /\ i < Len(actors) => actors[i].link = "ended" \/ actors[i].queue # <<>>
  <2>1. ToSet(<<>>) = {}
    BY ShortSeqs
  <2> QED BY <2>1 DEF Retired
<1>9. \A r \in DOMAIN runtimes : ToSet(runtimes[r]) \subseteq Terminals
  BY <1>2, LayoutIs DEF Laid
<1>10. /\ life \in {"up", "leaving", "off"} /\ direct \in BOOLEAN /\ connecting \in BOOLEAN
       /\ index \cup widgets \cup printed \subseteq Terminals /\ shown \subseteq widgets
  BY <1>2 DEF Laid
<1>11. unheard \subseteq printed /\ attached \cup severed \subseteq (DOMAIN actors) \X Runtimes
  BY <1>3 DEF Wired
<1> QED BY <1>5, <1>6, <1>7, <1>8, <1>9, <1>10, <1>11 DEF TypeOK

\* TypeOK: a layout is never empty nor has a leaf twice, widgets are of known terminals, and an actor that
\* was replaced has ended or only works off its queue (workspace_state.rs:121-165, daemon_bridge.rs:298).
THEOREM WindowTypeCorrect == Spec => []TypeOK
<1>1. WindowInv /\ Laid /\ Retired /\ Wired => TypeOK
  BY LaidIsTyped
<1> QED BY <1>1, WindowIsInductive, LayingIsInductive, PTL

-----------------------------------------------------------------------------
(* What the daemon has, and what is told of it.                             *)

Alive(r) == r \in DOMAIN runtimes
PanesOf(r) == ToSet(runtimes[r])

\* What is read after position n makes a pane, closes a terminal.
Creates(e, p) == e.kind = "created" /\ e.pane = p
Closes(e, t) == e.kind = "closed" /\ e.at = t
Creation(n, p) == \E m \in DOMAIN events : m > n /\ Creates(events[m], p)
Closing(n, t) == \E m \in DOMAIN events : m > n /\ Closes(events[m], t)

\* What an event of position n says of the panes of a runtime is so when all that comes after it is
\* read: its tree is what the runtime has, a pane that was created is there, and the placeholder that
\* it replaces or the terminal that was closed is not.
Timely(e, n) ==
  /\ e.kind \in {"created", "closed"} => e.at \in 0..Upto
  /\ Alive(e.runtime) =>
       /\ e.kind = "opened" =>
            /\ \A p \in PanesOf(e.runtime) : p \in ToSet(e.panes) \/ Creation(n, p)
            /\ \A t \in ToSet(e.panes) : t \in PanesOf(e.runtime) \/ Closing(n, t)
       /\ e.kind = "created" => e.pane \in PanesOf(e.runtime) \/ Closing(n, e.pane)
       /\ e.kind \in {"created", "closed"} => e.at \notin PanesOf(e.runtime)
Current == \A n \in DOMAIN events : Timely(events[n], n)

\* No pane is in two runtimes.
Apart == \A q, r \in DOMAIN runtimes : q # r => PanesOf(q) \cap PanesOf(r) = {}

\* A command names terminals there are, and its placeholder is no pane of the runtime.
Fit(c) ==
  /\ c.at \in 0..Upto /\ c.new \in 0..Upto
  /\ c.kind \in {"create", "split"} /\ Alive(c.runtime) => c.new \notin PanesOf(c.runtime)
Fitting == \A c \in Queued : Fit(c)

Supply == Current /\ Apart /\ Fitting

\* An event that tells of what is so: its tree is the one of the runtime, with the panes that have
\* printed, its new pane is there, and what it replaces or closes is not.
Exact(e, has, prints, n) ==
  /\ e.kind \in {"created", "closed"} => e.at \in 0..n
  /\ e.kind = "opened" => e.prints = prints \cap ToSet(e.panes)
  /\ e.runtime \in DOMAIN has =>
       /\ e.kind = "opened" => ToSet(e.panes) = ToSet(has[e.runtime])
       /\ e.kind = "created" => e.pane \in ToSet(has[e.runtime])
       /\ e.kind \in {"created", "closed"} => e.at \notin ToSet(has[e.runtime])

\* A step of an actor or the daemon: one runtime at most gets panes, they are new, and what it gets
\* or loses is told of; nothing is told but what is so.
Grows(r) == \E p \in PanesOf(r)' : p \notin PanesOf(r)
Reports(more) ==
  /\ UNCHANGED <<life, screen, aside, saved, panes>>
  /\ minted'.terminals \in Nat /\ Upto <= minted'.terminals
  /\ IsSeq(more) /\ events' = events \o more /\ (life # "up" => more = <<>>)
  /\ \A r \in DOMAIN runtimes' : r \in DOMAIN runtimes \/ (r \notin Known \cup {None} /\ runtimes'[r] = <<>>)
  /\ \A r \in DOMAIN runtimes \cap DOMAIN runtimes' :
       /\ \A p \in PanesOf(r)' \ PanesOf(r) :
            p \in Nat /\ p > Upto /\ (life = "up" => \E e \in ToSet(more) : Creates(e, p))
       /\ \A t \in PanesOf(r) \ PanesOf(r)' : life = "up" => \E e \in ToSet(more) : Closes(e, t)
  /\ \A q, r \in DOMAIN runtimes \cap DOMAIN runtimes' : Grows(q) /\ Grows(r) => q = r
  /\ \A e \in ToSet(more) : Exact(e, runtimes', printed', minted'.terminals)

\* An event of a position that keeps its place.
LEMMA ReportsPositions ==
  ASSUME Shape, NEW more, Reports(more)
  PROVE  /\ Sent' = Sent \cup ToSet(more) /\ Len(events) \in Nat /\ Len(more) \in Nat
         /\ DOMAIN events = 1..Len(events) /\ DOMAIN events' = 1..(Len(events) + Len(more))
         /\ \A n \in DOMAIN events : n \in DOMAIN events' /\ events'[n] = events[n]
         /\ \A n \in DOMAIN events' : n \notin DOMAIN events => n > Len(events) /\ events'[n] \in ToSet(more)
         /\ \A e \in ToSet(more) : \E m \in DOMAIN events' : m > Len(events) /\ events'[m] = e
<1>1. IsSeq(more) /\ events' = events \o more /\ IsSeq(events)
  BY DEF Reports, Shape
<1>2. /\ Sent' = Sent \cup ToSet(more) /\ IsSeq(events')
      /\ Len(events') = Len(events) + Len(more)
      /\ \A k \in 1..(Len(events) + Len(more)) :
           events'[k] = IF k <= Len(events) THEN events[k] ELSE more[k - Len(events)]
  BY <1>1, ConcatIsSeq DEF Sent
<1>3. /\ Len(events) \in Nat /\ Len(more) \in Nat /\ DOMAIN more = 1..Len(more)
      /\ DOMAIN events = 1..Len(events) /\ DOMAIN events' = 1..(Len(events) + Len(more))
      /\ \A n \in DOMAIN more : more[n] \in ToSet(more)
      /\ \A e \in ToSet(more) : \E n \in DOMAIN more : more[n] = e
  BY <1>1, <1>2, SeqFacts
<1>4. ASSUME NEW n \in DOMAIN events PROVE n \in DOMAIN events' /\ events'[n] = events[n]
  BY <1>2, <1>3
<1>5. ASSUME NEW n \in DOMAIN events', n \notin DOMAIN events PROVE n > Len(events) /\ events'[n] \in ToSet(more)
  <2>1. n > Len(events) /\ n - Len(events) \in DOMAIN more /\ events'[n] = more[n - Len(events)]
    BY <1>2, <1>3, <1>5
  <2> QED BY <1>3, <2>1
<1>6. ASSUME NEW e \in ToSet(more) PROVE \E m \in DOMAIN events' : m > Len(events) /\ events'[m] = e
  <2>1. PICK k \in DOMAIN more : more[k] = e
    BY <1>3
  <2>2. k + Len(events) \in 1..(Len(events) + Len(more)) /\ k + Len(events) > Len(events)
        /\ (k + Len(events)) - Len(events) = k
    BY <1>3
  <2>3. events'[k + Len(events)] = e
    BY <1>2, <1>3, <2>1, <2>2
  <2> QED BY <1>3, <2>2, <2>3
<1> QED BY <1>2, <1>3, <1>4, <1>5, <1>6

\* What was on its way still is, and what is told now is told after it.
LEMMA ReportsFollow ==
  ASSUME Shape, NEW more, Reports(more), NEW n \in DOMAIN events \cup {0}
  PROVE  /\ \A p : Creation(n, p) => Creation(n, p)'
         /\ \A t : Closing(n, t) => Closing(n, t)'
         /\ \A p : (\E e \in ToSet(more) : Creates(e, p)) => Creation(n, p)'
         /\ \A t : (\E e \in ToSet(more) : Closes(e, t)) => Closing(n, t)'
<1>1. /\ Len(events) \in Nat /\ DOMAIN events = 1..Len(events) /\ DOMAIN events' \subseteq Nat
      /\ \A m \in DOMAIN events : m \in DOMAIN events' /\ events'[m] = events[m]
      /\ \A e \in ToSet(more) : \E m \in DOMAIN events' : m > Len(events) /\ events'[m] = e
  BY ReportsPositions
<1>2. \A e \in ToSet(more) : \E m \in DOMAIN events' : m > n /\ events'[m] = e
  BY <1>1
<1> QED BY <1>1, <1>2 DEF Creation, Closing, Creates, Closes

\* The panes of a runtime are terminals there are.
LEMMA PanesAreUpto ==
  ASSUME Laid
  PROVE  /\ Upto \in Nat /\ printed \subseteq 1..Upto
         /\ \A r \in DOMAIN runtimes : PanesOf(r) \subseteq 1..Upto
         /\ \A w \in DOMAIN workspaces : Leaves(w) \subseteq 1..Upto
<1>1. Upto \in Nat
  BY WindowBounds DEF Laid
<1>2. ASSUME NEW r \in DOMAIN runtimes PROVE PanesOf(r) \subseteq 1..Upto
  <2>1. IsLayout(runtimes[r], Upto)
    BY DEF Laid
  <2> QED BY <2>1, LayoutIs DEF PanesOf
<1>3. ASSUME NEW w \in DOMAIN workspaces PROVE Leaves(w) \subseteq 1..Upto
  <2>1. IsLayout(workspaces[w].layout, Upto)
    BY DEF Laid, IsLaid
  <2> QED BY <2>1, LayoutIs DEF Leaves
<1> QED BY <1>1, <1>2, <1>3 DEF Laid

\* So what is on its way stays timely.
LEMMA ReportsKeepCurrent ==
  ASSUME WindowInv, Laid, Current, NEW more, Reports(more)
  PROVE  Current'
<1>0. Shape /\ Off /\ InFlight
  BY DEF WindowInv
<1>1. /\ Len(events) \in Nat /\ DOMAIN events = 1..Len(events)
      /\ \A n \in DOMAIN events : events'[n] = events[n]
      /\ \A n \in DOMAIN events' : n \notin DOMAIN events => events'[n] \in ToSet(more)
  BY <1>0, ReportsPositions
<1>2. Upto \in Nat /\ \A r \in DOMAIN runtimes : PanesOf(r) \subseteq 1..Upto
  BY PanesAreUpto
<1>3. Upto' = minted'.terminals /\ minted'.terminals \in Nat /\ Upto <= minted'.terminals
  BY DEF Reports, Upto
<1>4. ASSUME NEW n \in DOMAIN events, NEW e, e = events[n], NEW r, r = e.runtime PROVE Timely(e, n)'
  <2>1. e \in Sent /\ n \in DOMAIN events \cup {0} /\ life = "up"
    <3>1. DOMAIN <<>> = {}
      OBVIOUS
    <3> QED BY <1>0, <1>4, <3>1 DEF Off, Sent, ToSet
  <2>2. Timely(e, n)
    BY <1>4 DEF Current
  <2>3. r \in Known \cup {None} /\ None \notin DOMAIN runtimes'
    <3>1. r \in Known \cup {None}
      BY <1>0, <1>4, <2>1 DEF InFlight, IsEvent
    <3>2. None \notin DOMAIN runtimes
      BY <1>0, KnownNumbers DEF WindowInv, Numbered
    <3> QED BY <3>1, <3>2 DEF Reports
  <2>4. Alive(r)' => Alive(r)
    BY <2>3 DEF Reports, Alive
  <2>5. ASSUME Alive(r)'
        PROVE  /\ \A p \in PanesOf(r)' : p \in PanesOf(r) \/ (p > Upto /\ p \in Nat /\ Creation(n, p)')
               /\ \A t \in PanesOf(r) : t \in PanesOf(r)' \/ Closing(n, t)'
    <3>1. r \in DOMAIN runtimes \cap DOMAIN runtimes'
      BY <2>4, <2>5 DEF Alive
    <3> QED BY <1>0, <2>1, <3>1, ReportsFollow DEF Reports
  <2>6. (\A p : Creation(n, p) => Creation(n, p)') /\ (\A t : Closing(n, t) => Closing(n, t)')
    BY <1>0, <2>1, ReportsFollow
  <2>7. e.kind \in {"created", "closed"} => e.at \in 0..Upto'
    BY <1>2, <1>3, <2>2 DEF Timely
  <2>8. ASSUME Alive(r)', e.kind = "opened"
        PROVE  /\ \A p \in PanesOf(r)' : p \in ToSet(e.panes) \/ Creation(n, p)'
               /\ \A t \in ToSet(e.panes) : t \in PanesOf(r)' \/ Closing(n, t)'
    BY <1>4, <2>2, <2>4, <2>5, <2>6, <2>8 DEF Timely
  <2>9. ASSUME Alive(r)', e.kind = "created"
        PROVE  e.pane \in PanesOf(r)' \/ Closing(n, e.pane)'
    BY <1>4, <2>2, <2>4, <2>5, <2>6, <2>9 DEF Timely
  <2>10. ASSUME Alive(r)', e.kind \in {"created", "closed"}
         PROVE  e.at \notin PanesOf(r)'
    <3>1. e.at \in 0..Upto /\ e.at \notin PanesOf(r)
      BY <1>4, <2>2, <2>4, <2>10 DEF Timely
    <3> QED BY <1>2, <2>5, <2>10, <3>1
  <2> QED BY <1>4, <2>7, <2>8, <2>9, <2>10 DEF Timely
<1>5. ASSUME NEW n \in DOMAIN events', n \notin DOMAIN events PROVE Timely(events[n], n)'
  <2>1. Exact(events'[n], runtimes', printed', Upto')
    BY <1>1, <1>3, <1>5 DEF Reports
  <2> QED BY <2>1 DEF Exact, Timely, Alive, PanesOf
<1>6. ASSUME NEW n \in DOMAIN events PROVE Timely(events[n], n)'
  <2>1. PICK e : e = events[n]
    OBVIOUS
  <2>2. Timely(e, n)' /\ events'[n] = e
    BY <1>1, <1>4, <2>1
  <2> QED BY <2>2 DEF Timely
<1> QED BY <1>5, <1>6 DEF Current

\* And no pane comes to be in two runtimes.
LEMMA ReportsKeepApart ==
  ASSUME Laid, Apart, NEW more, Reports(more)
  PROVE  Apart'
<1>1. Upto \in Nat /\ \A r \in DOMAIN runtimes : PanesOf(r) \subseteq 1..Upto
  BY PanesAreUpto
<1>2. ASSUME NEW r \in DOMAIN runtimes', NEW p \in PanesOf(r)'
      PROVE  r \in DOMAIN runtimes /\ (p \in PanesOf(r) \/ (p > Upto /\ p \in Nat /\ Grows(r)))
  <2>1. r \in DOMAIN runtimes
    <3>1. ToSet(<<>>) = {}
      BY ShortSeqs
    <3> QED BY <1>2, <3>1 DEF Reports, PanesOf
  <2> QED BY <1>2, <2>1 DEF Reports, Grows
<1>3. ASSUME NEW q \in DOMAIN runtimes', NEW r \in DOMAIN runtimes', q # r,
             NEW p \in PanesOf(q)' \cap PanesOf(r)'
      PROVE  FALSE
  <2>1. /\ q \in DOMAIN runtimes /\ (p \in PanesOf(q) \/ (p > Upto /\ p \in Nat /\ Grows(q)))
        /\ r \in DOMAIN runtimes /\ (p \in PanesOf(r) \/ (p > Upto /\ p \in Nat /\ Grows(r)))
    BY <1>2, <1>3
  <2>2. ~(p \in PanesOf(q) /\ p \in PanesOf(r))
    BY <1>3, <2>1 DEF Apart
  <2>3. ~(Grows(q) /\ Grows(r))
    BY <1>3, <2>1 DEF Reports
  <2> QED BY <1>1, <2>1, <2>2, <2>3
<1> QED BY <1>3 DEF Apart

\* And the commands fit that were queued before.
LEMMA ReportsKeepFit ==
  ASSUME WindowInv, Laid, NEW more, Reports(more), NEW c, Fit(c), c \in Queued
  PROVE  Fit(c)'
<1>1. Upto \in Nat /\ Upto' \in Nat /\ Upto <= Upto'
  BY PanesAreUpto DEF Reports, Upto
<1>2. c.runtime \in Known \cup {None} /\ None \notin Known /\ None \notin DOMAIN runtimes
  <2>1. Shape /\ InFlight /\ Numbered
    BY DEF WindowInv
  <2> QED BY <2>1, KnownNumbers DEF InFlight, IsCommand, Numbered
<1>3. ASSUME Alive(c.runtime)', c.kind \in {"create", "split"} PROVE c.new \notin PanesOf(c.runtime)'
  <2>1. c.runtime \in DOMAIN runtimes
    BY <1>2, <1>3 DEF Reports, Alive
  <2>2. c.new \notin PanesOf(c.runtime) /\ c.new \in 0..Upto
    BY <1>3, <2>1 DEF Fit, Alive
  <2>3. \A p \in PanesOf(c.runtime)' \ PanesOf(c.runtime) : p \in Nat /\ p > Upto
    BY <1>3, <2>1 DEF Reports, Alive
  <2> QED BY <1>1, <2>2, <2>3
<1> QED BY <1>1, <1>3 DEF Fit

\* All of which is what the actors and the daemon supply.
LEMMA ReportsKeepSupply ==
  ASSUME WindowInv, Laid, Supply, NEW more, Reports(more), \A c \in Queued' : c \in Queued \/ Fit(c)'
  PROVE  Supply'
BY ReportsKeepCurrent, ReportsKeepApart, ReportsKeepFit DEF Supply, Fitting

-----------------------------------------------------------------------------
(* Whom the actor in use attends to.                                        *)

\* The actor tracks w, and is not told to forget it.
Forgets(c, w) == c.kind = "forget" /\ c.ws = w
SettledAt(a, w) == w \in DOMAIN a.tracked /\ \A c \in ToSet(a.queue) : ~Forgets(c, w)
Settled(w) == SettledAt(InUse, w)

\* A recovered workspace that is not shown any more is forgotten, even if it is opened first: the
\* actor will not tell of it when its runtime is recovered again (workspace_state.rs:390).
Parting(q, W) ==
  \A n \in DOMAIN q : q[n].kind = "open" /\ q[n].ws > MaxWorkspaces /\ q[n].ws \notin W =>
    \E m \in DOMAIN q : m > n /\ Forgets(q[m], q[n].ws)
PartedFrom(a, W) ==
  /\ Parting(a.queue, W)
  /\ \A w \in DOMAIN a.tracked : w > MaxWorkspaces /\ w \notin W => ~SettledAt(a, w)
Parted == life = "up" => PartedFrom(InUse, DOMAIN workspaces)

\* An actor that was never connected tracks nothing.
Idle == InUse.link = "none" => DOMAIN InUse.tracked = {}

\* An event that answers an open of w, and one on its way.
Reopens(e, w) == e.kind = "opened" /\ e.ws = w
Awaits(w) == \E e \in Sent : Reopens(e, w)

\* What an actor in use that attends to w does in a step of the actors: it did so before, or it tells of
\* the runtime that it tracks now.
Attends(more) ==
  /\ life = "up" => \A w : Settled(w)' /\ Alive(InUse.tracked[w])' =>
       \/ Settled(w) /\ InUse'.tracked[w] = InUse.tracked[w]
       \/ \E e \in ToSet(more) : Reopens(e, w) /\ e.runtime = InUse'.tracked[w]
  /\ Idle' /\ Parted'

\* A queue of which the head is taken, and that gets no open and nothing to forget.
LEMMA PartingTail ==
  ASSUME NEW q, IsSeq(q), q # <<>>, NEW W, Parting(q, W), NEW more, IsSeq(more),
         \A c \in ToSet(more) : c.kind # "open"
  PROVE  /\ Parting(Tail(q) \o more, W)
         /\ Head(q).kind = "open" /\ Head(q).ws > MaxWorkspaces /\ Head(q).ws \notin W =>
              \E c \in ToSet(Tail(q)) : Forgets(c, Head(q).ws)
<1> DEFINE t == Tail(q)
           u == t \o more
<1>1. /\ Len(q) \in Nat /\ DOMAIN q = 1..Len(q) /\ Len(q) > 0 /\ Head(q) = q[1]
      /\ IsSeq(t) /\ Len(t) = Len(q) - 1 /\ \A n \in 1..(Len(q) - 1) : t[n] = q[n + 1]
  BY SeqFacts, TailIsSeq
<1> HIDE DEF t
<1>2. /\ IsSeq(u) /\ Len(u) = Len(t) + Len(more)
      /\ \A n \in 1..(Len(t) + Len(more)) : u[n] = IF n <= Len(t) THEN t[n] ELSE more[n - Len(t)]
  BY <1>1, ConcatIsSeq
<1>3. Len(more) \in Nat /\ DOMAIN more = 1..Len(more) /\ \A n \in DOMAIN more : more[n] \in ToSet(more)
  BY SeqFacts
<1> HIDE DEF u
<1>4. DOMAIN u = 1..(Len(t) + Len(more)) /\ DOMAIN t = 1..(Len(q) - 1)
  BY <1>1, <1>2, SeqFacts
<1>5. ASSUME NEW m \in DOMAIN q, m > 1 PROVE m - 1 \in DOMAIN t /\ t[m - 1] = q[m] /\ m - 1 \in DOMAIN u /\ u[m - 1] = q[m]
  <2>1. m - 1 \in 1..(Len(q) - 1) /\ (m - 1) + 1 = m
    BY <1>1, <1>5
  <2>2. t[m - 1] = q[m]
    BY <1>1, <2>1
  <2> QED BY <1>1, <1>2, <1>3, <1>4, <2>1, <2>2
<1>6. ASSUME NEW n \in DOMAIN u, u[n].kind = "open", u[n].ws > MaxWorkspaces, u[n].ws \notin W
      PROVE  \E m \in DOMAIN u : m > n /\ Forgets(u[m], u[n].ws)
  <2>1. n <= Len(t)
    <3>1. CASE n > Len(t)
      <4>1. n - Len(t) \in DOMAIN more /\ u[n] = more[n - Len(t)]
        BY <1>1, <1>2, <1>3, <1>4, <1>6, <3>1, SMTT(30)
      <4> QED BY <1>3, <1>6, <4>1
    <3> QED BY <1>1, <1>4, <1>6, <3>1
  <2>2. n + 1 \in DOMAIN q /\ n + 1 > 1 /\ (n + 1) - 1 = n
    BY <1>1, <1>3, <1>4, <1>6, <2>1
  <2>3. u[n] = q[n + 1]
    BY <1>5, <2>2
  <2>4. PICK m \in DOMAIN q : m > n + 1 /\ Forgets(q[m], u[n].ws)
    BY <1>6, <2>2, <2>3 DEF Parting
  <2>5. m > 1 /\ m - 1 > n
    BY <1>1, <2>2, <2>4
  <2> QED BY <1>5, <2>4, <2>5
<1>7. ASSUME q[1].kind = "open", q[1].ws > MaxWorkspaces, q[1].ws \notin W
      PROVE  \E c \in ToSet(t) : Forgets(c, q[1].ws)
  <2>1. 1 \in DOMAIN q
    BY <1>1
  <2>2. PICK m \in DOMAIN q : m > 1 /\ Forgets(q[m], q[1].ws)
    BY <1>7, <2>1 DEF Parting
  <2>3. m - 1 \in DOMAIN t /\ t[m - 1] = q[m]
    BY <1>5, <2>2
  <2> QED BY <2>2, <2>3 DEF ToSet
<1> QED BY <1>1, <1>6, <1>7 DEF Parting, u, t

\* A queue that gets commands: what is opened is shown, and what is not shown any more is forgotten.
LEMMA PartingAppends ==
  ASSUME NEW q, IsSeq(q), NEW W, Parting(q, W), NEW more, IsSeq(more), NEW V,
         \A c \in ToSet(more) : c.kind = "open" => c.ws \in V,
         \A w \in W \ V : w > MaxWorkspaces => \E c \in ToSet(more) : Forgets(c, w)
  PROVE  Parting(q \o more, V)
<1> DEFINE u == q \o more
<1>1. Len(q) \in Nat /\ DOMAIN q = 1..Len(q)
  BY SeqFacts
<1>2. /\ IsSeq(u) /\ Len(u) = Len(q) + Len(more)
      /\ \A n \in 1..(Len(q) + Len(more)) : u[n] = IF n <= Len(q) THEN q[n] ELSE more[n - Len(q)]
  BY ConcatIsSeq
<1>3. /\ Len(more) \in Nat /\ DOMAIN more = 1..Len(more) /\ \A n \in DOMAIN more : more[n] \in ToSet(more)
      /\ \A c \in ToSet(more) : \E n \in DOMAIN more : more[n] = c
  BY SeqFacts
<1> HIDE DEF u
<1>4. DOMAIN u = 1..(Len(q) + Len(more))
  BY <1>2, SeqFacts
<1>5. ASSUME NEW n \in DOMAIN u, u[n].kind = "open", u[n].ws > MaxWorkspaces, u[n].ws \notin V
      PROVE  \E m \in DOMAIN u : m > n /\ Forgets(u[m], u[n].ws)
  <2>1. n <= Len(q)
    <3>1. CASE n > Len(q)
      <4>1. n - Len(q) \in DOMAIN more /\ u[n] = more[n - Len(q)]
        BY <1>1, <1>2, <1>3, <1>4, <1>5, <3>1
      <4> QED BY <1>3, <1>5, <4>1
    <3> QED BY <1>1, <1>4, <1>5, <3>1
  <2>2. u[n] = q[n] /\ n \in DOMAIN q
    BY <1>1, <1>2, <1>3, <1>4, <1>5, <2>1
  <2>3. CASE u[n].ws \notin W
    <3>1. PICK m \in DOMAIN q : m > n /\ Forgets(q[m], u[n].ws)
      BY <1>5, <2>2, <2>3 DEF Parting
    <3>2. m \in DOMAIN u /\ u[m] = q[m]
      BY <1>1, <1>2, <1>3, <1>4, <3>1
    <3> QED BY <3>1, <3>2
  <2>4. CASE u[n].ws \in W
    <3>1. PICK c \in ToSet(more) : Forgets(c, u[n].ws)
      BY <1>5, <2>4
    <3>2. PICK m \in DOMAIN more : more[m] = c
      BY <1>3
    <3>3. m + Len(q) \in DOMAIN u /\ m + Len(q) > n /\ u[m + Len(q)] = c
      BY <1>1, <1>2, <1>3, <1>4, <2>1, <2>2, <3>2
    <3> QED BY <3>1, <3>3
  <2> QED BY <2>3, <2>4
<1> QED BY <1>5 DEF Parting, u

\* What the window asks: the actor in use attends to no more than before.
LEMMA AskedAttends ==
  ASSUME Actors, Idle, Parted, life = "up", NEW list, IsSeq(list), Asked(list),
         \A c \in ToSet(list) : c.kind = "open" => c.ws \in DOMAIN workspaces',
         \A w \in DOMAIN workspaces \ DOMAIN workspaces' :
           w > MaxWorkspaces => \E c \in ToSet(list) : Forgets(c, w)
  PROVE  /\ Idle' /\ Parted'
         /\ \A w : Settled(w)' => Settled(w)
         /\ InUse'.tracked = InUse.tracked /\ InUse'.link = InUse.link
<1> DEFINE q == InUse.queue
           W == DOMAIN workspaces
           V == DOMAIN workspaces'
<1>1. /\ IsSeq(q) /\ Parting(q, W)
      /\ \A w \in DOMAIN InUse.tracked : w > MaxWorkspaces /\ w \notin W => ~Settled(w)
  BY InUseIs DEF IsActor, Parted, PartedFrom, Settled
<1>2. /\ \A c \in ToSet(list) : c.kind = "open" => c.ws \in V
      /\ \A w \in W \ V : w > MaxWorkspaces => \E c \in ToSet(list) : Forgets(c, w)
  OBVIOUS
<1>3. InUse'.queue = q \o list /\ InUse'.tracked = InUse.tracked /\ InUse'.link = InUse.link
  BY DEF Asked
<1> HIDE DEF q, W, V
<1>4. Parting(q \o list, V) /\ ToSet(q \o list) = ToSet(q) \cup ToSet(list)
  BY <1>1, <1>2, PartingAppends, ConcatIsSeq
<1>5. ASSUME NEW w, Settled(w)' PROVE Settled(w) /\ \A c \in ToSet(list) : ~Forgets(c, w)
  BY <1>3, <1>4, <1>5 DEF Settled, SettledAt, q
<1>6. ASSUME NEW w \in DOMAIN InUse'.tracked, w > MaxWorkspaces, w \notin V PROVE ~Settled(w)'
  <2>1. CASE w \in W
    BY <1>2, <1>5, <1>6, <2>1
  <2>2. CASE w \notin W
    BY <1>1, <1>3, <1>5, <1>6, <2>2
  <2> QED BY <2>1, <2>2
<1>7. Parted'
  BY <1>3, <1>4, <1>6 DEF Parted, PartedFrom, Settled, V
<1>8. Idle'
  BY <1>3 DEF Idle
<1> QED BY <1>3, <1>5, <1>7, <1>8

\* An actor is done with a command: what it tracks it tracked before, or it opens it and tells so.
LEMMA DoneAttends ==
  ASSUME WindowInv, Tracking, Idle, Parted, NEW i \in DOMAIN actors, actors[i].queue # <<>>,
         NEW c, c = Head(actors[i].queue), UNCHANGED <<life, workspaces>>,
         NEW link, NEW tracked, NEW list, IsSeq(list), Done(i, link, tracked, list), NEW more,
         \A x \in ToSet(list) : x.kind \notin {"open", "forget"},
         c.kind = "forget" => c.ws \notin DOMAIN tracked,
         link = "none" => actors[i].link = "none",
         \A w \in DOMAIN tracked :
           \/ w \in DOMAIN actors[i].tracked /\ tracked[w] = actors[i].tracked[w]
           \/ /\ c.kind = "open" /\ c.ws = w /\ link = "up"
              /\ life = "up" => \E e \in ToSet(more) : Reopens(e, w) /\ e.runtime = tracked[w]
  PROVE  Attends(more)
<1> DEFINE q == actors[i].queue
           a == [queue |-> Tail(q) \o list, tracked |-> tracked, link |-> link]
<1>0. Actors
  BY DEF WindowInv, Shape
<1>1. IsSeq(q) /\ q # <<>> /\ c = Head(q) /\ IsActor(actors[i])
  BY <1>0 DEF Actors, IsActor
<1>2. actors' = [actors EXCEPT ![i] = a] /\ Len(actors) \in DOMAIN actors /\ InUse = actors[Len(actors)]
  BY <1>0, InUseIs DEF Done
<1>3. a.queue = Tail(q) \o list /\ a.tracked = tracked /\ a.link = link /\ DOMAIN a = {"queue", "tracked", "link"}
  OBVIOUS
<1> HIDE DEF a
<1>4. /\ IsSeq(Tail(q)) /\ ToSet(Tail(q)) \subseteq ToSet(q)
      /\ IsSeq(a.queue) /\ ToSet(a.queue) = ToSet(Tail(q)) \cup ToSet(list)
      /\ \A x \in ToSet(q) : x = c \/ x \in ToSet(Tail(q))
  <2>1. /\ IsSeq(Tail(q)) /\ ToSet(Tail(q)) \subseteq ToSet(q)
        /\ Len(q) \in Nat /\ DOMAIN q = 1..Len(q) /\ Len(Tail(q)) = Len(q) - 1 /\ c = q[1]
        /\ \A n \in 1..(Len(q) - 1) : Tail(q)[n] = q[n + 1]
    BY <1>1, TailIsSeq, SeqFacts
  <2>2. DOMAIN Tail(q) = 1..(Len(q) - 1)
    BY <2>1, SeqFacts
  <2>3. IsSeq(a.queue) /\ ToSet(a.queue) = ToSet(Tail(q)) \cup ToSet(list)
    BY <1>3, <2>1, ConcatIsSeq
  <2>4. ASSUME NEW x \in ToSet(q), x # c PROVE x \in ToSet(Tail(q))
    <3>1. PICK n \in DOMAIN q : q[n] = x
      BY DEF ToSet
    <3>2. n - 1 \in 1..(Len(q) - 1) /\ (n - 1) + 1 = n
      BY <2>1, <2>4, <3>1
    <3>3. Tail(q)[n - 1] = x
      BY <2>1, <3>1, <3>2
    <3> QED BY <2>2, <3>2, <3>3 DEF ToSet
  <2> QED BY <2>1, <2>3, <2>4
<1>5. Len(actors') = Len(actors) /\ InUse' = actors'[Len(actors)]
  <2>1. IsActor(a)
    BY <1>3, <1>4 DEF IsActor
  <2>2. ToSet(a.queue) \subseteq ToSet(actors[i].queue) \cup ToSet(list)
    BY <1>4 DEF q
  <2>3. Len(actors') = Len(actors)
    BY <1>0, <1>2, <2>1, <2>2, ActorChanges
  <2> QED BY <2>3 DEF InUse, Last
<1>6. CASE i # Len(actors)
  <2>1. InUse' = InUse
    BY <1>2, <1>5, <1>6
  <2> QED BY <2>1 DEF Attends, Settled, Idle, Parted
<1>7. CASE i = Len(actors)
  <2>1. InUse' = a /\ InUse = actors[i]
    BY <1>2, <1>5, <1>7
  <2>2. InUse'.queue = a.queue /\ InUse'.tracked = tracked /\ InUse'.link = link /\ InUse.queue = q
    BY <1>3, <2>1 DEF q
  <2>3. ASSUME NEW w \in DOMAIN InUse.tracked, w \in DOMAIN tracked, Settled(w)' PROVE Settled(w)
    <3>1. \A x \in ToSet(Tail(q)) : ~Forgets(x, w)
      BY <1>4, <2>2, <2>3 DEF Settled, SettledAt
    <3>2. ~Forgets(c, w)
      BY <2>3 DEF Forgets
    <3>3. \A x \in ToSet(q) : ~Forgets(x, w)
      BY <1>4, <3>1, <3>2
    <3> QED BY <2>2, <2>3, <3>3 DEF Settled, SettledAt
  <2>4. Idle'
    <3>1. ASSUME link = "none" PROVE DOMAIN tracked = {}
      <4>1. DOMAIN InUse.tracked = {}
        BY <2>1, <3>1 DEF Idle
      <4> QED BY <2>1, <3>1, <4>1
    <3> QED BY <2>2, <3>1 DEF Idle
  <2>5. ASSUME NEW w, Settled(w)', life = "up"
        PROVE  \/ Settled(w) /\ InUse'.tracked[w] = InUse.tracked[w]
               \/ \E e \in ToSet(more) : Reopens(e, w) /\ e.runtime = InUse'.tracked[w]
    <3>1. w \in DOMAIN tracked
      BY <2>2, <2>5 DEF Settled, SettledAt
    <3>2. CASE w \in DOMAIN actors[i].tracked /\ tracked[w] = actors[i].tracked[w]
      <4>1. Settled(w) /\ w \in DOMAIN InUse.tracked
        BY <2>1, <2>3, <2>5, <3>1, <3>2
      <4> QED BY <2>1, <2>2, <3>2, <4>1
    <3> QED BY <2>2, <2>5, <3>1, <3>2
  <2>6. Parted'
    <3> SUFFICES ASSUME life = "up"
                 PROVE  PartedFrom(InUse, DOMAIN workspaces)'
      BY DEF Parted
    <3>1. Parting(q, DOMAIN workspaces)
      BY <2>2 DEF Parted, PartedFrom
    <3>2. \A x \in ToSet(list) : x.kind # "open"
      OBVIOUS
    <3>3. /\ Parting(a.queue, DOMAIN workspaces)
          /\ c.kind = "open" /\ c.ws > MaxWorkspaces /\ c.ws \notin DOMAIN workspaces =>
               \E x \in ToSet(Tail(q)) : Forgets(x, c.ws)
      BY <1>1, <1>3, <3>1, <3>2, PartingTail
    <3>4. ASSUME NEW w \in DOMAIN tracked, w > MaxWorkspaces, w \notin DOMAIN workspaces PROVE ~Settled(w)'
      <4>1. CASE c.kind = "open" /\ c.ws = w
        <5>1. PICK x \in ToSet(Tail(q)) : Forgets(x, w)
          BY <3>3, <3>4, <4>1
        <5> QED BY <1>4, <2>2, <5>1 DEF Settled, SettledAt
      <4>2. CASE w \in DOMAIN actors[i].tracked
        <5>1. ~Settled(w)
          BY <2>1, <3>4, <4>2 DEF Parted, PartedFrom, Settled
        <5> QED BY <2>1, <2>3, <3>4, <4>2, <5>1
      <4> QED BY <3>4, <4>1, <4>2
    <3> QED BY <2>2, <3>3, <3>4 DEF PartedFrom, Settled
  <2> QED BY <2>4, <2>5, <2>6 DEF Attends
<1> QED BY <1>6, <1>7

-----------------------------------------------------------------------------
(* What the actors and the daemon do to the panes.                          *)

\* The actor in use attends to w, which it has in runtime r.
Hears(w, r) == Settled(w) /\ InUse.tracked[w] = r

\* What brings the output of pane p: a delta, or a snapshot that has it.
Feeds(e, p) == \/ e.kind = "delta" /\ e.pane = p
               \/ e.kind = "opened" /\ p \in e.prints

\* A pane that prints is told of, or nobody is attached to hear of it; one that nobody heard of is told of
\* when a connection is attached to its runtime again (server.rs:2263).
Prints(more) ==
  /\ printed \subseteq printed'
  /\ life = "up" => /\ \A p \in printed' \ printed : p \in unheard' \/ \E e \in ToSet(more) : Feeds(e, p)
                    /\ \A p \in unheard \ unheard' : \E e \in ToSet(more) : Feeds(e, p)

\* What a connection is attached to was told with all that its panes had printed, and is told all they print.
Attunes == \A x \in attached' : Alive(x[2])' =>
  /\ x \in attached \/ unheard' \cap PanesOf(x[2])' = {}
  /\ (unheard' \ unheard) \cap PanesOf(x[2])' = {}

Serves == \E more : Reports(more) /\ Attends(more) /\ Prints(more)

\* An event with all it may say, and one that says the same with a stamp.
IsNews(e) == {"kind", "from", "ws", "runtime", "at", "pane", "panes", "prints"} \subseteq DOMAIN e
SameNews(x, y) == /\ x.kind = y.kind /\ x.ws = y.ws /\ x.runtime = y.runtime /\ x.at = y.at
                  /\ x.pane = y.pane /\ x.panes = y.panes /\ x.prints = y.prints

\* What is emitted says what it says.
LEMMA EmitReports ==
  ASSUME Shape, NEW from, NEW list, IsSeq(list), Emit(from, list), \A n \in DOMAIN list : IsNews(list[n]),
         UNCHANGED <<untouched, panes>>, minted'.terminals \in Nat, Upto <= minted'.terminals,
         \A n \in DOMAIN list : Exact(list[n], runtimes', printed', minted'.terminals),
         \A r \in DOMAIN runtimes' : r \in DOMAIN runtimes \/ (r \notin Known \cup {None} /\ runtimes'[r] = <<>>),
         \A r \in DOMAIN runtimes \cap DOMAIN runtimes' :
           /\ \A p \in PanesOf(r)' \ PanesOf(r) : p \in Nat /\ p > Upto /\ \E n \in DOMAIN list : Creates(list[n], p)
           /\ \A t \in PanesOf(r) \ PanesOf(r)' : \E n \in DOMAIN list : Closes(list[n], t),
         \A q, r \in DOMAIN runtimes \cap DOMAIN runtimes' : Grows(q) /\ Grows(r) => q = r
  PROVE  \E more : /\ Reports(more)
                   /\ life = "up" => \A n \in DOMAIN list : \E e \in ToSet(more) : SameNews(e, list[n])
<1>1. PICK more : /\ IsSeq(more) /\ events' = events \o more /\ (life # "up" => more = <<>>)
                  /\ \A e \in ToSet(more) : \E n \in DOMAIN list : SameNews(e, list[n])
                  /\ life = "up" => \A n \in DOMAIN list : \E e \in ToSet(more) : SameNews(e, list[n])
  <2>1. CASE life # "up"
    <3>1. IsSeq(events) /\ IsSeq(<<>>) /\ ToSet(<<>>) = {}
      BY ShortSeqs DEF Shape
    <3>2. events' = events
      BY <2>1 DEF Emit
    <3>3. events \o <<>> = events
      <4>1. events \in Seq(ToSet(events))
        BY <3>1 DEF IsSeq
      <4> QED BY <4>1, ConcatEmptySeq
    <3> QED BY <2>1, <3>1, <3>2, <3>3
  <2>2. ASSUME NEW more, life = "up", IsSeq(more), DOMAIN more = DOMAIN list, events' = events \o more,
               \A n \in DOMAIN list : more[n] = [list[n] EXCEPT !.from = from]
        PROVE  /\ \A e \in ToSet(more) : \E n \in DOMAIN list : SameNews(e, list[n])
               /\ \A n \in DOMAIN list : \E e \in ToSet(more) : SameNews(e, list[n])
    <3>1. ASSUME NEW n \in DOMAIN list PROVE SameNews(more[n], list[n])
      <4>1. IsNews(list[n]) /\ more[n] = [list[n] EXCEPT !.from = from]
        BY <2>2
      <4> QED BY <4>1 DEF IsNews, SameNews
    <3>2. (\A n \in DOMAIN more : more[n] \in ToSet(more)) /\ \A e \in ToSet(more) : \E n \in DOMAIN more : more[n] = e
      BY <2>2, SeqFacts
    <3> QED BY <2>2, <3>1, <3>2
  <2>3. CASE life = "up"
    <3>1. PICK more : /\ IsSeq(more) /\ DOMAIN more = DOMAIN list /\ events' = events \o more
                      /\ \A n \in DOMAIN list : more[n] = [list[n] EXCEPT !.from = from]
      BY <2>3, EmitStamps
    <3>2. /\ \A e \in ToSet(more) : \E n \in DOMAIN list : SameNews(e, list[n])
          /\ \A n \in DOMAIN list : \E e \in ToSet(more) : SameNews(e, list[n])
      BY <2>2, <2>3, <3>1
    <3> QED BY <2>3, <3>1, <3>2
  <2> QED BY <2>1, <2>3
<1>2. ASSUME NEW e \in ToSet(more) PROVE Exact(e, runtimes', printed', minted'.terminals)
  <2>1. PICK n \in DOMAIN list : SameNews(e, list[n])
    BY <1>1
  <2>2. Exact(list[n], runtimes', printed', minted'.terminals)
    OBVIOUS
  <2> QED BY <2>1, <2>2 DEF Exact, SameNews
<1>3. ASSUME NEW r \in DOMAIN runtimes \cap DOMAIN runtimes'
      PROVE  /\ \A p \in PanesOf(r)' \ PanesOf(r) :
                  p \in Nat /\ p > Upto /\ (life = "up" => \E e \in ToSet(more) : Creates(e, p))
             /\ \A t \in PanesOf(r) \ PanesOf(r)' : life = "up" => \E e \in ToSet(more) : Closes(e, t)
  <2>1. life = "up" => /\ \A p : (\E n \in DOMAIN list : Creates(list[n], p)) => \E e \in ToSet(more) : Creates(e, p)
                       /\ \A t : (\E n \in DOMAIN list : Closes(list[n], t)) => \E e \in ToSet(more) : Closes(e, t)
    <3>1. ASSUME life = "up", NEW n \in DOMAIN list
          PROVE  /\ \A p : Creates(list[n], p) => \E e \in ToSet(more) : Creates(e, p)
                 /\ \A t : Closes(list[n], t) => \E e \in ToSet(more) : Closes(e, t)
      <4>1. PICK e \in ToSet(more) : SameNews(e, list[n])
        BY <1>1, <3>1
      <4> QED BY <4>1 DEF Creates, Closes, SameNews
    <3> QED BY <3>1
  <2> QED BY <2>1
<1>4. UNCHANGED <<life, screen, aside, saved, panes>>
  BY DEF untouched
<1>5. Reports(more)
  BY <1>1, <1>2, <1>3, <1>4 DEF Reports
<1> QED BY <1>1, <1>5

\* An event that tells of no pane.
Mute(e) == IsNews(e) /\ e.kind \notin {"opened", "created", "closed"}

\* The panes stay as they are, or a runtime goes; what is told is of no pane.
LEMMA MuteReports ==
  ASSUME Shape, NEW from, NEW list, IsSeq(list), Emit(from, list), \A n \in DOMAIN list : Mute(list[n]),
         UNCHANGED <<untouched, panes, minted>>, Upto \in Nat,
         \A r \in DOMAIN runtimes' : r \in DOMAIN runtimes /\ runtimes'[r] = runtimes[r]
  PROVE  \E more : /\ Reports(more)
                   /\ life = "up" => \A n \in DOMAIN list : \E e \in ToSet(more) : SameNews(e, list[n])
<1>1. minted'.terminals \in Nat /\ Upto <= minted'.terminals
  BY DEF Upto
<1>2. \A n \in DOMAIN list : IsNews(list[n]) /\ Exact(list[n], runtimes', printed', minted'.terminals)
  BY DEF Mute, Exact
<1>3. \A r \in DOMAIN runtimes \cap DOMAIN runtimes' : PanesOf(r)' = PanesOf(r) /\ ~Grows(r)
  BY DEF PanesOf, Grows
<1>4. UNCHANGED <<untouched, panes>>
  OBVIOUS
<1> HIDE DEF untouched, panes
<1> QED BY <1>1, <1>2, <1>3, <1>4, EmitReports

\* What a step of the actors and the daemon does, and the commands it queues.
Works == Serves /\ Attunes /\ \A c \in Queued' : c \in Queued \/ Fit(c)'

\* A connection that is attached is a viewer, of a runtime that was there once.
LEMMA ViewersAre ==
  ASSUME Wired, NEW x \in attached
  PROVE  Viewers(x[2]) # {} /\ x[2] \in Known
<1>1. PICK i \in DOMAIN actors, r \in Known : x = <<i, r>>
  BY DEF Wired
<1> QED BY <1>1 DEF Viewers

\* No connection is attached, and nothing is missed.
LEMMA FewerAttune ==
  ASSUME attached' \subseteq attached, unheard' \subseteq unheard
  PROVE  Attunes
BY DEF Attunes

\* A connection is attached to runtimes, whose panes were heard of with it.
LEMMA AttachAttunes ==
  ASSUME NEW i, NEW rs, NEW refused, Attach(i, rs, refused),
         \A r \in rs : \A p \in PanesOf(r)' : p \in PanesAt(rs)
  PROVE  Attunes
<1>1. unheard' \subseteq unheard /\ unheard' \cap PanesAt(rs) = {}
  BY DEF Attach
<1>2. ASSUME NEW x \in attached', x \notin attached PROVE unheard' \cap PanesOf(x[2])' = {}
  <2>1. PICK r \in rs : x = <<i, r>>
    BY <1>2 DEF Attach
  <2>2. x[2] = r
    BY <2>1
  <2>3. PanesOf(x[2])' = PanesOf(r)'
    BY <2>2 DEF PanesOf
  <2> QED BY <1>1, <2>1, <2>3
<1> QED BY <1>1, <1>2 DEF Attunes

\* An actor is done with a command, and tells of no pane; the panes stay, or a runtime goes.
LEMMA MuteWorks ==
  ASSUME WindowInv, Laid, Tracking, Idle, Parted, NEW i \in DOMAIN actors, actors[i].queue # <<>>,
         NEW c, c = Head(actors[i].queue), NEW link, NEW tracked, Done(i, link, tracked, <<>>),
         NEW from, NEW list, IsSeq(list), Emit(from, list), \A n \in DOMAIN list : Mute(list[n]),
         UNCHANGED <<untouched, panes, minted, printed, unheard>>, attached' \subseteq attached,
         \A r \in DOMAIN runtimes' : r \in DOMAIN runtimes /\ runtimes'[r] = runtimes[r],
         c.kind = "forget" => c.ws \notin DOMAIN tracked,
         link = "none" => actors[i].link = "none",
         \A w \in DOMAIN tracked : w \in DOMAIN actors[i].tracked /\ tracked[w] = actors[i].tracked[w]
  PROVE  Works
<1> DEFINE none == <<>>
<1>0. Shape /\ Actors /\ Upto \in Nat
  BY PanesAreUpto DEF WindowInv, Shape
<1>1. IsSeq(none) /\ ToSet(none) = {} /\ Done(i, link, tracked, none)
  BY ShortSeqs
<1> HIDE DEF none
<1>2. UNCHANGED <<untouched, panes, minted>> /\ UNCHANGED <<life, workspaces>> /\ printed' = printed
  BY DEF untouched, screen
<1>3. PICK more : Reports(more)
  BY <1>0, <1>2, MuteReports
<1>4. Attends(more)
  BY <1>1, <1>2, DoneAttends
<1>5. Prints(more) /\ Attunes
  BY <1>2, FewerAttune DEF Prints
<1>6. \A x \in Queued' : x \in Queued
  BY <1>0, <1>1, DoneAdds
<1> QED BY <1>3, <1>4, <1>5, <1>6 DEF Works, Serves

\* DetachWorkspace and TerminateWorkspace.
LEMMA LeaveRuntimeWorks ==
  ASSUME WindowInv, Laid, Tracking, Idle, Parted, NEW i \in DOMAIN actors, LeaveRuntime(i)
  PROVE  Works
<1> DEFINE c == Head(actors[i].queue)
           tracked == Without(actors[i].tracked, {c.ws})
<1>1. PICK kind \in {"detach", "terminate"}, word \in {"detached", "terminated"} :
        /\ actors[i].queue # <<>> /\ c.kind = kind /\ Done(i, "up", tracked, <<>>) /\ Connects(i)
        /\ runtimes' = IF kind = "detach" THEN runtimes ELSE Restrict(runtimes, DOMAIN runtimes \ {c.runtime})
        /\ Emit(i, <<[Event(word, c.ws) EXCEPT !.status = "waiting"]>>)
        /\ UNCHANGED <<untouched, panes, minted, printed, unheard>> /\ attached' \subseteq attached
  BY DEF LeaveRuntime, Takes, Deaf
<1> DEFINE e == [Event(word, c.ws) EXCEPT !.status = "waiting"]
           list == <<e>>
<1>2. Mute(e) /\ Emit(i, list)
  BY <1>1 DEF Event, Mute, IsNews
<1> HIDE DEF e
<1>3. IsSeq(list) /\ \A n \in DOMAIN list : list[n] = e
  BY OneSaid
<1> HIDE DEF list
<1>4. \A n \in DOMAIN list : Mute(list[n])
  BY <1>2, <1>3
<1>5. \A w \in DOMAIN tracked : w \in DOMAIN actors[i].tracked /\ tracked[w] = actors[i].tracked[w]
  BY DEF Without, Restrict
<1> HIDE DEF c
<1>6. \A r \in DOMAIN runtimes' : r \in DOMAIN runtimes /\ runtimes'[r] = runtimes[r]
  BY <1>1 DEF Restrict
<1> HIDE DEF tracked
<1> DEFINE link == "up"
<1>7. /\ actors[i].queue # <<>> /\ c = Head(actors[i].queue) /\ c.kind # "forget"
      /\ Done(i, link, tracked, <<>>) /\ UNCHANGED <<untouched, panes, minted, printed, unheard>>
      /\ link # "none" /\ attached' \subseteq attached
  BY <1>1 DEF c
<1> HIDE DEF link
<1> QED BY <1>2, <1>3, <1>4, <1>5, <1>6, <1>7, MuteWorks

\* A refusal, a command that finds no daemon, and ListWorkspaces.
LEMMA AnswersWork ==
  ASSUME WindowInv, Laid, Tracking, Idle, Parted, NEW i \in DOMAIN actors,
         RefreshInventory(i) \/ CommandRefused(i) \/ NoDaemon(i)
  PROVE  Works
<1> DEFINE c == Head(actors[i].queue)
           tracked == actors[i].tracked
<1>1. /\ actors[i].queue # <<>> /\ c.kind # "forget"
      /\ UNCHANGED <<untouched, panes, minted, printed, unheard>> /\ attached' \subseteq attached
      /\ \A r \in DOMAIN runtimes' : r \in DOMAIN runtimes /\ runtimes'[r] = runtimes[r]
  BY DEF RefreshInventory, CommandRefused, NoDaemon, Takes, daemon, hearing
<1>2. PICK link \in {"up", "lost"} : Done(i, link, tracked, <<>>)
  BY DEF RefreshInventory, CommandRefused, NoDaemon
<1>3. ASSUME NEW e, Mute(e), Emit(i, <<e>>) PROVE Works
  <2> DEFINE list == <<e>>
  <2>1. IsSeq(list) /\ (\A n \in DOMAIN list : list[n] = e) /\ Emit(i, list)
    BY <1>3, OneSaid
  <2> HIDE DEF list
  <2>2. \A n \in DOMAIN list : Mute(list[n])
    BY <1>3, <2>1
  <2>3. link = "none" => actors[i].link = "none"
    BY <1>2
  <2> HIDE DEF c, tracked
  <2>5. \A w \in DOMAIN tracked : w \in DOMAIN actors[i].tracked /\ tracked[w] = actors[i].tracked[w]
    BY DEF tracked
  <2>6. c = Head(actors[i].queue) /\ (c.kind = "forget" => c.ws \notin DOMAIN tracked)
    BY <1>1 DEF c
  <2> QED BY <1>1, <1>2, <2>1, <2>2, <2>3, <2>5, <2>6, MuteWorks
<1>4. CASE RefreshInventory(i)
  <2> DEFINE e == [Event("inventory", None) EXCEPT !.stock = runtimes]
  <2>1. Mute(e) /\ Emit(i, <<e>>)
    BY <1>4 DEF RefreshInventory, Event, Mute, IsNews
  <2> HIDE DEF e
  <2> QED BY <1>3, <2>1
<1>5. CASE CommandRefused(i) \/ NoDaemon(i)
  <2>1. PICK status : Emit(i, <<Changed(c.ws, status)>>)
    BY <1>5 DEF CommandRefused, NoDaemon
  <2> DEFINE e == Changed(c.ws, status)
  <2>2. Mute(e) /\ Emit(i, <<e>>)
    BY <2>1 DEF Changed, Event, Mute, IsNews
  <2> HIDE DEF e
  <2> QED BY <1>3, <2>2
<1> QED BY <1>4, <1>5

\* An actor that has ended was replaced before (daemon_bridge.rs:298).
LEMMA ForgetOrShutdownWorks ==
  ASSUME WindowInv, Laid, Tracking, Idle, Parted, NEW i \in DOMAIN actors, ForgetOrShutdown(i)
  PROVE  Works
<1> DEFINE q == actors[i].queue
           c == Head(q)
           list == <<>>
<1>0. Shape /\ Actors /\ Upto \in Nat
  BY PanesAreUpto DEF WindowInv, Shape
<1>1. /\ q # <<>> /\ c.kind \in {"forget", "shutdown"}
      /\ IF c.kind = "shutdown" THEN actors' = [actors EXCEPT ![i] = Ended]
         ELSE Done(i, actors[i].link, Without(actors[i].tracked, {c.ws}), <<>>)
      /\ UNCHANGED <<untouched, panes, minted, printed, unheard, runtimes>> /\ attached' \subseteq attached /\ events' = events
      /\ UNCHANGED <<untouched, panes, minted>>
  BY DEF ForgetOrShutdown, Takes, Disconnect
<1>2. IsSeq(list) /\ Emit(None, list) /\ (\A n \in DOMAIN list : Mute(list[n]))
  BY <1>0, <1>1, EmitNone, ShortSeqs
<1> HIDE DEF list
<1>3. CASE c.kind = "forget"
  <2> DEFINE tracked == Without(actors[i].tracked, {c.ws})
             link == actors[i].link
  <2>1. /\ \A w \in DOMAIN tracked : w \in DOMAIN actors[i].tracked /\ tracked[w] = actors[i].tracked[w]
        /\ c.ws \notin DOMAIN tracked
    BY DEF Without, Restrict
  <2>2. Done(i, link, tracked, <<>>)
    BY <1>1, <1>3
  <2>3. \A r \in DOMAIN runtimes' : r \in DOMAIN runtimes /\ runtimes'[r] = runtimes[r]
    BY <1>1
  <2>4. link = "none" => actors[i].link = "none"
    OBVIOUS
  <2> HIDE DEF tracked, link, c
  <2> QED BY <1>1, <1>2, <2>1, <2>2, <2>3, <2>4, MuteWorks DEF c
<1>4. CASE c.kind = "shutdown"
  <2>1. IsSeq(q) /\ (i = Len(actors) => Orderly(q, DOMAIN workspaces))
    BY <1>0, InUseIs DEF Tracking, Reopened, Actors, IsActor
  <2>2. i # Len(actors)
    <3>1. c = q[1] /\ 1 \in DOMAIN q
      BY <1>1, <2>1, SeqFacts, TailIsSeq
    <3> QED BY <1>4, <2>1, <3>1 DEF Orderly
  <2>3. IsActor(Ended) /\ ToSet(Ended.queue) = {} /\ actors' = [actors EXCEPT ![i] = Ended]
    BY <1>1, <1>4, ShortSeqs DEF Ended, IsActor
  <2>4. Len(actors') = Len(actors) /\ \A x \in Queued' : x \in Queued
    BY <1>0, <2>3, ActorChanges
  <2>5. InUse' = InUse
    BY <1>0, <2>2, <2>3, <2>4, InUseIs DEF InUse, Last
  <2>6. UNCHANGED <<life, workspaces>>
    BY <1>1 DEF untouched, screen
  <2>7. \A more : Attends(more)
    BY <2>5, <2>6 DEF Attends, Settled, Idle, Parted
  <2>8. \A r \in DOMAIN runtimes' : r \in DOMAIN runtimes /\ runtimes'[r] = runtimes[r]
    BY <1>1
  <2>9. PICK more : Reports(more)
    BY <1>0, <1>1, <1>2, <2>8, MuteReports
  <2>10. Prints(more) /\ Attunes
    BY <1>1, FewerAttune DEF Prints
  <2> QED BY <2>4, <2>7, <2>9, <2>10 DEF Works, Serves
<1> QED BY <1>1, <1>3, <1>4

\* ClosePane (daemon_bridge.rs:1033): the pane goes, and it is told.
LEMMA RemovePaneWorks ==
  ASSUME WindowInv, Laid, Tracking, Idle, Parted, Supply, NEW i \in DOMAIN actors, RemovePane(i)
  PROVE  Works
<1>c. PICK c, r : c = Head(actors[i].queue) /\ r = c.runtime
  OBVIOUS
<1> DEFINE e == [Event("closed", c.ws) EXCEPT !.runtime = r, !.at = c.at]
           list == <<e>>
           none == <<>>
           tracked == actors[i].tracked
<1>0. Shape /\ Actors /\ InFlight /\ Upto \in Nat
  BY PanesAreUpto DEF WindowInv, Shape
<1>1. /\ actors[i].queue # <<>> /\ c.kind = "close" /\ Connects(i) /\ r \in DOMAIN runtimes
      /\ runtimes' = [runtimes EXCEPT ![r] = RemoveLeaf(@, c.at)]
      /\ Done(i, "up", tracked, none) /\ Emit(i, list)
      /\ UNCHANGED <<untouched, printed, unheard, attached, minted, panes, life, workspaces>>
  BY <1>c DEF RemovePane, Takes, hearing, untouched, screen
<1>2. IsNews(e) /\ e.kind = "closed" /\ e.runtime = r /\ e.at = c.at
  BY DEF Event, IsNews
<1> HIDE DEF e
<1>3. IsSeq(list) /\ DOMAIN list = {1} /\ list[1] = e
  BY OneSaid
<1>4. c \in Queued
  BY <1>0, <1>1, <1>c, TakenIsCommand
<1>5. IsSeq(none) /\ ToSet(none) = {}
  BY ShortSeqs
<1> HIDE DEF list, none, tracked
<1>6. c.at \in 0..Upto
  BY <1>4 DEF Supply, Fitting, Fit
<1>7. /\ DOMAIN runtimes' = DOMAIN runtimes
      /\ \A x \in DOMAIN runtimes : x # r => PanesOf(x)' = PanesOf(x)
      /\ PanesOf(r)' = PanesOf(r) \ {c.at}
  <2>1. IsLayout(runtimes[r], Upto)
    BY <1>1 DEF Laid
  <2>2. ToSet(RemoveLeaf(runtimes[r], c.at)) = ToSet(runtimes[r]) \ {c.at}
    BY <2>1, RemovedIsLayout
  <2> QED BY <1>1, <2>2 DEF PanesOf
<1>8. minted'.terminals \in Nat /\ Upto <= minted'.terminals /\ minted'.terminals = Upto
  BY <1>0, <1>1 DEF Upto
<1>9. \A n \in DOMAIN list : Exact(list[n], runtimes', printed', minted'.terminals)
  BY <1>2, <1>3, <1>6, <1>7, <1>8 DEF Exact, PanesOf
<1>10. /\ \A x \in DOMAIN runtimes' : x \in DOMAIN runtimes
       /\ \A x \in DOMAIN runtimes \cap DOMAIN runtimes' : ~Grows(x)
       /\ \A x \in DOMAIN runtimes \cap DOMAIN runtimes' :
            /\ \A p \in PanesOf(x)' \ PanesOf(x) : FALSE
            /\ \A t \in PanesOf(x) \ PanesOf(x)' : \E n \in DOMAIN list : Closes(list[n], t)
  BY <1>2, <1>3, <1>7 DEF Grows, Closes
<1>11. \A n \in DOMAIN list : IsNews(list[n])
  BY <1>2, <1>3
<1>12. PICK more : Reports(more)
  BY <1>0, <1>1, <1>3, <1>8, <1>9, <1>10, <1>11, EmitReports
<1>13. Attends(more)
  <2>1. \A w \in DOMAIN tracked : w \in DOMAIN actors[i].tracked /\ tracked[w] = actors[i].tracked[w]
    BY DEF tracked
  <2> QED BY <1>1, <1>5, <1>c, <2>1, DoneAttends
<1>14. Prints(more) /\ Attunes
  BY <1>1, FewerAttune DEF Prints
<1>15. \A x \in Queued' : x \in Queued
  BY <1>0, <1>1, <1>5, DoneAdds
<1> QED BY <1>12, <1>13, <1>14, <1>15 DEF Works, Serves

\* OpenWorkspace (daemon_bridge.rs:776): it tells of the tree of the runtime, which it tracks from now on.
LEMMA OpenRuntimeWorks ==
  ASSUME WindowInv, Laid, Tracking, Idle, Parted, Supply, Wired, NEW i \in DOMAIN actors, OpenRuntime(i)
  PROVE  Works
<1>0. Shape /\ Actors /\ InFlight /\ Numbered /\ Upto \in Nat
  BY PanesAreUpto DEF WindowInv, Shape
<1>1. PICK c, r, leaves, status, e, more, tracked :
        /\ c = Head(actors[i].queue) /\ actors[i].queue # <<>> /\ c.kind = "open" /\ Connects(i)
        /\ tracked = With(actors[i].tracked, c.ws, r) /\ Done(i, "up", tracked, more)
        /\ more = <<>> \/ (leaves = <<>> /\ more = <<Command("create", c.ws, r, None, c.at)>>)
        /\ e = Opened(c.ws, r, leaves, status) /\ Emit(i, <<e>>)
        /\ \/ /\ r = minted.runtimes + 1 /\ leaves = <<>> /\ Mint("runtimes") /\ runtimes' = With(runtimes, r, <<>>)
           \/ /\ r \in DOMAIN runtimes /\ leaves = runtimes[r] /\ UNCHANGED <<minted, runtimes>>
        /\ UNCHANGED <<untouched, printed, panes>> /\ Attach(i, {r}, {})
  BY DEF OpenRuntime, Takes, Newest
<1>2. /\ UNCHANGED <<untouched, panes>> /\ UNCHANGED <<life, workspaces>> /\ printed' = printed
      /\ Upto' = Upto /\ minted'.terminals = Upto
  <2>1. minted \in [workspaces : 0..MaxWorkspaces, runtimes : 0..MaxRuntimes, terminals : Nat]
    BY <1>0 DEF Shape
  <2>2. minted' = minted \/ minted' = [minted EXCEPT !["runtimes"] = @ + 1]
    BY <1>1 DEF Mint
  <2> QED BY <1>1, <2>1, <2>2 DEF untouched, screen, Upto
<1>3. /\ IsNews(e) /\ e.kind = "opened" /\ e.ws = c.ws /\ e.runtime = r
      /\ e.panes = leaves /\ e.prints = printed \cap ToSet(leaves)
  BY <1>1 DEF Opened, Event, IsNews
<1>4. /\ r \in DOMAIN runtimes' /\ runtimes'[r] = leaves
      /\ DOMAIN runtimes \subseteq DOMAIN runtimes'
      /\ \A x \in DOMAIN runtimes : runtimes'[x] = runtimes[x]
      /\ \A x \in DOMAIN runtimes' : x \in DOMAIN runtimes \/ (x \notin Known \cup {None} /\ runtimes'[x] = <<>>)
  <2>1. CASE r = minted.runtimes + 1 /\ leaves = <<>> /\ runtimes' = With(runtimes, r, <<>>)
    <3>1. minted.runtimes \in Nat
      BY <1>0 DEF Shape
    <3>2. r \notin Known \cup {None}
      BY <2>1, <3>1 DEF Known, None
    <3>3. r \notin DOMAIN runtimes
      BY <1>0, <3>2 DEF Numbered
    <3> QED BY <2>1, <3>2, <3>3 DEF With
  <2>2. CASE r \in DOMAIN runtimes /\ leaves = runtimes[r] /\ runtimes' = runtimes
    BY <2>2
  <2> QED BY <1>1, <2>1, <2>2
<1> DEFINE list == <<e>>
<1>5. IsSeq(list) /\ DOMAIN list = {1} /\ list[1] = e /\ Emit(i, list)
  BY <1>1, OneSaid
<1> HIDE DEF list
<1>6. \A n \in DOMAIN list : IsNews(list[n]) /\ Exact(list[n], runtimes', printed', minted'.terminals)
  BY <1>2, <1>3, <1>4, <1>5 DEF Exact
<1>7. \A x \in DOMAIN runtimes \cap DOMAIN runtimes' : PanesOf(x)' = PanesOf(x) /\ ~Grows(x)
  BY <1>4 DEF PanesOf, Grows
<1>8. minted'.terminals \in Nat /\ Upto <= minted'.terminals
  BY <1>0, <1>2
<1>9. PICK told : /\ Reports(told)
                  /\ life = "up" => \A n \in DOMAIN list : \E x \in ToSet(told) : SameNews(x, list[n])
  BY <1>0, <1>2, <1>4, <1>5, <1>6, <1>7, <1>8, EmitReports
<1>10. ASSUME life = "up" PROVE \E x \in ToSet(told) : Reopens(x, c.ws) /\ x.runtime = r
  <2>1. PICK x \in ToSet(told) : SameNews(x, e)
    BY <1>5, <1>9, <1>10
  <2> QED BY <1>3, <2>1 DEF SameNews, Reopens
<1>11. c \in Queued
  BY <1>0, <1>1, TakenIsCommand
<1>12. IsSeq(more) /\ \A x \in ToSet(more) : leaves = <<>> /\ x = Command("create", c.ws, r, None, c.at)
  <2>1. CASE more = <<>>
    BY <2>1, ShortSeqs
  <2>2. CASE leaves = <<>> /\ more = <<Command("create", c.ws, r, None, c.at)>>
    <3> DEFINE x == Command("create", c.ws, r, None, c.at)
    <3>1. more = <<x>>
      BY <2>2
    <3> HIDE DEF x
    <3>2. IsSeq(more) /\ ToSet(more) = {x}
      BY <3>1, ShortSeqs
    <3> QED BY <2>2, <3>2 DEF x
  <2> QED BY <1>1, <2>1, <2>2
<1>13. Attends(told)
  <2> DEFINE link == "up"
  <2>1. \A w \in DOMAIN tracked :
          \/ w \in DOMAIN actors[i].tracked /\ tracked[w] = actors[i].tracked[w]
          \/ c.ws = w /\ tracked[w] = r
    BY <1>1 DEF With
  <2>2. /\ Done(i, link, tracked, more) /\ link # "none" /\ link = "up"
        /\ c = Head(actors[i].queue) /\ actors[i].queue # <<>> /\ c.kind = "open"
    BY <1>1
  <2> HIDE DEF link
  <2>3. \A w \in DOMAIN tracked :
          \/ w \in DOMAIN actors[i].tracked /\ tracked[w] = actors[i].tracked[w]
          \/ /\ c.kind = "open" /\ c.ws = w /\ link = "up"
             /\ life = "up" => \E x \in ToSet(told) : Reopens(x, w) /\ x.runtime = tracked[w]
    BY <1>10, <2>1, <2>2
  <2>4. \A x \in ToSet(more) : x.kind \notin {"open", "forget"}
    BY <1>12 DEF Command
  <2> QED BY <1>2, <1>12, <2>2, <2>3, <2>4, DoneAttends
<1>14. Prints(told)
  <2>1. ASSUME life = "up", NEW p \in unheard \ unheard' PROVE \E x \in ToSet(told) : Feeds(x, p)
    <3>1. r \in DOMAIN runtimes /\ p \in ToSet(runtimes[r]) /\ p \in printed
      BY <1>1, <2>1 DEF Attach, PanesAt, Wired
    <3>2. p \in e.prints
      BY <1>3, <1>4, <3>1
    <3>3. PICK x \in ToSet(told) : SameNews(x, e)
      BY <1>5, <1>9, <2>1
    <3> QED BY <1>3, <3>2, <3>3 DEF SameNews, Feeds
  <2> QED BY <1>2, <2>1 DEF Prints
<1>16. Attunes
  <2>1. ASSUME NEW p \in PanesOf(r)' PROVE p \in PanesAt({r})
    <3>1. p \in ToSet(leaves)
      BY <1>4 DEF PanesOf
    <3>2. r \in DOMAIN runtimes /\ p \in ToSet(runtimes[r])
      BY <1>1, <3>1, ShortSeqs
    <3> QED BY <3>2 DEF PanesAt
  <2> QED BY <1>1, <2>1, AttachAttunes
<1>15. ASSUME NEW x \in Queued', x \notin Queued PROVE Fit(x)'
  <2>1. x \in ToSet(more)
    BY <1>0, <1>1, <1>12, <1>15, DoneAdds
  <2>2. leaves = <<>> /\ x.at = None /\ x.new = c.at /\ x.runtime = r
    BY <1>12, <2>1 DEF Command
  <2>3. c.at \in 0..Upto
    BY <1>11 DEF Supply, Fitting, Fit
  <2>4. ToSet(runtimes'[r]) = {}
    BY <1>4, <2>2, ShortSeqs
  <2> QED BY <1>0, <1>2, <2>2, <2>3, <2>4 DEF Fit, Alive, PanesOf, None
<1> QED BY <1>9, <1>13, <1>14, <1>15, <1>16 DEF Works, Serves

\* CreatePane and SplitPane (daemon_bridge.rs:899): the new pane is told of, after what it printed.
LEMMA AddPaneWorks ==
  ASSUME WindowInv, Laid, Tracking, Idle, Parted, Supply, Wired, NEW i \in DOMAIN actors, AddPane(i)
  PROVE  Works
<1>0. Shape /\ Actors /\ InFlight /\ Numbered /\ Upto \in Nat
  BY PanesAreUpto DEF WindowInv, Shape
<1>k. PICK kind \in {"create", "split"}, early \in BOOLEAN :
        LET c == Head(actors[i].queue)
            p == Newest("terminals")
        IN /\ Takes(i, kind) /\ Connects(i)
           /\ c.runtime \in DOMAIN runtimes /\ (kind = "split" => Contains(runtimes[c.runtime], c.at))
           /\ Mint("terminals")
           /\ runtimes' = [runtimes EXCEPT ![c.runtime] =
                             IF kind = "split" THEN SplitLeaf(runtimes[c.runtime], c.at, p)
                             ELSE Append(runtimes[c.runtime], p)]
           /\ printed' = printed \cup (IF early THEN {p} ELSE {})
           /\ Done(i, "up", actors[i].tracked, <<>>)
           /\ Emit(IF c.ws \in DOMAIN actors[i].tracked THEN i ELSE None,
                   (IF early THEN Deltas(c.runtime, p) ELSE <<>>) \o <<Created(c, p)>>)
           /\ Unheard(c.runtime, IF early THEN {p} ELSE {}) /\ attached' = attached
           /\ UNCHANGED <<untouched, panes>>
  BY DEF AddPane
<1>c. PICK c, p, none, tracked, from :
        /\ c = Head(actors[i].queue) /\ p = Newest("terminals") /\ none = <<>> /\ tracked = actors[i].tracked
        /\ from = IF c.ws \in DOMAIN actors[i].tracked THEN i ELSE None
  OBVIOUS
<1>d. PICK r, d, e, ds : r = c.runtime /\ d = Delta(p) /\ e = Created(c, p) /\ ds = Deltas(r, p)
  OBVIOUS
<1>1. /\ actors[i].queue # <<>> /\ c.kind = kind /\ Connects(i)
      /\ r \in DOMAIN runtimes /\ (kind = "split" => Contains(runtimes[r], c.at))
      /\ Mint("terminals")
      /\ runtimes' = [runtimes EXCEPT ![r] =
                        IF kind = "split" THEN SplitLeaf(runtimes[r], c.at, p) ELSE Append(runtimes[r], p)]
      /\ printed' = printed \cup (IF early THEN {p} ELSE {})
      /\ Done(i, "up", tracked, none)
      /\ Emit(from, (IF early THEN ds ELSE <<>>) \o <<e>>)
      /\ UNCHANGED <<untouched, panes>>
      /\ Unheard(r, IF early THEN {p} ELSE {}) /\ attached' = attached
  BY <1>k, <1>c, <1>d DEF Takes
<1>2. /\ UNCHANGED <<life, workspaces>>
      /\ p = Upto + 1 /\ minted'.terminals = p /\ p \in Nat /\ p > Upto /\ Upto <= minted'.terminals /\ p \in 1..p
  <2>1. minted.terminals < MaxTerminals /\ minted' = [minted EXCEPT !.terminals = @ + 1]
    BY <1>1 DEF Mint
  <2>2. DOMAIN minted = {"workspaces", "runtimes", "terminals"}
    BY <1>0 DEF Shape
  <2> QED BY <1>0, <1>1, <1>c, <2>1, <2>2 DEF Upto, Newest, untouched, screen
<1>3. IsNews(d) /\ d.kind = "delta" /\ d.pane = p
  BY <1>d DEF Delta, Event, IsNews
<1>4. IsNews(e) /\ e.kind = "created" /\ e.runtime = r /\ e.at = c.new /\ e.pane = p
  BY <1>d DEF Created, Event, IsNews
<1>5. PICK list : /\ IsSeq(list) /\ Emit(from, list) /\ \A n \in DOMAIN list : list[n] \in {d, e}
                  /\ \E n \in DOMAIN list : list[n] = e
                  /\ early /\ Viewers(r) # {} => \E n \in DOMAIN list : list[n] = d
  <2> DEFINE list == (IF early THEN ds ELSE <<>>) \o <<e>>
  <2>0. /\ IsSeq(ds) /\ ToSet(ds) \subseteq {d}
        /\ Viewers(r) # {} => d \in ToSet(ds)
    <3>1. /\ IsSeq(ds) /\ \A n \in DOMAIN ds : ds[n] = d
          /\ \A x \in ToSet(ds) : x = d
          /\ Viewers(r) # {} => \E n \in DOMAIN ds : TRUE
      BY <1>0, <1>d, DeltasAre
    <3> QED BY <3>1 DEF ToSet
  <2>1. IsSeq(<<>>) /\ IsSeq(<<e>>) /\ ToSet(<<>>) = {} /\ ToSet(<<e>>) = {e}
    BY ShortSeqs
  <2>2. IsSeq(list) /\ ToSet(list) = (IF early THEN ToSet(ds) ELSE {}) \cup {e}
    <3>1. CASE early
      BY <2>0, <2>1, <3>1, ConcatIsSeq
    <3>2. CASE ~early
      BY <2>1, <3>2, ConcatIsSeq
    <3> QED BY <3>1, <3>2
  <2>3. Emit(from, list)
    BY <1>1
  <2> HIDE DEF list
  <2> QED BY <2>0, <2>2, <2>3, SeqFacts
<1>6. c \in Queued
  BY <1>0, <1>1, <1>c, TakenIsCommand
<1>7. c.new \in 0..Upto /\ c.new \notin PanesOf(r)
  BY <1>1, <1>6, <1>d DEF Supply, Fitting, Fit, Alive
<1>8. /\ DOMAIN runtimes' = DOMAIN runtimes
      /\ \A x \in DOMAIN runtimes : x # r => PanesOf(x)' = PanesOf(x)
      /\ PanesOf(r)' = PanesOf(r) \cup {p}
  <2>1. IsLayout(runtimes[r], Upto) /\ Upto <= p
    BY <1>0, <1>1, <1>2 DEF Laid
  <2>2. IsLayout(runtimes[r], p) /\ p \notin ToSet(runtimes[r])
    <3>1. ToSet(runtimes[r]) \subseteq 1..Upto
      BY <2>1, LayoutIs
    <3> QED BY <1>0, <1>2, <2>1, <3>1, LayoutsLast
  <2>3. kind = "split" => ToSet(SplitLeaf(runtimes[r], c.at, p)) = ToSet(runtimes[r]) \cup {p}
    <3>1. kind = "split" => c.at \in ToSet(runtimes[r])
      BY <1>1 DEF Contains, ToSet
    <3> QED BY <1>2, <2>2, <3>1, SplitIsLayout
  <2>4. ToSet(Append(runtimes[r], p)) = ToSet(runtimes[r]) \cup {p}
    <3>1. /\ IsSeq(runtimes[r]) /\ IsSeq(<<p>>) /\ ToSet(<<p>>) = {p}
      BY <2>1, LayoutIs, ShortSeqs
    <3>2. Append(runtimes[r], p) = runtimes[r] \o <<p>>
      BY <3>1, AppendIsConcat DEF IsSeq
    <3> QED BY <3>1, <3>2, ConcatIsSeq
  <2> QED BY <1>1, <2>3, <2>4 DEF PanesOf
<1>9. Exact(e, runtimes', printed', minted'.terminals) /\ Exact(d, runtimes', printed', minted'.terminals)
  <2>1. e.at \in 0..p /\ e.at # p
    BY <1>0, <1>2, <1>4, <1>7
  <2> QED BY <1>2, <1>3, <1>4, <1>7, <1>8, <2>1 DEF Exact, PanesOf
<1>10. \A n \in DOMAIN list : IsNews(list[n]) /\ Exact(list[n], runtimes', printed', minted'.terminals)
  BY <1>3, <1>4, <1>5, <1>9
<1>11. /\ \A x \in DOMAIN runtimes' : x \in DOMAIN runtimes
       /\ \A x, y \in DOMAIN runtimes \cap DOMAIN runtimes' : Grows(x) /\ Grows(y) => x = y
       /\ \A x \in DOMAIN runtimes \cap DOMAIN runtimes' :
            /\ \A t \in PanesOf(x)' \ PanesOf(x) : t = p
            /\ PanesOf(x) \ PanesOf(x)' = {}
  BY <1>8 DEF Grows
<1>12. \E n \in DOMAIN list : Creates(list[n], p)
  BY <1>4, <1>5 DEF Creates
<1>13. /\ minted'.terminals \in Nat /\ Upto <= minted'.terminals
       /\ \A x \in DOMAIN runtimes \cap DOMAIN runtimes' :
            /\ \A t \in PanesOf(x)' \ PanesOf(x) : t \in Nat /\ t > Upto /\ \E n \in DOMAIN list : Creates(list[n], t)
            /\ \A t \in PanesOf(x) \ PanesOf(x)' : \E n \in DOMAIN list : Closes(list[n], t)
  BY <1>2, <1>11, <1>12
<1>14. PICK more : /\ Reports(more)
                   /\ life = "up" => \A n \in DOMAIN list : \E x \in ToSet(more) : SameNews(x, list[n])
  BY <1>0, <1>1, <1>5, <1>10, <1>11, <1>13, EmitReports
<1>15. IsSeq(none) /\ ToSet(none) = {}
  BY <1>c, ShortSeqs
<1>16. Attends(more)
  <2> DEFINE link == "up"
  <2>1. /\ Done(i, link, tracked, none) /\ link # "none"
        /\ c = Head(actors[i].queue) /\ actors[i].queue # <<>> /\ c.kind \notin {"forget", "open"}
        /\ \A w \in DOMAIN tracked : w \in DOMAIN actors[i].tracked /\ tracked[w] = actors[i].tracked[w]
    BY <1>1, <1>c
  <2> HIDE DEF link
  <2> QED BY <1>2, <1>15, <2>1, DoneAttends
<1>17. Prints(more)
  <2>1. printed \subseteq printed' /\ (printed' \ printed # {} => early /\ printed' \ printed = {p})
    BY <1>1
  <2>2. ASSUME life = "up", early, Viewers(r) # {} PROVE \E x \in ToSet(more) : Feeds(x, p)
    <3>1. PICK x \in ToSet(more) : SameNews(x, d)
      BY <1>5, <1>14, <2>2
    <3> QED BY <1>3, <3>1 DEF SameNews, Feeds
  <2>3. unheard \subseteq unheard' /\ (early /\ Viewers(r) = {} => p \in unheard')
    BY <1>1 DEF Unheard
  <2> QED BY <2>1, <2>2, <2>3 DEF Prints
<1>19. Attunes
  <2>1. ASSUME NEW x \in attached, x[2] \in DOMAIN runtimes, NEW t \in unheard' \ unheard, t \in PanesOf(x[2])' PROVE FALSE
    <3>1. t = p /\ Viewers(r) = {}
      BY <1>1, <2>1 DEF Unheard
    <3>2. x[2] = r
      BY <1>0, <1>2, <1>8, <2>1, <3>1, PanesAreUpto
    <3> QED BY <3>1, <3>2, ViewersAre
  <2>2. \A q : Alive(q)' <=> q \in DOMAIN runtimes
    BY <1>8 DEF Alive
  <2> QED BY <1>1, <2>1, <2>2 DEF Attunes
<1>18. \A x \in Queued' : x \in Queued
  BY <1>0, <1>1, <1>15, DoneAdds
<1> QED BY <1>14, <1>16, <1>17, <1>18, <1>19 DEF Works, Serves

\* An actor of which only the link changes.
LEMMA LinkAttends ==
  ASSUME WindowInv, Idle, Parted, NEW i \in DOMAIN actors, NEW link, actors' = [actors EXCEPT ![i].link = link],
         UNCHANGED <<life, workspaces>>, NEW more,
         link = "none" => DOMAIN actors[i].tracked = {}
  PROVE  Attends(more) /\ \A c \in Queued' : c \in Queued
<1> DEFINE a == [actors[i] EXCEPT !.link = link]
<1>0. Shape /\ Actors
  BY DEF WindowInv, Shape
<1>1. IsActor(actors[i])
  BY <1>0 DEF Actors
<1>2. a.queue = actors[i].queue /\ a.tracked = actors[i].tracked /\ a.link = link /\ DOMAIN a = DOMAIN actors[i]
  BY <1>1 DEF IsActor
<1>3. IsActor(a) /\ actors' = [actors EXCEPT ![i] = a] /\ ToSet(a.queue) \subseteq ToSet(actors[i].queue) \cup {}
  BY <1>1, <1>2 DEF IsActor
<1> HIDE DEF a
<1>4. Len(actors') = Len(actors) /\ \A c \in Queued' : c \in Queued
  BY <1>0, <1>3, ActorChanges
<1>5. InUse' = actors'[Len(actors)] /\ InUse = actors[Len(actors)] /\ Len(actors) \in DOMAIN actors
  BY <1>0, <1>4, InUseIs DEF InUse, Last
<1>6. CASE i # Len(actors)
  <2>1. InUse' = InUse
    BY <1>3, <1>5, <1>6
  <2> QED BY <1>4, <2>1 DEF Attends, Settled, Idle, Parted
<1>7. CASE i = Len(actors)
  <2>1. /\ InUse'.queue = InUse.queue /\ InUse'.tracked = InUse.tracked /\ InUse'.link = link
        /\ InUse.tracked = actors[i].tracked
    BY <1>2, <1>3, <1>5, <1>7
  <2>2. \A w : Settled(w)' <=> Settled(w)
    BY <2>1 DEF Settled, SettledAt
  <2>3. Idle'
    BY <2>1 DEF Idle
  <2>4. Parted'
    BY <2>1, <2>2 DEF Parted, PartedFrom, Settled
  <2>5. \A w : Settled(w)' => Settled(w) /\ InUse'.tracked[w] = InUse.tracked[w]
    BY <2>1, <2>2
  <2> QED BY <1>4, <2>3, <2>4, <2>5 DEF Attends
<1> QED BY <1>6, <1>7

\* What is told of a lost connection is of no pane.
LEMMA LostAreMute ==
  ASSUME Shape, InFlight, NEW i \in DOMAIN actors
  PROVE  IsSeq(Lost(i)) /\ \A n \in DOMAIN Lost(i) : Mute(Lost(i)[n])
<1> DEFINE list == Lost(i)
<1>1. IsSeq(list) /\ \A n \in DOMAIN list : \E w \in DOMAIN actors[i].tracked : list[n] = Changed(w, "waiting")
  BY LostAre
<1> HIDE DEF list
<1>2. ASSUME NEW n \in DOMAIN list PROVE Mute(list[n])
  <2>1. PICK w \in DOMAIN actors[i].tracked : list[n] = Changed(w, "waiting")
    BY <1>1
  <2> DEFINE e == Changed(w, "waiting")
  <2>2. Mute(e) /\ list[n] = e
    BY <2>1 DEF Changed, Event, Mute, IsNews
  <2> HIDE DEF e
  <2> QED BY <2>2
<1> QED BY <1>1, <1>2 DEF list

\* A lost connection (daemon_bridge.rs:1993).
LEMMA LinkLostWorks ==
  ASSUME WindowInv, Laid, Idle, Parted, NEW i \in DOMAIN actors, LinkLost(i)
  PROVE  Works
<1>0. Shape /\ InFlight /\ Upto \in Nat
  BY PanesAreUpto DEF WindowInv
<1> DEFINE list == Lost(i)
<1>1. PICK link :
        /\ link = (IF actors[i].tracked = <<>> THEN "none" ELSE "lost")
        /\ actors' = [actors EXCEPT ![i].link = link]
        /\ Emit(i, list) /\ UNCHANGED <<untouched, runtimes, printed, unheard, minted, panes>> /\ attached' \subseteq attached
  BY DEF LinkLost, Disconnect
<1>2. IsSeq(list) /\ \A n \in DOMAIN list : Mute(list[n])
  BY <1>0, LostAreMute
<1> HIDE DEF list
<1>3. UNCHANGED <<untouched, panes, minted>> /\ UNCHANGED <<life, workspaces>>
      /\ \A r \in DOMAIN runtimes' : r \in DOMAIN runtimes /\ runtimes'[r] = runtimes[r]
  BY <1>1 DEF untouched, screen
<1>4. PICK more : Reports(more)
  BY <1>0, <1>1, <1>2, <1>3, MuteReports
<1>5. link = "none" => DOMAIN actors[i].tracked = {}
  BY <1>1
<1>6. Attends(more) /\ \A c \in Queued' : c \in Queued
  BY <1>1, <1>3, <1>5, LinkAttends
<1>7. Prints(more) /\ Attunes
  BY <1>1, FewerAttune DEF Prints
<1> QED BY <1>4, <1>6, <1>7 DEF Works, Serves

\* What is told of a reconnect: the trees the daemon has, with what their panes have printed, and nothing that
\* is not so.
LEMMA RepliesTell ==
  ASSUME Shape, InFlight, NEW i \in DOMAIN actors, NEW ws \in SUBSET DOMAIN actors[i].tracked, NEW refused,
         UNCHANGED <<runtimes, printed>>, NEW last
  PROVE  LET list == Replies(i, ws, refused)
         IN /\ IsSeq(list)
            /\ \A n \in DOMAIN list : IsNews(list[n]) /\ Exact(list[n], runtimes', printed', last)
            /\ \A w \in ws \ refused : actors[i].tracked[w] \in DOMAIN runtimes =>
                 \E n \in DOMAIN list : /\ list[n].kind = "opened"
                                        /\ list[n].prints = printed \cap ToSet(runtimes[actors[i].tracked[w]])
<1> DEFINE list == Replies(i, ws, refused)
           tracked == actors[i].tracked
<1>1. /\ IsSeq(list)
      /\ \A n \in DOMAIN list : \E w \in ws : IsReply(list[n], w, tracked[w], refused)
      /\ \A w \in ws : \E n \in DOMAIN list : IsReply(list[n], w, tracked[w], refused)
  BY RepliesAre
<1> HIDE DEF list
<1>2. ASSUME NEW e, NEW w, NEW r, IsReply(e, w, r, refused)
      PROVE  /\ IsNews(e) /\ Exact(e, runtimes, printed, last)
             /\ r \in DOMAIN runtimes /\ w \notin refused => e.kind = "opened" /\ e.prints = printed \cap ToSet(runtimes[r])
  <2>1. CASE r \in DOMAIN runtimes /\ w \notin refused
    <3>1. e = Opened(w, r, runtimes[r], "live")
      BY <1>2, <2>1 DEF IsReply
    <3>2. /\ IsNews(e) /\ e.kind = "opened" /\ e.runtime = r /\ e.panes = runtimes[r]
          /\ e.prints = printed \cap ToSet(runtimes[r])
      BY <3>1 DEF Opened, Event, IsNews
    <3> QED BY <3>2 DEF Exact
  <2>2. CASE ~(r \in DOMAIN runtimes /\ w \notin refused)
    <3>1. e = Changed(w, "missing") \/ e = Changed(w, "blocked")
      BY <1>2, <2>2 DEF IsReply
    <3>2. IsNews(e) /\ e.kind = "status"
      BY <3>1 DEF Changed, Event, IsNews
    <3> QED BY <2>2, <3>2 DEF Exact
  <2> QED BY <2>1, <2>2
<1>3. ASSUME NEW n \in DOMAIN list PROVE IsNews(list[n]) /\ Exact(list[n], runtimes', printed', last)
  <2>1. PICK w \in ws : IsReply(list[n], w, tracked[w], refused)
    BY <1>1
  <2>2. IsNews(list[n]) /\ Exact(list[n], runtimes, printed, last)
    BY <1>2, <2>1
  <2> QED BY <2>2
<1>4. ASSUME NEW w \in ws \ refused, tracked[w] \in DOMAIN runtimes
      PROVE  \E n \in DOMAIN list : list[n].kind = "opened" /\ list[n].prints = printed \cap ToSet(runtimes[tracked[w]])
  BY <1>1, <1>2, <1>4
<1> QED BY <1>1, <1>3, <1>4 DEF list

\* So what is told of a reconnect brings the output of what is attached.
LEMMA RepliesWork ==
  ASSUME WindowInv, Laid, Wired, NEW i \in DOMAIN actors, NEW ws \in SUBSET DOMAIN actors[i].tracked, NEW refused,
         NEW more, IsSeq(more), \A n \in DOMAIN more : Mute(more[n]),
         Emit(i, Replies(i, ws, refused) \o more), UNCHANGED <<untouched, runtimes, printed, minted, panes>>,
         unheard' = unheard \ PanesAt(Reached(i, ws \ refused))
  PROVE  \E told : Reports(told) /\ Prints(told)
<1> DEFINE replies == Replies(i, ws, refused)
           list == replies \o more
<1>0. Shape /\ InFlight /\ Upto \in Nat
  BY PanesAreUpto DEF WindowInv
<1>1. UNCHANGED <<untouched, panes>> /\ printed' = printed /\ runtimes' = runtimes
      /\ minted'.terminals \in Nat /\ Upto <= minted'.terminals
  BY <1>0 DEF Upto
<1>2. /\ IsSeq(replies)
      /\ \A n \in DOMAIN replies : IsNews(replies[n]) /\ Exact(replies[n], runtimes', printed', minted'.terminals)
      /\ \A w \in ws \ refused : actors[i].tracked[w] \in DOMAIN runtimes =>
           \E n \in DOMAIN replies : /\ replies[n].kind = "opened"
                                     /\ replies[n].prints = printed \cap ToSet(runtimes[actors[i].tracked[w]])
  BY <1>0, <1>1, RepliesTell
<1>3. Emit(i, list)
  OBVIOUS
<1> HIDE DEF replies
<1>4. IsSeq(list) /\ ToSet(list) = ToSet(replies) \cup ToSet(more)
  BY <1>2, ConcatIsSeq
<1> HIDE DEF list
<1>5. \A n \in DOMAIN list : IsNews(list[n]) /\ Exact(list[n], runtimes', printed', minted'.terminals)
  <2>1. \A x \in ToSet(replies) : IsNews(x) /\ Exact(x, runtimes', printed', minted'.terminals)
    BY <1>2 DEF ToSet
  <2>2. \A x \in ToSet(more) : IsNews(x) /\ Exact(x, runtimes', printed', minted'.terminals)
    BY DEF ToSet, Mute, Exact
  <2>3. \A n \in DOMAIN list : list[n] \in ToSet(replies) \cup ToSet(more)
    BY <1>4, SeqFacts
  <2> QED BY <2>1, <2>2, <2>3
<1>6. \A x \in DOMAIN runtimes \cap DOMAIN runtimes' : PanesOf(x)' = PanesOf(x) /\ ~Grows(x)
  BY <1>1 DEF PanesOf, Grows
<1>7. PICK told : /\ Reports(told)
                  /\ life = "up" => \A n \in DOMAIN list : \E x \in ToSet(told) : SameNews(x, list[n])
  BY <1>0, <1>1, <1>3, <1>4, <1>5, <1>6, EmitReports
<1>8. ASSUME life = "up", NEW p \in unheard \ unheard' PROVE \E x \in ToSet(told) : Feeds(x, p)
  <2>1. PICK w \in ws \ refused : actors[i].tracked[w] \in DOMAIN runtimes /\ p \in ToSet(runtimes[actors[i].tracked[w]])
    BY <1>8 DEF PanesAt, Reached
  <2>2. PICK n \in DOMAIN replies : /\ replies[n].kind = "opened"
                                    /\ replies[n].prints = printed \cap ToSet(runtimes[actors[i].tracked[w]])
    BY <1>2, <2>1
  <2>3. PICK m \in DOMAIN list : list[m] = replies[n]
    BY <1>2, <1>4, SeqFacts
  <2>4. PICK x \in ToSet(told) : SameNews(x, list[m])
    BY <1>7, <1>8
  <2>5. p \in printed
    BY <1>8 DEF Wired
  <2> QED BY <2>1, <2>2, <2>3, <2>4, <2>5 DEF SameNews, Feeds
<1>9. Prints(told)
  BY <1>1, <1>8 DEF Prints
<1> QED BY <1>7, <1>9

\* A reattach (daemon_bridge.rs:1345) tells of the trees the daemon has; what is refused stays tracked.
LEMMA ReattachWorks ==
  ASSUME WindowInv, Laid, Wired, Idle, Parted, NEW i \in DOMAIN actors, Reattach(i)
  PROVE  Works
<1> DEFINE tracked == DOMAIN actors[i].tracked
           rs(refused) == Reached(i, tracked \ refused)
<1>0. Shape /\ InFlight
  BY DEF WindowInv
<1>1. PICK refused \in SUBSET There(i) :
        Emit(i, Replies(i, tracked, refused)) /\ Attach(i, rs(refused), Reached(i, refused))
  BY DEF Reattach
<1>2. actors' = [actors EXCEPT ![i].link = "up"] /\ UNCHANGED <<untouched, runtimes, printed, minted, panes>>
  BY DEF Reattach
<1>3. unheard' = unheard \ PanesAt(rs(refused))
  BY <1>1 DEF Attach
<1>4. PICK told : Reports(told) /\ Prints(told)
  <2> DEFINE list == Replies(i, tracked, refused)
             none == <<>>
  <2>1. IsSeq(list)
    BY <1>0, RepliesAre
  <2>2. Emit(i, list)
    BY <1>1
  <2> HIDE DEF list
  <2>3. IsSeq(none) /\ DOMAIN none = {} /\ list \o none = list
    <3>1. list \in Seq(ToSet(list))
      BY <2>1 DEF IsSeq
    <3> QED BY <3>1, ConcatEmptySeq, ShortSeqs
  <2>4. Emit(i, list \o none) /\ \A n \in DOMAIN none : Mute(none[n])
    BY <2>2, <2>3
  <2> HIDE DEF none
  <2>5. Emit(i, Replies(i, tracked, refused) \o none)
    BY <2>4 DEF list
  <2> QED BY <1>2, <1>3, <2>3, <2>4, <2>5, RepliesWork
<1>5. UNCHANGED <<life, workspaces>>
  BY <1>2 DEF untouched, screen
<1>6. Attends(told) /\ \A c \in Queued' : c \in Queued
  <2>1. PICK link : link = "up"
    OBVIOUS
  <2>2. actors' = [actors EXCEPT ![i] = [actors[i] EXCEPT !.link = link]] /\ (link = "none" => DOMAIN actors[i].tracked = {})
    BY <1>2, <2>1
  <2> QED BY <1>5, <2>2, LinkAttends
<1>7. Attunes
  <2>1. ASSUME NEW r \in rs(refused), NEW p \in PanesOf(r)' PROVE p \in PanesAt(rs(refused))
    BY <1>2, <2>1 DEF PanesAt, PanesOf, Reached
  <2> QED BY <1>1, <2>1, AttachAttunes
<1> QED BY <1>4, <1>6, <1>7 DEF Works, Serves

\* A reconnect that is lost on the way (daemon_bridge.rs:1405): what it was told it was told.
LEMMA ReattachFailsWorks ==
  ASSUME WindowInv, Laid, Wired, Idle, Parted, NEW i \in DOMAIN actors, ReattachFails(i)
  PROVE  Works
<1> DEFINE lost == Lost(i)
<1>0. Shape /\ InFlight
  BY DEF WindowInv
<1>1. PICK answered \in SUBSET DOMAIN actors[i].tracked, refused \in SUBSET There(i) :
        /\ Emit(i, Replies(i, answered, refused) \o lost)
        /\ unheard' = unheard \ PanesAt(Reached(i, answered \ refused))
  BY DEF ReattachFails
<1>2. UNCHANGED <<untouched, actors, runtimes, printed, attached, minted, panes>>
  BY DEF ReattachFails
<1>3. IsSeq(lost) /\ \A n \in DOMAIN lost : Mute(lost[n])
  BY <1>0, LostAreMute
<1> HIDE DEF lost
<1>4. PICK told : Reports(told) /\ Prints(told)
  BY <1>1, <1>2, <1>3, RepliesWork
<1>5. InUse' = InUse /\ Queued' = Queued /\ UNCHANGED <<life, workspaces>>
  BY <1>2 DEF InUse, Queued, untouched, screen
<1>6. Attends(told)
  BY <1>5 DEF Attends, Settled, Idle, Parted
<1>7. Attunes
  BY <1>1, <1>2, FewerAttune
<1> QED BY <1>4, <1>5, <1>6, <1>7 DEF Works, Serves

\* Output is told to every connection that is attached (server.rs:2263).
LEMMA DaemonPrintsWorks ==
  ASSUME WindowInv, Laid, Wired, Idle, Parted, Supply, NEW r \in DOMAIN runtimes, NEW p \in ToSet(runtimes[r]), DaemonPrints(r, p)
  PROVE  Works
<1> DEFINE list == Deltas(r, p)
<1>0. Shape /\ Actors /\ Upto \in Nat
  BY PanesAreUpto DEF WindowInv, Shape
<1>1. /\ Emit(None, list) /\ printed' = printed \cup {p} /\ Unheard(r, {p})
      /\ UNCHANGED <<untouched, actors, runtimes, attached, minted, panes>>
  BY DEF DaemonPrints
<1>2. /\ IsSeq(list) /\ \A n \in DOMAIN list : list[n] = Delta(p)
      /\ Viewers(r) # {} => \E n \in DOMAIN list : TRUE
  BY <1>0, DeltasAre
<1> HIDE DEF list
<1>3. \A n \in DOMAIN list : Mute(list[n]) /\ list[n].kind = "delta" /\ list[n].pane = p
  <2> DEFINE e == Delta(p)
  <2>1. Mute(e) /\ e.kind = "delta" /\ e.pane = p
    BY DEF Delta, Event, Mute, IsNews
  <2>2. \A n \in DOMAIN list : list[n] = e
    BY <1>2
  <2> HIDE DEF e
  <2> QED BY <2>1, <2>2
<1>4. UNCHANGED <<untouched, panes, minted>> /\ UNCHANGED <<life, workspaces>>
      /\ \A x \in DOMAIN runtimes' : x \in DOMAIN runtimes /\ runtimes'[x] = runtimes[x]
  BY <1>1 DEF untouched, screen
<1>5. PICK more : /\ Reports(more)
                  /\ life = "up" => \A n \in DOMAIN list : \E x \in ToSet(more) : SameNews(x, list[n])
  BY <1>0, <1>1, <1>2, <1>3, <1>4, MuteReports
<1>6. InUse' = InUse /\ Queued' = Queued
  BY <1>1 DEF InUse, Queued
<1>7. Attends(more)
  BY <1>4, <1>6 DEF Attends, Settled, Idle, Parted
<1>8. ASSUME life = "up", Viewers(r) # {} PROVE \E x \in ToSet(more) : Feeds(x, p)
  <2>1. PICK n \in DOMAIN list : TRUE
    BY <1>2, <1>8
  <2>2. PICK x \in ToSet(more) : SameNews(x, list[n])
    BY <1>5, <1>8, <2>1
  <2> QED BY <1>3, <2>1, <2>2 DEF SameNews, Feeds
<1>9. Prints(more)
  <2>1. unheard \subseteq unheard' /\ (Viewers(r) = {} => p \in unheard')
    BY <1>1 DEF Unheard
  <2> QED BY <1>1, <1>8, <2>1 DEF Prints
<1>10. Attunes
  <2>1. ASSUME NEW x \in attached, x[2] \in DOMAIN runtimes, NEW t \in unheard' \ unheard, t \in PanesOf(x[2]) PROVE FALSE
    <3>1. t = p /\ Viewers(r) = {}
      BY <1>1, <2>1 DEF Unheard
    <3>2. x[2] = r
      BY <2>1, <3>1 DEF Supply, Apart, PanesOf
    <3> QED BY <3>1, <3>2, ViewersAre
  <2>2. \A q : (Alive(q)' <=> q \in DOMAIN runtimes) /\ PanesOf(q)' = PanesOf(q)
    BY <1>1 DEF Alive, PanesOf
  <2> QED BY <1>1, <2>1, <2>2 DEF Attunes
<1> QED BY <1>5, <1>6, <1>7, <1>9, <1>10 DEF Works, Serves

\* Every step of the actors and of the daemon.
LEMMA EndpointActsWork ==
  ASSUME WindowInv, Laid, Tracking, Wired, Idle, Parted, Supply, EndpointActs
  PROVE  Works
<1>1. ASSUME NEW i \in DOMAIN actors,
             \/ OpenRuntime(i) \/ AddPane(i) \/ RemovePane(i) \/ LeaveRuntime(i) \/ CommandRefused(i)
             \/ ForgetOrShutdown(i) \/ RefreshInventory(i) \/ NoDaemon(i) \/ LinkLost(i) \/ Reattach(i)
             \/ ReattachFails(i)
      PROVE  Works
  BY <1>1, OpenRuntimeWorks, AddPaneWorks, RemovePaneWorks, LeaveRuntimeWorks, AnswersWork,
     ForgetOrShutdownWorks, LinkLostWorks, ReattachWorks, ReattachFailsWorks
<1> QED BY <1>1, DaemonPrintsWorks DEF EndpointActs

-----------------------------------------------------------------------------
(* What the window shows of the panes.                                      *)

\* A workspace is joined to the runtime r if it shows it and the actor in use attends to it. It agrees
\* with r if all that it lacks is still to be told of, or was told of when it could not be placed, and
\* all that it has besides the panes of r is the client's own, stuck, or still to be closed.
Joined(w, r) ==
  w \in DOMAIN workspaces /\ workspaces[w].runtime = r /\ Settled(w) /\ InUse.tracked[w] = r /\ Alive(r)
Agrees(w, r) ==
  /\ \A p \in PanesOf(r) : p \in Leaves(w) \/ <<w, p>> \in unplaced \/ Creation(0, p)
  /\ \A t \in Leaves(w) : t \in PanesOf(r) \cup local \cup stuck \/ Closing(0, t)
Faithful == life = "up" => \A w, r : Joined(w, r) /\ ~Awaits(w) => Agrees(w, r)

\* The output of pane p is brought after position n.
Owed(n, p) == \E m \in DOMAIN events : m > n /\ Feeds(events[m], p)

\* What p, a pane of a runtime that the actor in use attends to for w, has printed is told of after every
\* snapshot that lacks it, or nobody was attached to be told; and if w shows p, it shows the output, missed it,
\* is still to be told, or was not.
FollowedUp(p) ==
  \A n \in DOMAIN events :
    events[n].kind = "opened" /\ p \in ToSet(events[n].panes) \ events[n].prints => Owed(n, p) \/ p \in unheard
Met(w, p) ==
  w \in DOMAIN workspaces /\ p \in Leaves(w) => p \in shown \cup unfed \cup unheard \/ Creation(0, p) \/ Owed(0, p)
Fed == life = "up" => \A w, r : Hears(w, r) /\ Alive(r) =>
         \A p \in printed \cap PanesOf(r) : FollowedUp(p) /\ Met(w, p)

\* All that is printed in a runtime is heard of as long as a connection is attached to it.
Tuned == \A x \in attached : Alive(x[2]) => unheard \cap PanesOf(x[2]) = {}

\* The index knows every pane that is shown.
Indexed == \A t \in Shown(workspaces) \ index : \A r \in DOMAIN runtimes : t \notin PanesOf(r)

PanesInv == Supply /\ Idle /\ Parted /\ Indexed /\ Faithful /\ Fed /\ Tuned

\* What was to bring output still is, and so is what is told now.
LEMMA ReportsOwe ==
  ASSUME Shape, NEW more, Reports(more), NEW n \in DOMAIN events \cup {0}, NEW p,
         Owed(n, p) \/ \E e \in ToSet(more) : Feeds(e, p)
  PROVE  Owed(n, p)'
<1>1. /\ Len(events) \in Nat /\ DOMAIN events = 1..Len(events) /\ DOMAIN events' \subseteq Nat
      /\ \A m \in DOMAIN events : m \in DOMAIN events' /\ events'[m] = events[m]
      /\ \A e \in ToSet(more) : \E m \in DOMAIN events' : m > Len(events) /\ events'[m] = e
  BY ReportsPositions
<1>2. \A e \in ToSet(more) : \E m \in DOMAIN events' : m > n /\ events'[m] = e
  BY <1>1
<1>3. \E m \in DOMAIN events' : m > n /\ Feeds(events'[m], p)
  BY <1>1, <1>2 DEF Owed
<1> QED BY <1>3 DEF Owed, Feeds

\* The index stays complete: the new panes are shown nowhere.
LEMMA ServesKeepsIndexed ==
  ASSUME Laid, Indexed, NEW more, Reports(more)
  PROVE  Indexed'
<1>1. Upto \in Nat /\ \A w \in DOMAIN workspaces : Leaves(w) \subseteq 1..Upto
  BY PanesAreUpto
<1>2. UNCHANGED <<workspaces, index>>
  BY DEF Reports, screen
<1>3. ASSUME NEW t \in Shown(workspaces) \ index, NEW r \in DOMAIN runtimes', t \in PanesOf(r)' PROVE FALSE
  <2>1. t \in 1..Upto
    BY <1>1 DEF Shown, Leaves
  <2>2. r \in DOMAIN runtimes
    BY <1>3, ShortSeqs DEF Reports, PanesOf
  <2>3. t \notin PanesOf(r)
    BY <2>2 DEF Indexed
  <2> QED BY <1>1, <1>3, <2>1, <2>2, <2>3 DEF Reports
<1> QED BY <1>2, <1>3 DEF Indexed

\* A workspace that is joined and awaits nothing was so before, and what is new to it is told of.
LEMMA ServesKeepsFaithful ==
  ASSUME WindowInv, Laid, Faithful, NEW more, Reports(more), Attends(more)
  PROVE  Faithful'
<1>0. Shape /\ Numbered
  BY DEF WindowInv
<1>1. UNCHANGED <<life, workspaces, unplaced, local, stuck>>
  BY DEF Reports, screen, panes
<1>2. Sent' = Sent \cup ToSet(more) /\ 0 \in DOMAIN events \cup {0}
  BY <1>0, ReportsPositions
<1>3. ASSUME life = "up", NEW w, NEW r, Joined(w, r)', ~Awaits(w)' PROVE Agrees(w, r)'
  <2>1. w \in DOMAIN workspaces /\ workspaces[w].runtime = r /\ r \in Known \cup {None} /\ r \in DOMAIN runtimes'
    BY <1>0, <1>1, <1>3 DEF Joined, Alive, Numbered
  <2>2. r \in DOMAIN runtimes
    BY <2>1 DEF Reports
  <2>3. \A e \in ToSet(more) : ~Reopens(e, w)
    BY <1>2, <1>3 DEF Awaits, Reopens
  <2>4. Settled(w)' /\ InUse'.tracked[w] = r /\ Alive(InUse.tracked[w])'
    BY <1>3 DEF Joined, Alive
  <2>5. Settled(w) /\ InUse.tracked[w] = r
    BY <1>3, <2>3, <2>4 DEF Attends
  <2>6. ~Awaits(w)
    BY <1>2, <1>3 DEF Awaits, Reopens
  <2>7. Agrees(w, r)
    BY <1>3, <2>1, <2>2, <2>5, <2>6 DEF Faithful, Joined, Alive
  <2>8. /\ \A p \in PanesOf(r)' \ PanesOf(r) : \E e \in ToSet(more) : Creates(e, p)
        /\ \A t \in PanesOf(r) \ PanesOf(r)' : \E e \in ToSet(more) : Closes(e, t)
    BY <1>3, <2>1, <2>2 DEF Reports
  <2>9. /\ \A p : Creation(0, p) => Creation(0, p)'
        /\ \A t : Closing(0, t) => Closing(0, t)'
        /\ \A p : (\E e \in ToSet(more) : Creates(e, p)) => Creation(0, p)'
        /\ \A t : (\E e \in ToSet(more) : Closes(e, t)) => Closing(0, t)'
    BY <1>0, <1>2, ReportsFollow
  <2>10. Leaves(w)' = Leaves(w)
    BY <1>1 DEF Leaves
  <2>11. \A p \in PanesOf(r)' : p \in Leaves(w)' \/ <<w, p>> \in unplaced' \/ Creation(0, p)'
    BY <1>1, <2>7, <2>8, <2>9, <2>10 DEF Agrees
  <2>12. \A t \in Leaves(w)' : t \in PanesOf(r)' \cup local' \cup stuck' \/ Closing(0, t)'
    BY <1>1, <2>7, <2>8, <2>9, <2>10 DEF Agrees
  <2> QED BY <2>11, <2>12 DEF Agrees
<1> QED BY <1>1, <1>3 DEF Faithful

\* The output of a pane that the actor in use comes to attend to is in the tree it is told; what is printed
\* then follows it, or nobody is told.
LEMMA ServesKeepsFed ==
  ASSUME WindowInv, Laid, Fed, NEW more, Reports(more), Attends(more), Prints(more)
  PROVE  Fed'
<1>0. Shape /\ Numbered /\ InFlight /\ Actors
  BY DEF WindowInv, Shape
<1>1. UNCHANGED <<life, workspaces, shown, unfed>>
  BY DEF Reports, screen, panes
<1>2. /\ DOMAIN events' \subseteq Nat /\ 0 \in DOMAIN events \cup {0}
      /\ \A n \in DOMAIN events : events'[n] = events[n]
      /\ \A n \in DOMAIN events' : n \notin DOMAIN events => events'[n] \in ToSet(more)
  BY <1>0, ReportsPositions
<1>3. ASSUME life = "up", NEW w, NEW r, Hears(w, r)', Alive(r)', NEW p \in printed' \cap PanesOf(r)'
      PROVE  FollowedUp(p)' /\ Met(w, p)'
  <2>1. r \in DOMAIN runtimes' /\ Settled(w)' /\ InUse'.tracked[w] = r /\ Alive(InUse.tracked[w])'
    BY <1>3 DEF Hears, Alive
  <2>2. ASSUME \E e \in ToSet(more) : Feeds(e, p) PROVE \A n \in DOMAIN events \cup {0} : Owed(n, p)'
    BY <1>0, <2>2, ReportsOwe
  <2>3. \/ (\A n \in DOMAIN events \cup {0} : Owed(n, p)') \/ p \in unheard'
        \/ p \in printed /\ Hears(w, r) /\ r \in DOMAIN runtimes /\ p \in PanesOf(r)
    <3>1. CASE \E e \in ToSet(more) : Reopens(e, w) /\ e.runtime = r
      <4>1. PICK e \in ToSet(more) : Reopens(e, w) /\ e.runtime = r
        BY <3>1
      <4>2. Exact(e, runtimes', printed', minted'.terminals)
        BY DEF Reports
      <4>3. e.kind = "opened" /\ p \in e.prints
        BY <1>3, <2>1, <4>1, <4>2 DEF Exact, Reopens, PanesOf
      <4> QED BY <2>2, <4>1, <4>3 DEF Feeds
    <3>2. CASE Settled(w) /\ InUse.tracked[w] = r
      <4>1. r \in Known
        <5>1. w \in DOMAIN InUse.tracked /\ InUse = actors[Len(actors)] /\ Len(actors) \in DOMAIN actors
          BY <1>0, <3>2, InUseIs DEF Settled, SettledAt
        <5> QED BY <1>0, <3>2, <5>1 DEF InFlight
      <4>2. r \in DOMAIN runtimes
        BY <2>1, <4>1 DEF Reports
      <4>3. CASE p \in printed
        <5>1. p \in PanesOf(r)
          <6>1. p \in 1..Upto /\ Upto \in Nat
            BY <4>3, PanesAreUpto
          <6>2. p \in PanesOf(r) \/ p > Upto
            BY <1>3, <2>1, <4>2 DEF Reports
          <6> QED BY <6>1, <6>2
        <5> QED BY <3>2, <4>2, <4>3, <5>1 DEF Hears
      <4>4. CASE p \notin printed
        <5>1. p \in unheard' \/ \E e \in ToSet(more) : Feeds(e, p)
          BY <1>3, <4>4 DEF Prints
        <5> QED BY <2>2, <5>1
      <4> QED BY <4>3, <4>4
    <3> QED BY <1>3, <2>1, <3>1, <3>2 DEF Attends
  <2>4. CASE (\A n \in DOMAIN events \cup {0} : Owed(n, p)') \/ p \in unheard'
    <3>1. ASSUME NEW n \in DOMAIN events', events'[n].kind = "opened", p \in ToSet(events'[n].panes) \ events'[n].prints
          PROVE  Owed(n, p)' \/ p \in unheard'
      <4>1. CASE n \in DOMAIN events
        BY <2>4, <4>1
      <4>2. CASE n \notin DOMAIN events
        <5>1. Exact(events'[n], runtimes', printed', minted'.terminals)
          BY <1>2, <4>2 DEF Reports
        <5> QED BY <1>3, <3>1, <5>1 DEF Exact
      <4> QED BY <4>1, <4>2
    <3>2. Met(w, p)'
      BY <2>4 DEF Met
    <3>3. FollowedUp(p)'
      BY <3>1 DEF FollowedUp
    <3> QED BY <3>2, <3>3
  <2>5. CASE p \in printed /\ Hears(w, r) /\ r \in DOMAIN runtimes /\ p \in PanesOf(r)
    <3>1. FollowedUp(p) /\ Met(w, p)
      BY <1>3, <2>5 DEF Fed, Alive
    <3>2. p \in unheard => p \in unheard' \/ \A n \in DOMAIN events \cup {0} : Owed(n, p)'
      BY <1>3, <2>2 DEF Prints
    <3>3. ASSUME NEW n \in DOMAIN events', events'[n].kind = "opened", p \in ToSet(events'[n].panes) \ events'[n].prints
          PROVE  Owed(n, p)' \/ p \in unheard'
      <4>1. CASE n \in DOMAIN events
        <5>1. Owed(n, p) \/ p \in unheard
          BY <1>2, <3>1, <3>3, <4>1 DEF FollowedUp
        <5>2. Owed(n, p) => Owed(n, p)'
          BY <1>0, <4>1, ReportsOwe
        <5> QED BY <3>2, <4>1, <5>1, <5>2
      <4>2. CASE n \notin DOMAIN events
        <5>1. Exact(events'[n], runtimes', printed', minted'.terminals)
          BY <1>2, <4>2 DEF Reports
        <5> QED BY <1>3, <3>3, <5>1 DEF Exact
      <4> QED BY <4>1, <4>2
    <3>4. ASSUME w \in DOMAIN workspaces, p \in Leaves(w)
          PROVE  p \in shown \cup unfed \cup unheard' \/ Creation(0, p)' \/ Owed(0, p)'
      <4>1. p \in shown \cup unfed \cup unheard \/ Creation(0, p) \/ Owed(0, p)
        BY <3>1, <3>4 DEF Met
      <4>2. CASE Creation(0, p)
        BY <1>0, <1>2, <4>2, ReportsFollow
      <4>3. CASE Owed(0, p)
        BY <1>0, <1>2, <4>3, ReportsOwe
      <4> QED BY <3>2, <4>1, <4>2, <4>3
    <3>5. FollowedUp(p)'
      BY <3>3 DEF FollowedUp
    <3> QED BY <1>1, <3>4, <3>5 DEF Met, Leaves
  <2> QED BY <2>3, <2>4, <2>5
<1> QED BY <1>1, <1>3 DEF Fed

\* A connection that was attached before hears of the panes it heard of, and of the new ones.
LEMMA AttunedIsTuned ==
  ASSUME Laid, Wired, Tuned, NEW more, Reports(more), Attunes
  PROVE  Tuned'
<1>1. ASSUME NEW x \in attached', x \in attached, Alive(x[2])', NEW p \in unheard, p \in PanesOf(x[2])'
      PROVE  FALSE
  <2>1. x[2] \in DOMAIN runtimes /\ x[2] \in DOMAIN runtimes'
    BY <1>1, ViewersAre DEF Reports, Alive
  <2>2. p \in 1..Upto /\ Upto \in Nat
    BY PanesAreUpto DEF Wired
  <2>3. p \in PanesOf(x[2])
    BY <1>1, <2>1, <2>2 DEF Reports
  <2> QED BY <1>1, <2>1, <2>3 DEF Tuned, Alive
<1> QED BY <1>1 DEF Tuned, Attunes

\* So the steps of the actors and the daemon keep what is said of the panes.
LEMMA WorksKeepsPanes ==
  ASSUME WindowInv, Laid, Wired, PanesInv, Works
  PROVE  PanesInv'
<1>1. PICK more : Reports(more) /\ Attends(more) /\ Prints(more)
  BY DEF Works, Serves
<1>2. Supply'
  BY <1>1, ReportsKeepSupply DEF PanesInv, Works
<1>3. Idle' /\ Parted'
  BY <1>1 DEF Attends
<1>4. Indexed' /\ Faithful' /\ Fed' /\ Tuned'
  BY <1>1, ServesKeepsIndexed, ServesKeepsFaithful, ServesKeepsFed, AttunedIsTuned DEF PanesInv, Works
<1> QED BY <1>2, <1>3, <1>4 DEF PanesInv

-----------------------------------------------------------------------------
(* What the user does to the panes.                                         *)

\* A step of the window that reads nothing: the layouts of the workspaces that are joined lose nothing and
\* get terminals of the client, and a widget that goes is accounted for.
Tends ==
  /\ life = "up" /\ UNCHANGED <<runtimes, printed, hearing>>
  /\ minted'.terminals \in Nat /\ Upto <= minted'.terminals
  /\ events' = events \/ (life' # "up" /\ events' = <<>>)
  /\ \A c \in Queued' : c \in Queued \/ Fit(c)'
  /\ Idle' /\ Parted'
  /\ \A t \in Shown(workspaces)' \ index' : t \in Shown(workspaces) \ index \/ t > Upto
  /\ life' = "up" =>
       /\ local \subseteq local' /\ unfed \subseteq unfed' /\ UNCHANGED <<unplaced, stuck>>
       /\ \A w, r : Hears(w, r)' => Hears(w, r)
       /\ \A w, r : Joined(w, r)' =>
            Joined(w, r) /\ Leaves(w) \subseteq Leaves(w)' /\ Leaves(w)' \subseteq Leaves(w) \cup local'
       /\ \A w : w \in DOMAIN workspaces' /\ Settled(w)' =>
            w \in DOMAIN workspaces /\ \A t \in Leaves(w)' : t \in Leaves(w) \/ t > Upto
       /\ shown \cap Shown(workspaces)' \subseteq shown' \cup unfed'

\* What is said of the panes is kept by it.
LEMMA TendsKeepsPanes ==
  ASSUME WindowInv, Laid, PanesInv, Tends
  PROVE  PanesInv'
<1>1. /\ Upto \in Nat /\ Upto' = minted'.terminals /\ Upto' \in Nat /\ Upto <= Upto' /\ 0..Upto \subseteq 0..Upto'
      /\ printed \subseteq 1..Upto
      /\ \A r \in DOMAIN runtimes : PanesOf(r) \subseteq 1..Upto
      /\ \A r : PanesOf(r)' = PanesOf(r) /\ (Alive(r)' <=> Alive(r))
      /\ UNCHANGED <<attached, unheard>>
  BY PanesAreUpto DEF Tends, Upto, PanesOf, Alive, hearing
<1>2. events' = events \/ (life' # "up" /\ events' = <<>>)
  BY DEF Tends
<1>3. events' = events => /\ \A n, p : Creation(n, p)' <=> Creation(n, p)
                          /\ \A n, t : Closing(n, t)' <=> Closing(n, t)
                          /\ \A n, p : Owed(n, p)' <=> Owed(n, p)
                          /\ \A w : Awaits(w)' <=> Awaits(w)
                          /\ \A p : FollowedUp(p)' <=> FollowedUp(p)
  BY <1>1 DEF Creation, Closing, Owed, Awaits, Sent, Feeds, FollowedUp
<1>4. Current'
  <2>1. CASE events' = <<>>
    <3>1. DOMAIN <<>> = {}
      OBVIOUS
    <3> QED BY <2>1, <3>1 DEF Current
  <2>2. CASE events' = events
    <3> SUFFICES ASSUME NEW n \in DOMAIN events PROVE Timely(events[n], n)'
      BY <2>2 DEF Current
    <3>1. PICK e : e = events[n]
      OBVIOUS
    <3>2. Timely(e, n)
      BY <3>1 DEF PanesInv, Supply, Current
    <3>3. Timely(e, n)'
      BY <1>1, <1>3, <2>2, <3>2 DEF Timely
    <3> QED BY <2>2, <3>1, <3>3 DEF Timely
  <2> QED BY <1>2, <2>1, <2>2
<1>5. Apart'
  BY <1>1 DEF Apart, PanesInv, Supply, Tends
<1>6. Fitting'
  <2>1. ASSUME NEW c, Fit(c) PROVE Fit(c)'
    BY <1>1, <2>1 DEF Fit
  <2> QED BY <2>1 DEF Fitting, PanesInv, Supply, Tends
<1>7. Indexed'
  <2>1. ASSUME NEW t \in Shown(workspaces)' \ index', NEW r \in DOMAIN runtimes' PROVE t \notin PanesOf(r)'
    <3>1. r \in DOMAIN runtimes
      BY DEF Tends
    <3>2. CASE t \in Shown(workspaces) \ index
      BY <1>1, <3>1, <3>2 DEF PanesInv, Indexed
    <3>3. CASE t > Upto
      BY <1>1, <3>1, <3>3
    <3> QED BY <3>2, <3>3 DEF Tends
  <2> QED BY <2>1 DEF Indexed
<1>8. Faithful'
  <2> SUFFICES ASSUME life' = "up", NEW w, NEW r, Joined(w, r)', ~Awaits(w)'
               PROVE  Agrees(w, r)'
    BY DEF Faithful
  <2>1. events' = events /\ life = "up"
    BY <1>2 DEF Tends
  <2>2. /\ Joined(w, r) /\ Leaves(w) \subseteq Leaves(w)' /\ Leaves(w)' \subseteq Leaves(w) \cup local'
        /\ local \subseteq local' /\ UNCHANGED <<unplaced, stuck>>
    BY DEF Tends
  <2>3. Agrees(w, r)
    BY <1>3, <2>1, <2>2 DEF PanesInv, Faithful
  <2> QED BY <1>1, <1>3, <2>1, <2>2, <2>3 DEF Agrees
<1>9. Fed'
  <2> SUFFICES ASSUME life' = "up", NEW w, NEW r, Hears(w, r)', Alive(r)', NEW p \in printed' \cap PanesOf(r)'
               PROVE  FollowedUp(p)' /\ Met(w, p)'
    BY DEF Fed
  <2>1. events' = events /\ life = "up"
    BY <1>2 DEF Tends
  <2>2. /\ Hears(w, r) /\ Alive(r) /\ p \in printed \cap PanesOf(r)
        /\ unfed \subseteq unfed' /\ shown \cap Shown(workspaces)' \subseteq shown' \cup unfed'
    BY <1>1 DEF Tends
  <2>3. FollowedUp(p) /\ Met(w, p)
    BY <2>1, <2>2 DEF PanesInv, Fed
  <2>4. ASSUME w \in DOMAIN workspaces', p \in Leaves(w)'
        PROVE  p \in shown' \cup unfed' \cup unheard \/ Creation(0, p) \/ Owed(0, p)
    <3>1. Settled(w)'
      BY DEF Hears
    <3>2. w \in DOMAIN workspaces /\ (p \in Leaves(w) \/ p > Upto)
      BY <2>4, <3>1 DEF Tends
    <3>3. p \in Leaves(w)
      BY <1>1, <2>2, <3>2
    <3>4. p \in Shown(workspaces)'
      BY <2>4 DEF Shown, Leaves
    <3>5. p \in shown \cup unfed \cup unheard \/ Creation(0, p) \/ Owed(0, p)
      BY <2>3, <3>2, <3>3 DEF Met
    <3> QED BY <2>2, <3>4, <3>5
  <2>5. Met(w, p)'
    BY <1>1, <1>3, <2>1, <2>4 DEF Met
  <2> QED BY <1>3, <2>1, <2>3, <2>5
<1>10. Idle' /\ Parted'
  BY DEF Tends
<1>11. Tuned'
  BY <1>1 DEF Tuned, PanesInv
<1> QED BY <1>4, <1>5, <1>6, <1>7, <1>8, <1>9, <1>10, <1>11 DEF PanesInv, Supply

\* What the window asks on the way: only what it shows is opened, what it shows no more is forgotten, and
\* what it shows newly nobody tracks.
LEMMA AskedTends ==
  ASSUME WindowInv, Laid, Idle, Parted, life = "up", UNCHANGED <<runtimes, printed, hearing, unplaced, stuck>>,
         minted'.terminals \in Nat, Upto <= minted'.terminals,
         NEW list, IsSeq(list), Send(list) \/ (list = <<>> /\ actors' = actors),
         \A c \in ToSet(list) : Fit(c)' /\ (c.kind = "open" => c.ws \in DOMAIN workspaces'),
         \A w \in DOMAIN workspaces \ DOMAIN workspaces' : w > MaxWorkspaces => \E c \in ToSet(list) : Forgets(c, w),
         events' = events \/ (life' # "up" /\ events' = <<>>),
         local \subseteq local', unfed \subseteq unfed',
         \A t \in Shown(workspaces)' \ index' : t \in Shown(workspaces) \ index \/ t > Upto,
         shown \cap Shown(workspaces)' \subseteq shown' \cup unfed',
         \A w \in DOMAIN workspaces' \ DOMAIN workspaces : w \notin Issued \cup {None},
         \A w \in DOMAIN workspaces' \cap DOMAIN workspaces :
           /\ workspaces'[w].runtime = workspaces[w].runtime
           /\ workspaces[w].runtime # None => Leaves(w) \subseteq Leaves(w)'
           /\ \A t \in Leaves(w)' : t \in Leaves(w) \/ (t > Upto /\ t \in local')
  PROVE  Tends
<1>0. Actors /\ InFlight
  BY DEF WindowInv, Shape
<1>1. Asked(list)
  BY <1>0, SendAsks
<1>2. /\ Idle' /\ Parted' /\ \A w : Settled(w)' => Settled(w)
      /\ InUse'.tracked = InUse.tracked /\ InUse'.link = InUse.link
  BY <1>0, <1>1, AskedAttends
<1>3. \A c \in Queued' : c \in Queued \/ Fit(c)'
  <2>1. CASE Send(list)
    BY <1>0, <2>1, SendAdds
  <2>2. CASE actors' = actors
    BY <2>2 DEF Queued
  <2> QED BY <2>1, <2>2
<1>4. None \notin DOMAIN runtimes
  BY KnownNumbers DEF WindowInv, Numbered
<1>5. ASSUME NEW w \in DOMAIN workspaces', Settled(w)' PROVE w \in DOMAIN workspaces
  <2>1. w \in DOMAIN InUse.tracked
    BY <1>2, <1>5 DEF Settled, SettledAt
  <2>2. InUse = actors[Len(actors)] /\ Len(actors) \in DOMAIN actors
    BY <1>0, InUseIs
  <2>3. w \in Issued \cup {None}
    BY <1>0, <2>1, <2>2 DEF InFlight
  <2> QED BY <1>5, <2>3
<1>6. ASSUME NEW w, NEW r, Joined(w, r)'
      PROVE  Joined(w, r) /\ Leaves(w) \subseteq Leaves(w)' /\ Leaves(w)' \subseteq Leaves(w) \cup local'
  <2>1. /\ w \in DOMAIN workspaces' /\ workspaces'[w].runtime = r /\ Settled(w)' /\ InUse'.tracked[w] = r
        /\ r \in DOMAIN runtimes
    BY <1>6 DEF Joined, Alive
  <2>2. w \in DOMAIN workspaces
    BY <1>5, <2>1
  <2>3. Joined(w, r) /\ r # None
    BY <1>2, <1>4, <2>1, <2>2 DEF Joined, Alive
  <2> QED BY <2>1, <2>2, <2>3
<1>7. \A w, r : Hears(w, r)' => Hears(w, r)
  BY <1>2 DEF Hears
<1> QED BY <1>2, <1>3, <1>5, <1>6, <1>7 DEF Tends

\* A workspace is added, of one terminal that the client mints.
LEMMA AddedTends ==
  ASSUME WindowInv, Laid, Idle, Parted, life = "up",
         NEW w, w = Newest("workspaces"), w <= MaxWorkspaces, NEW t, t = Newest("terminals"), NEW r,
         minted' = [minted EXCEPT !.workspaces = w, !.terminals = t],
         workspaces' = With(workspaces, w, Workspace(<<t>>, r)), Send(<<Open(workspaces', w)>>),
         shown' = shown \cap (widgets \cup {t}), local' = local \cup {t},
         UNCHANGED <<runtimes, printed, hearing, unplaced, stuck, unfed, index, events>>
  PROVE  Tends
<1>0. PICK c : c = Open(workspaces', w)
  OBVIOUS
<1>1. t = Upto + 1 /\ minted'.terminals = t /\ Upto \in Nat
  BY PanesAreUpto DEF WindowInv, Shape, Newest, Upto
<1>2. w \notin Issued \cup {None} /\ w \notin DOMAIN workspaces
  <2>1. w \notin Issued \cup {None}
    BY KnownNumbers DEF WindowInv, Newest
  <2> QED BY <2>1 DEF WindowInv, Numbered
<1>3. /\ DOMAIN workspaces' = DOMAIN workspaces \cup {w}
      /\ \A v \in DOMAIN workspaces : workspaces'[v] = workspaces[v]
      /\ workspaces'[w].layout = <<t>>
  BY <1>2 DEF With, Workspace
<1>4. c.kind = "open" /\ c.ws = w /\ c.at = t /\ c.new = None
  <2>1. Head(<<t>>) = t
    OBVIOUS
  <2> QED BY <1>0, <1>3, <2>1 DEF Open, Command
<1>5. Fit(c)' /\ IsSeq(<<c>>) /\ ToSet(<<c>>) = {c} /\ ToSet(<<t>>) = {t}
  <2>1. Upto' = Upto + 1 /\ c.at \in 0..Upto' /\ c.new \in 0..Upto'
    BY <1>1, <1>4 DEF Upto, None
  <2> QED BY <1>4, <2>1, ShortSeqs DEF Fit
<1>6. ASSUME NEW x \in Shown(workspaces)' PROVE x \in Shown(workspaces) \/ x = t
  BY <1>3, <1>5 DEF Shown
<1>7. Upto <= minted'.terminals /\ minted'.terminals \in Nat /\ t > Upto
  BY <1>1
<1>8. \A v \in DOMAIN workspaces : Leaves(v)' = Leaves(v) /\ workspaces'[v].runtime = workspaces[v].runtime
  BY <1>3 DEF Leaves
<1>9. shown \subseteq shown'
  BY DEF Laid
<1>10. Send(<<c>>)
  BY <1>0
<1> QED BY <1>2, <1>3, <1>4, <1>5, <1>6, <1>7, <1>8, <1>9, <1>10, AskedTends

\* A step that changes no layout and closes no workspace, and asks for a workspace at most.
LEMMA StillTends ==
  ASSUME WindowInv, Laid, Idle, Parted, life = "up",
         NEW c, Send(<<c>>) \/ actors' = actors, c.kind \notin {"create", "split"},
         c.at \in 0..Upto, c.new = None, c.kind = "open" => c.ws \in DOMAIN workspaces,
         DOMAIN workspaces' = DOMAIN workspaces,
         \A v \in DOMAIN workspaces : workspaces'[v].runtime = workspaces[v].runtime /\ Leaves(v)' = Leaves(v),
         events' = events \/ (life' # "up" /\ events' = <<>>),
         UNCHANGED <<runtimes, printed, hearing, unplaced, stuck, unfed, local, minted, index>>, shown \cap Shown(workspaces) \subseteq shown'
  PROVE  Tends
<1>1. Upto \in Nat /\ Upto' = Upto /\ minted'.terminals = Upto /\ Upto <= Upto
  BY PanesAreUpto DEF Upto
<1>2. Shown(workspaces)' = Shown(workspaces)
  BY DEF Shown, Leaves
<1>3. Fit(c)'
  BY <1>1 DEF Fit, None
<1>4. IsSeq(<<c>>) /\ ToSet(<<c>>) = {c} /\ IsSeq(<<>>) /\ ToSet(<<>>) = {}
  BY ShortSeqs
<1>5. CASE Send(<<c>>)
  BY <1>1, <1>2, <1>3, <1>4, <1>5, AskedTends
<1>6. CASE actors' = actors
  BY <1>1, <1>2, <1>4, <1>6, AskedTends
<1> QED BY <1>5, <1>6

\* Workspaces go, and their widgets, with the output that the ones of terminals that stay have shown.
LEMMA GoneTends ==
  ASSUME WindowInv, Laid, Idle, Parted, life = "up", NEW gone, workspaces' = Without(workspaces, gone),
         NEW list, IsSeq(list), Send(list) \/ (list = <<>> /\ actors' = actors),
         \A c \in ToSet(list) : c.at = None /\ c.new = None /\ c.kind \notin {"open", "create", "split"},
         \A w \in gone \cap DOMAIN workspaces : w > MaxWorkspaces => \E c \in ToSet(list) : Forgets(c, w),
         events' = events \/ (life' # "up" /\ events' = <<>>),
         UNCHANGED <<runtimes, printed, hearing, unplaced, stuck, local, minted>>, unfed \subseteq unfed',
         index' = Shown(workspaces)', shown \cap Shown(workspaces)' \subseteq shown' \cup unfed'
  PROVE  Tends
<1>1. Upto \in Nat /\ Upto' = Upto /\ minted'.terminals = Upto /\ Upto <= Upto
  BY PanesAreUpto DEF Upto
<1>2. /\ DOMAIN workspaces' = DOMAIN workspaces \ gone
      /\ \A v \in DOMAIN workspaces' : workspaces'[v] = workspaces[v]
  BY DEF Without, Restrict
<1>3. \A c \in ToSet(list) : Fit(c)' /\ c.kind # "open"
  BY <1>1 DEF Fit, None
<1>4. \A v \in DOMAIN workspaces' : Leaves(v)' = Leaves(v)
  BY <1>2 DEF Leaves
<1> QED BY <1>1, <1>2, <1>3, <1>4, AskedTends

\* Workspaces are closed (window/mod.rs:1111, 1182).
LEMMA EndsTend ==
  ASSUME WindowInv, Laid, Idle, Parted, life = "up", NEW gone \in SUBSET DOMAIN workspaces, EndWorkspaces(gone),
         workspaces' = Without(workspaces, gone),
         events' = events \/ (life' # "up" /\ events' = <<>>),
         UNCHANGED <<runtimes, printed, hearing, unplaced, stuck, local, minted>>, unfed \subseteq unfed',
         shown \cap Shown(workspaces)' \subseteq shown' \cup unfed'
  PROVE  Tends
<1> DEFINE list == Farewell(gone)
<1>1. /\ IsSeq(list)
      /\ \A c \in ToSet(list) : c.at = None /\ c.new = None /\ c.kind \notin {"open", "create", "split"}
      /\ \A w \in gone : \E c \in ToSet(list) : Forgets(c, w)
  BY FarewellIsSeq DEF Forgets
<1>2. Send(list) /\ index' = Shown(workspaces)'
  <2>1. Shown(workspaces)' = Shown(Without(workspaces, gone))
    BY DEF Shown
  <2> QED BY <2>1 DEF EndWorkspaces
<1> HIDE DEF list
<1> QED BY <1>1, <1>2, GoneTends

\* A workspace is detached (window/mod.rs:1042). One that was recovered has a runtime.
LEMMA DetachRuntimeTends ==
  ASSUME WindowInv, Laid, Idle, Parted, NEW w \in DOMAIN workspaces, DetachRuntime(w)
  PROVE  Tends
<1> DEFINE r == workspaces[w].runtime
           ws == Without(workspaces, {w})
           a == Command("detach", w, r, None, None)
           b == Command("forget", w, None, None, None)
<1>1. /\ life = "up" /\ UNCHANGED <<events, runtimes, printed, hearing, unplaced, stuck, local, minted>>
      /\ workspaces' = ws /\ shown' = shown \cap (widgets \ ToSet(workspaces[w].layout))
      /\ unfed' = unfed \cup Taken(ToSet(workspaces[w].layout), ws)
      /\ index' = Shown(ws)
      /\ (r = None /\ actors' = actors) \/ Send(<<a, b>>)
  BY DEF DetachRuntime, DrawWithout, Asks, daemon
<1>2. /\ a.kind = "detach" /\ a.at = None /\ a.new = None
      /\ b.kind = "forget" /\ b.ws = w /\ b.at = None /\ b.new = None
  BY DEF Command
<1> HIDE DEF a, b
<1>3. Shown(workspaces)' = Shown(ws)
  BY <1>1 DEF Shown
<1>4. shown \cap Shown(workspaces)' \subseteq shown' \cup unfed' /\ unfed \subseteq unfed'
  BY <1>1, <1>3 DEF Taken, Laid
<1>5. CASE Send(<<a, b>>)
  <2>1. PICK list : list = <<a, b>>
    OBVIOUS
  <2>2. IsSeq(list) /\ ToSet(list) = {a, b} /\ Send(list)
    BY <1>5, <2>1, ShortSeqs
  <2>3. /\ \A c \in ToSet(list) : c.at = None /\ c.new = None /\ c.kind \notin {"open", "create", "split"}
        /\ \A v \in {w} \cap DOMAIN workspaces : v > MaxWorkspaces => \E c \in ToSet(list) : Forgets(c, v)
    BY <1>2, <2>2 DEF Forgets
  <2>4. workspaces' = Without(workspaces, {w}) /\ index' = Shown(workspaces)'
    BY <1>1, <1>3
  <2> HIDE DEF ws
  <2> QED BY <1>1, <1>4, <2>2, <2>3, <2>4, GoneTends
<1>6. CASE r = None /\ actors' = actors
  <2>1. IsSeq(<<>>) /\ ToSet(<<>>) = {}
    BY ShortSeqs
  <2>2. ~(w > MaxWorkspaces)
    <3>1. ASSUME w > MaxWorkspaces PROVE FALSE
      <4>1. Own(w, r) /\ w \in Issued
        BY DEF WindowInv, Numbered
      <4>2. PICK q \in Known : w = Recovered(q)
        BY <3>1, <4>1, KnownNumbers DEF WindowInv
      <4>3. q \in Runtimes /\ None \notin Known
        BY <4>2, KnownNumbers DEF WindowInv
      <4> QED BY <1>6, <3>1, <4>1, <4>2, <4>3, Numbers DEF Own
    <3> QED BY <3>1
  <2> QED BY <1>1, <1>3, <1>4, <1>6, <2>1, <2>2, GoneTends
<1> QED BY <1>1, <1>5, <1>6

\* A terminal is split: the window mints the new one (terminal.rs:709).
LEMMA SplitTerminalTends ==
  ASSUME WindowInv, Laid, Idle, Parted, NEW w \in DOMAIN workspaces, NEW t \in Leaves(w), SplitTerminal(w, t)
  PROVE  Tends
<1>0. PICK new : new = Newest("terminals")
  OBVIOUS
<1> DEFINE ws == [workspaces EXCEPT ![w].zoom = None, ![w].layout = SplitLayout(@, t, new)]
           kept == Rebuilt(ws, w, widgets)
<1>1. /\ life = "up" /\ UNCHANGED <<events, runtimes, printed, hearing, unplaced, stuck, unfed, index>>
      /\ Mint("terminals") /\ local' = local \cup {new}
      /\ workspaces' = ws /\ shown' = shown \cap kept
      /\ \/ ws[w].runtime = None /\ actors' = actors
         \/ Send(<<Command("split", w, ws[w].runtime, t, new)>>)
  BY <1>0 DEF SplitTerminal, Draw, DrawWithout, Asks, daemon
<1>2. /\ new = Upto + 1 /\ minted'.terminals = new /\ Upto \in Nat
      /\ \A v \in DOMAIN workspaces : Leaves(v) \subseteq 1..Upto
      /\ \A r \in DOMAIN runtimes : PanesOf(r) \subseteq 1..Upto
  BY <1>0, <1>1, PanesAreUpto DEF WindowInv, Shape, Newest, Upto, Mint
<1>3. IsWorkspace(workspaces[w])
  BY DEF WindowInv, Shape
<1>4. /\ DOMAIN workspaces' = DOMAIN workspaces
      /\ \A v \in DOMAIN workspaces : workspaces'[v].runtime = workspaces[v].runtime
      /\ \A v \in DOMAIN workspaces : v # w => workspaces'[v] = workspaces[v]
      /\ workspaces'[w].layout = SplitLeaf(workspaces[w].layout, t, new)
  BY <1>1, <1>3 DEF IsWorkspace, SplitLayout
<1>5. Leaves(w)' = Leaves(w) \cup {new}
  <2>1. IsLayout(workspaces[w].layout, Upto + 1) /\ new \in 1..(Upto + 1) /\ new \notin Leaves(w)
    <3>1. IsLayout(workspaces[w].layout, Upto)
      BY DEF Laid, IsLaid
    <3>2. Upto + 1 \in Nat /\ Upto <= Upto + 1
      BY <1>2
    <3>3. IsLayout(workspaces[w].layout, Upto + 1)
      BY <1>2, <3>1, <3>2, LayoutsLast
    <3> QED BY <1>2, <3>3
  <2>2. ToSet(SplitLeaf(workspaces[w].layout, t, new)) = ToSet(workspaces[w].layout) \cup {new}
    BY <2>1, SplitIsLayout DEF Leaves
  <2> QED BY <1>4, <2>2 DEF Leaves
<1>6. \A v \in DOMAIN workspaces : v # w => Leaves(v)' = Leaves(v)
  BY <1>4 DEF Leaves
<1>7. Shown(workspaces)' = Shown(ws)
  BY <1>1 DEF Shown
<1>8. shown \cap Shown(workspaces)' \subseteq shown'
  BY <1>1, <1>7 DEF Rebuilt, Laid
<1> HIDE DEF ws, kept
<1>9. ASSUME NEW x \in Shown(workspaces)' PROVE x \in Shown(workspaces) \/ x > Upto
  <2>1. PICK v \in DOMAIN workspaces' : x \in Leaves(v)'
    BY DEF Shown, Leaves
  <2>2. x \in Leaves(v) \/ x = new
    BY <1>4, <1>5, <1>6, <2>1
  <2> QED BY <1>2, <1>4, <2>1, <2>2 DEF Shown, Leaves
<1>10. /\ minted'.terminals \in Nat /\ Upto <= minted'.terminals /\ new > Upto /\ Upto' = new
       /\ local \subseteq local' /\ new \in local' /\ unfed' = unfed
  BY <1>1, <1>2 DEF Upto
<1>11. \A v \in DOMAIN workspaces : /\ Leaves(v) \subseteq Leaves(v)'
                                    /\ \A x \in Leaves(v)' : x \in Leaves(v) \/ x = new
  BY <1>5, <1>6
<1>12. PICK c : c = Command("split", w, ws[w].runtime, t, new)
  OBVIOUS
<1>13. c.kind = "split" /\ c.at = t /\ c.new = new
  BY <1>12 DEF Command
<1>14. Fit(c)'
  <2>1. c.at \in 0..Upto' /\ c.new \in 0..Upto'
    BY <1>2, <1>10, <1>13
  <2>2. \A r \in DOMAIN runtimes' : new \notin PanesOf(r)'
    BY <1>1, <1>2 DEF PanesOf
  <2> QED BY <1>13, <2>1, <2>2 DEF Fit, Alive
<1>15. IsSeq(<<c>>) /\ ToSet(<<c>>) = {c} /\ IsSeq(<<>>) /\ ToSet(<<>>) = {}
  BY ShortSeqs
<1>16. CASE Send(<<c>>)
  BY <1>1, <1>4, <1>8, <1>9, <1>10, <1>11, <1>13, <1>14, <1>15, <1>16, AskedTends
<1>17. CASE actors' = actors
  BY <1>1, <1>4, <1>8, <1>9, <1>10, <1>11, <1>15, <1>17, AskedTends
<1> QED BY <1>1, <1>12, <1>16, <1>17

\* One of several panes is closed: the window waits for the answer, unless there is no runtime.
LEMMA ClosePaneOfTends ==
  ASSUME WindowInv, Laid, Idle, Parted, NEW w \in DOMAIN workspaces, NEW t \in Leaves(w), ClosePaneOf(w, t)
  PROVE  Tends
<1> DEFINE unzoomed == [workspaces EXCEPT ![w].zoom = None]
           ws == IF unzoomed[w].runtime # None THEN unzoomed
                 ELSE [unzoomed EXCEPT ![w].layout = RemoveLeaf(@, t)]
           kept == IF ws = workspaces THEN widgets ELSE Rebuilt(ws, w, widgets)
<1>1. /\ life = "up" /\ UNCHANGED <<events, runtimes, printed, hearing, unplaced, stuck, unfed, index, minted, local>>
      /\ workspaces' = ws /\ shown' = shown \cap kept
      /\ \/ actors' = actors
         \/ Send(<<Command("close", w, ws[w].runtime, t, None)>>)
  BY DEF ClosePaneOf, Draw, DrawWithout, Asks, daemon
<1>2. /\ minted'.terminals = Upto /\ Upto' = Upto /\ Upto \in Nat /\ Upto <= Upto
      /\ Leaves(w) \subseteq 1..Upto
  BY <1>1, PanesAreUpto DEF Upto
<1>3. IsWorkspace(workspaces[w])
  BY DEF WindowInv, Shape
<1>4. /\ DOMAIN workspaces' = DOMAIN workspaces
      /\ \A v \in DOMAIN workspaces : workspaces'[v].runtime = workspaces[v].runtime
      /\ \A v \in DOMAIN workspaces : v # w => workspaces'[v] = workspaces[v]
      /\ workspaces'[w].layout = IF workspaces[w].runtime # None THEN workspaces[w].layout
                                 ELSE RemoveLeaf(workspaces[w].layout, t)
  BY <1>1, <1>3 DEF IsWorkspace
<1>5. Shown(workspaces)' = Shown(ws)
  BY <1>1 DEF Shown
<1>6. shown \cap Shown(workspaces)' \subseteq shown'
  BY <1>1, <1>5 DEF Rebuilt, Laid
<1>7. PICK c : c = Command("close", w, ws[w].runtime, t, None)
  OBVIOUS
<1>8. Send(<<c>>) \/ actors' = actors
  BY <1>1, <1>7
<1>9. c.kind = "close" /\ c.at = t /\ c.new = None
  BY <1>7 DEF Command
<1> HIDE DEF ws, kept, unzoomed
<1>10. Fit(c)'
  BY <1>2, <1>9 DEF Fit, None
<1>11. ToSet(RemoveLeaf(workspaces[w].layout, t)) = Leaves(w) \ {t}
  <2>1. IsLayout(workspaces[w].layout, Upto)
    BY DEF Laid, IsLaid
  <2> QED BY <2>1, RemovedIsLayout DEF Leaves
<1>12. ASSUME NEW v \in DOMAIN workspaces
       PROVE  Leaves(v)' \subseteq Leaves(v) /\ (workspaces[v].runtime # None => Leaves(v)' = Leaves(v))
  BY <1>4, <1>11 DEF Leaves
<1>13. Shown(workspaces)' \subseteq Shown(workspaces)
  BY <1>4, <1>12 DEF Shown, Leaves
<1>14. IsSeq(<<c>>) /\ ToSet(<<c>>) = {c} /\ IsSeq(<<>>) /\ ToSet(<<>>) = {}
  BY ShortSeqs
<1>15. CASE Send(<<c>>)
  BY <1>1, <1>2, <1>4, <1>6, <1>9, <1>10, <1>12, <1>13, <1>14, <1>15, AskedTends
<1>16. CASE actors' = actors
  BY <1>1, <1>2, <1>4, <1>6, <1>12, <1>13, <1>14, <1>16, AskedTends
<1> QED BY <1>8, <1>15, <1>16

\* A pane is zoomed or not: the layout is the same.
LEMMA TogglePaneZoomTends ==
  ASSUME WindowInv, Laid, Idle, Parted, NEW w \in DOMAIN workspaces, NEW t \in Leaves(w), TogglePaneZoom(w, t)
  PROVE  Tends
<1> DEFINE ws == [workspaces EXCEPT ![w].zoom = IF @ = None THEN t ELSE None]
           kept == Rebuilt(ws, w, widgets)
           c == Command("inventory", None, None, None, None)
<1>1. /\ life = "up" /\ UNCHANGED <<actors, events, runtimes, printed, hearing, unplaced, stuck, unfed, index, minted, local>>
      /\ workspaces' = ws /\ shown' = shown \cap kept
  BY DEF TogglePaneZoom, Draw, DrawWithout, Asks, daemon
<1>2. /\ DOMAIN workspaces' = DOMAIN workspaces
      /\ \A v \in DOMAIN workspaces : workspaces'[v].runtime = workspaces[v].runtime
      /\ \A v \in DOMAIN workspaces : workspaces'[v].layout = workspaces[v].layout
      /\ \A v \in DOMAIN workspaces : ws[v].layout = workspaces[v].layout
  BY <1>1 DEF WindowInv, Shape, IsWorkspace
<1>3. Shown(ws) = Shown(workspaces)
  BY <1>2 DEF Shown
<1>4. shown \cap Shown(workspaces) \subseteq shown'
  BY <1>1, <1>3 DEF Rebuilt, Laid
<1>5. \A v \in DOMAIN workspaces : Leaves(v)' = Leaves(v)
  BY <1>2 DEF Leaves
<1>6. c.kind = "inventory" /\ c.at \in 0..Upto /\ c.new = None
  BY PanesAreUpto DEF Command, None
<1> HIDE DEF ws, kept, c
<1> QED BY <1>1, <1>2, <1>4, <1>5, <1>6, StillTends

\* The connection of a workspace is tried again: it is opened (window/runtime.rs:623).
LEMMA RetryWorkspaceTends ==
  ASSUME WindowInv, Laid, Idle, Parted, NEW w \in DOMAIN workspaces, RetryWorkspace(w)
  PROVE  Tends
<1>0. PICK c : c = Open(workspaces, w)
  OBVIOUS
<1>1. /\ life = "up" /\ UNCHANGED <<events, runtimes, printed, hearing, unplaced, stuck, unfed, index, minted, local, shown>>
      /\ workspaces' = [workspaces EXCEPT ![w].status = "waiting"] /\ Send(<<c>>)
  BY <1>0 DEF RetryWorkspace, Asks, daemon, panes
<1>2. /\ DOMAIN workspaces' = DOMAIN workspaces
      /\ \A v \in DOMAIN workspaces : workspaces'[v].runtime = workspaces[v].runtime
      /\ \A v \in DOMAIN workspaces : workspaces'[v].layout = workspaces[v].layout
  BY <1>1 DEF WindowInv, Shape, IsWorkspace
<1>3. \A v \in DOMAIN workspaces : Leaves(v)' = Leaves(v)
  BY <1>2 DEF Leaves
<1>4. c.kind = "open" /\ c.ws = w /\ c.at \in 0..Upto /\ c.new = None
  <2>1. IsLayout(workspaces[w].layout, Upto) /\ workspaces[w].layout # <<>> /\ Upto \in Nat
    BY PanesAreUpto DEF Laid, IsLaid
  <2>2. Head(workspaces[w].layout) \in 1..Upto
    BY <2>1 DEF IsLayout
  <2>3. c.at = Head(workspaces[w].layout)
    BY <1>0 DEF Open, Command
  <2> QED BY <1>0, <2>1, <2>2, <2>3 DEF Open, Command
<1>5. shown \cap Shown(workspaces) \subseteq shown'
  BY <1>1
<1> QED BY <1>1, <1>2, <1>3, <1>4, <1>5, StillTends

\* The first leaf of a layout, which is not empty.
LEMMA HeadIsLeaf ==
  ASSUME NEW s, NEW n, IsLayout(s, n), s # <<>>
  PROVE  Head(s) \in 1..n
<1>1. IsSeq(s) /\ ToSet(s) \subseteq 1..n
  BY LayoutIs
<1>2. 1 \in DOMAIN s /\ s[1] \in ToSet(s)
  BY <1>1, SeqFacts
<1>3. Head(s) = s[1]
  OBVIOUS
<1> QED BY <1>1, <1>2, <1>3

\* The actor is replaced: the new one tracks nothing yet, and opens what is shown
\* (retry_all_workspaces_for_endpoint, window/runtime.rs:623).
LEMMA RetryEndpointTends ==
  ASSUME WindowInv, Laid, NEW w \in DOMAIN workspaces, RetryEndpoint(w)
  PROVE  Tends
<1> DEFINE opens == Opens(workspaces, DOMAIN workspaces)
<1>0. Shape /\ DOMAIN workspaces \in SUBSET (Issued \cup {None})
  BY DEF WindowInv, Numbered
<1>1. /\ life = "up" /\ UNCHANGED <<events, runtimes, printed, hearing, unplaced, stuck, unfed, index, minted, local, shown>>
  BY DEF RetryEndpoint, Asks, daemon, panes
<1>2. /\ DOMAIN workspaces' = DOMAIN workspaces
      /\ \A v \in DOMAIN workspaces : workspaces'[v].layout = workspaces[v].layout
  BY <1>0 DEF RetryEndpoint, Shape, IsWorkspace
<1>3. Shown(workspaces)' = Shown(workspaces)
  BY <1>2 DEF Shown
<1>4. /\ Upto \in Nat /\ Upto' = Upto /\ minted'.terminals = Upto /\ Upto <= Upto
  BY <1>1, PanesAreUpto DEF Upto
<1>5. /\ InUse'.queue = opens /\ InUse'.tracked = <<>>
      /\ \A x \in Queued' : x \in Queued \/ x = Command("shutdown", None, None, None, None) \/ x \in ToSet(opens)
  BY <1>0, RetryEndpointReplaces
<1>6. /\ IsSeq(opens)
      /\ \A x \in ToSet(opens) : x.kind = "open" /\ x.ws \in DOMAIN workspaces /\ x = Open(workspaces, x.ws)
  BY <1>0, OpensIsSeq
<1> HIDE DEF opens
<1>7. \A v : ~Settled(v)'
  <2>1. DOMAIN InUse'.tracked = {}
    BY <1>5
  <2> QED BY <2>1 DEF Settled, SettledAt
<1>8. ASSUME NEW x \in Queued', x \notin Queued PROVE Fit(x)'
  <2>1. CASE x = Command("shutdown", None, None, None, None)
    <3>1. x.kind = "shutdown" /\ x.at = None /\ x.new = None
      BY <2>1 DEF Command
    <3> QED BY <1>4, <3>1 DEF Fit, None
  <2>2. CASE x \in ToSet(opens)
    <3>1. PICK v \in DOMAIN workspaces : x = Open(workspaces, v)
      BY <1>6, <2>2
    <3>2. x.kind = "open" /\ x.new = None /\ x.at = Head(workspaces[v].layout)
      BY <3>1 DEF Open, Command
    <3>3. IsLayout(workspaces[v].layout, Upto) /\ workspaces[v].layout # <<>>
      BY DEF Laid, IsLaid
    <3>4. x.at \in 1..Upto
      <4>1. Head(workspaces[v].layout) \in 1..Upto
        BY <3>3, HeadIsLeaf
      <4> QED BY <3>2, <4>1
    <3> QED BY <1>4, <3>2, <3>4 DEF Fit, None
  <2> QED BY <1>5, <1>8, <2>1, <2>2
<1>9. Idle'
  <2>1. DOMAIN InUse'.tracked = {}
    BY <1>5
  <2> QED BY <2>1 DEF Idle
<1>10. Parted'
  <2>1. \A n \in DOMAIN opens : opens[n].ws \in DOMAIN workspaces
    BY <1>6, SeqFacts
  <2> QED BY <1>2, <1>5, <1>7, <2>1 DEF Parted, PartedFrom, Parting, Settled
<1>11. \A v, r : ~Hears(v, r)' /\ ~Joined(v, r)'
  BY <1>7 DEF Hears, Joined
<1> QED BY <1>1, <1>3, <1>4, <1>7, <1>8, <1>9, <1>10, <1>11 DEF Tends

\* The user's operations.
LEMMA UserActsTend ==
  ASSUME WindowInv, Laid, Idle, Parted, UserActs
  PROVE  Tends
<1>0. Shape /\ life = "up"
  BY UserActsAreOrders DEF WindowInv, Orders
<1>1. ASSUME AddWorkspace PROVE Tends
  <2>1. PICK w, t : w = Newest("workspaces") /\ t = Newest("terminals")
    OBVIOUS
  <2>2. /\ w <= MaxWorkspaces /\ minted' = [minted EXCEPT !.workspaces = w, !.terminals = t]
        /\ workspaces' = With(workspaces, w, Workspace(<<t>>, None)) /\ Send(<<Open(workspaces', w)>>)
        /\ shown' = shown \cap (widgets \cup {t}) /\ local' = local \cup {t}
        /\ UNCHANGED <<runtimes, printed, hearing, unplaced, stuck, unfed, index, events>>
    BY <1>1, <2>1 DEF AddWorkspace, Draw, DrawWithout, daemon
  <2> QED BY <1>0, <2>1, <2>2, AddedTends
<1>2. ASSUME NEW r \in offer, AttachToExistingRuntime(r) PROVE Tends
  <2>1. PICK w, t : w = Newest("workspaces") /\ t = Newest("terminals")
    OBVIOUS
  <2>2. /\ w <= MaxWorkspaces /\ minted' = [minted EXCEPT !.workspaces = w, !.terminals = t]
        /\ workspaces' = With(workspaces, w, Workspace(<<t>>, r)) /\ Send(<<Open(workspaces', w)>>)
        /\ shown' = shown \cap (widgets \cup {t}) /\ local' = local \cup {t}
        /\ UNCHANGED <<runtimes, printed, hearing, unplaced, stuck, unfed, index, events>>
    BY <1>2, <2>1 DEF AttachToExistingRuntime, Draw, DrawWithout, daemon
  <2> QED BY <1>0, <2>1, <2>2, AddedTends
<1>3. ASSUME CloseAllSessions PROVE Tends
  <2>1. /\ EndWorkspaces(DOMAIN workspaces) /\ workspaces' = <<>>
        /\ UNCHANGED <<events, runtimes, printed, hearing, unplaced, stuck, local, minted, unfed>>
    BY <1>3 DEF CloseAllSessions, Draw, DrawWithout, daemon
  <2>2. Without(workspaces, DOMAIN workspaces) = [x \in {} |-> workspaces[x]] /\ [x \in {} |-> workspaces[x]] = <<>>
    BY DEF Without, Restrict
  <2>3. Shown(workspaces)' = {}
    <3>1. DOMAIN <<>> = {}
      OBVIOUS
    <3> QED BY <2>1, <3>1 DEF Shown
  <2>4. unfed \subseteq unfed' /\ shown \cap Shown(workspaces)' \subseteq shown' \cup unfed'
        /\ DOMAIN workspaces \in SUBSET DOMAIN workspaces
    BY <2>1, <2>3
  <2> QED BY <1>0, <2>1, <2>2, <2>4, EndsTend
<1>4. ASSUME ConnectExisting \/ DismissDialog \/ CloseDirect PROVE Tends
  <2>1. PICK c : c = Command("inventory", None, None, None, None)
    OBVIOUS
  <2>2. /\ workspaces' = workspaces /\ (actors' = actors \/ Send(<<c>>))
        /\ UNCHANGED <<events, runtimes, printed, hearing, unplaced, stuck, unfed, local, minted, index, shown>>
    BY <1>4, <2>1 DEF ConnectExisting, DismissDialog, CloseDirect, screen, daemon, panes
  <2>3. c.kind = "inventory" /\ c.at \in 0..Upto /\ c.new = None
    BY <2>1, PanesAreUpto DEF Command, None
  <2>4. \A v \in DOMAIN workspaces : workspaces'[v].runtime = workspaces[v].runtime /\ Leaves(v)' = Leaves(v)
    BY <2>2 DEF Leaves
  <2>5. shown \cap Shown(workspaces) \subseteq shown'
    BY <2>2
  <2> QED BY <1>0, <2>2, <2>3, <2>4, <2>5, StillTends
<1>5. ASSUME NEW w \in DOMAIN workspaces, CloseSession(w) PROVE Tends
  <2> DEFINE ws == Without(workspaces, {w})
             gone == {w}
  <2>1. /\ EndWorkspaces({w}) /\ UNCHANGED <<runtimes, printed, hearing, unplaced, stuck, local, minted>>
    BY <1>5 DEF CloseSession, daemon
  <2>2. CASE Count > 1
    <3>1. /\ workspaces' = ws /\ events' = events
          /\ shown' = shown \cap (widgets \ ToSet(workspaces[w].layout))
          /\ unfed' = unfed \cup Taken(ToSet(workspaces[w].layout), ws)
      BY <1>5, <2>2 DEF CloseSession, DrawWithout
    <3>2. Shown(workspaces)' = Shown(ws)
      BY <3>1 DEF Shown
    <3>3. unfed \subseteq unfed' /\ shown \cap Shown(workspaces)' \subseteq shown' \cup unfed'
      BY <3>1, <3>2 DEF Taken, Laid
    <3>4. EndWorkspaces(gone) /\ workspaces' = Without(workspaces, gone) /\ gone \in SUBSET DOMAIN workspaces
      BY <2>1, <3>1
    <3> HIDE DEF gone, ws
    <3> QED BY <1>0, <2>1, <3>1, <3>3, <3>4, EndsTend
  <2>3. CASE ~(Count > 1)
    <3>1. /\ workspaces' = ws /\ life' = "leaving" /\ events' = <<>>
          /\ shown' = shown \cap widgets /\ unfed' = unfed
      BY <1>5, <2>3 DEF CloseSession, Draw, DrawWithout
    <3>2. unfed \subseteq unfed' /\ shown \cap Shown(workspaces)' \subseteq shown' \cup unfed'
      BY <3>1 DEF Laid
    <3>3. EndWorkspaces(gone) /\ workspaces' = Without(workspaces, gone) /\ gone \in SUBSET DOMAIN workspaces
      BY <2>1, <3>1
    <3>4. events' = events \/ (life' # "up" /\ events' = <<>>)
      BY <3>1
    <3> HIDE DEF gone, ws
    <3> QED BY <1>0, <2>1, <3>2, <3>3, <3>4, EndsTend
  <2> QED BY <2>2, <2>3
<1>6. ASSUME NEW w \in DOMAIN workspaces,
             DetachRuntime(w) \/ RetryWorkspace(w) \/ RetryEndpoint(w)
      PROVE  Tends
  BY <1>6, DetachRuntimeTends, RetryWorkspaceTends, RetryEndpointTends
<1>7. ASSUME NEW w \in DOMAIN workspaces, NEW t \in Leaves(w),
             SplitTerminal(w, t) \/ ClosePaneOf(w, t) \/ TogglePaneZoom(w, t)
      PROVE  Tends
  BY <1>7, SplitTerminalTends, ClosePaneOfTends, TogglePaneZoomTends
<1> QED BY <1>1, <1>2, <1>3, <1>4, <1>5, <1>6, <1>7 DEF UserActs, Leaves

\* The window saves, or is closed.
LEMMA SavesTend ==
  ASSUME WindowInv, Laid, Idle, Parted, AutoSave \/ Quit
  PROVE  Tends
<1>1. PICK c : c = Command("inventory", None, None, None, None)
  OBVIOUS
<1>2. /\ life = "up" /\ workspaces' = workspaces /\ actors' = actors
      /\ UNCHANGED <<runtimes, printed, hearing, unplaced, stuck, unfed, local, minted, index, shown>>
      /\ events' = events \/ (life' # "up" /\ events' = <<>>)
  BY DEF AutoSave, Quit, Asks, screen, daemon, panes
<1>3. c.kind = "inventory" /\ c.at \in 0..Upto /\ c.new = None
  BY <1>1, PanesAreUpto DEF Command, None
<1>4. \A v \in DOMAIN workspaces : workspaces'[v].runtime = workspaces[v].runtime /\ Leaves(v)' = Leaves(v)
  BY <1>2 DEF Leaves
<1>5. shown \cap Shown(workspaces) \subseteq shown'
  BY <1>2
<1> QED BY <1>2, <1>3, <1>4, <1>5, StillTends

-----------------------------------------------------------------------------
(* What reading an event does to the panes.                                 *)

\* The window reads e: it is no longer on its way, all that comes after it still is.
TakesIn(e) ==
  /\ life = "up" /\ life' = "up" /\ events # <<>> /\ e = events[1] /\ events' = Tail(events)
  /\ UNCHANGED <<runtimes, printed, hearing>>
  /\ minted'.terminals \in Nat /\ Upto <= minted'.terminals
  /\ \A c \in Queued' : c \in Queued \/ Fit(c)'
  /\ Idle' /\ Parted'
  /\ \A w : Settled(w)' => Settled(w)
  /\ InUse'.tracked = InUse.tracked /\ InUse'.link = InUse.link
  /\ \A t \in Shown(workspaces)' \ index' : t \in Shown(workspaces) \ index

\* The events that are left move one position down.
LEMMA TailShifts ==
  ASSUME Shape, NEW e, events # <<>>, e = events[1], events' = Tail(events)
  PROVE  /\ e \in Sent /\ 1 \in DOMAIN events /\ DOMAIN events' \subseteq Nat
         /\ \A n \in DOMAIN events' : n + 1 \in DOMAIN events /\ events'[n] = events[n + 1]
         /\ \A n \in Nat : \A p : Creation(n + 1, p) => Creation(n, p)'
         /\ \A n \in Nat : \A t : Closing(n + 1, t) => Closing(n, t)'
         /\ \A n \in Nat : \A p : Owed(n + 1, p) => Owed(n, p)'
         /\ \A p : Creation(0, p) => Creates(e, p) \/ Creation(0, p)'
         /\ \A t : Closing(0, t) => Closes(e, t) \/ Closing(0, t)'
         /\ \A p : Owed(0, p) => Feeds(e, p) \/ Owed(0, p)'
         /\ \A w : Awaits(w) => Reopens(e, w) \/ Awaits(w)'
<1>1. IsSeq(events) /\ IsSeq(events')
  BY TailIsSeq DEF Shape
<1>2. /\ Len(events) \in Nat /\ DOMAIN events = 1..Len(events) /\ 1 \in DOMAIN events /\ e \in Sent
      /\ Len(events') = Len(events) - 1 /\ DOMAIN events' = 1..(Len(events) - 1)
      /\ \A n \in 1..(Len(events) - 1) : events'[n] = events[n + 1]
  <2>1. /\ Len(events) \in Nat /\ DOMAIN events = 1..Len(events) /\ Len(events) > 0
        /\ \A n \in DOMAIN events : events[n] \in ToSet(events)
        /\ Len(events') = Len(events) - 1
        /\ \A n \in 1..(Len(events) - 1) : events'[n] = events[n + 1]
    BY <1>1, SeqFacts, TailIsSeq
  <2>2. DOMAIN events' = 1..Len(events')
    BY <1>1, SeqFacts
  <2> QED BY <2>1, <2>2 DEF Sent
<1>3. ASSUME NEW n \in DOMAIN events' PROVE n \in Nat /\ n + 1 \in DOMAIN events /\ events'[n] = events[n + 1]
  BY <1>2
<1>4. ASSUME NEW n \in Nat, NEW m \in DOMAIN events, m > n + 1
      PROVE  m - 1 \in DOMAIN events' /\ m - 1 > n /\ events'[m - 1] = events[m]
  <2>1. m - 1 \in 1..(Len(events) - 1) /\ m - 1 > n /\ (m - 1) + 1 = m
    BY <1>2, <1>4
  <2>2. events'[m - 1] = events[(m - 1) + 1]
    BY <1>2, <2>1
  <2> QED BY <1>2, <2>1, <2>2
<1>5. ASSUME NEW n \in Nat
      PROVE  /\ \A p : Creation(n + 1, p) => Creation(n, p)'
             /\ \A t : Closing(n + 1, t) => Closing(n, t)'
             /\ \A p : Owed(n + 1, p) => Owed(n, p)'
  <2>1. ASSUME NEW p, Creation(n + 1, p) PROVE Creation(n, p)'
    <3>1. PICK m \in DOMAIN events : m > n + 1 /\ Creates(events[m], p)
      BY <2>1 DEF Creation
    <3>2. m - 1 \in DOMAIN events' /\ m - 1 > n /\ events'[m - 1] = events[m]
      BY <1>4, <3>1
    <3> QED BY <3>1, <3>2 DEF Creation, Creates
  <2>2. ASSUME NEW p, Closing(n + 1, p) PROVE Closing(n, p)'
    <3>1. PICK m \in DOMAIN events : m > n + 1 /\ Closes(events[m], p)
      BY <2>2 DEF Closing
    <3>2. m - 1 \in DOMAIN events' /\ m - 1 > n /\ events'[m - 1] = events[m]
      BY <1>4, <3>1
    <3> QED BY <3>1, <3>2 DEF Closing, Closes
  <2>3. ASSUME NEW p, Owed(n + 1, p) PROVE Owed(n, p)'
    <3>1. PICK m \in DOMAIN events : m > n + 1 /\ Feeds(events[m], p)
      BY <2>3 DEF Owed
    <3>2. m - 1 \in DOMAIN events' /\ m - 1 > n /\ events'[m - 1] = events[m]
      BY <1>4, <3>1
    <3> QED BY <3>1, <3>2 DEF Owed, Feeds, Reopens
  <2> QED BY <2>1, <2>2, <2>3
<1>6. \A m \in DOMAIN events : m > 0 => m = 1 \/ m > 0 + 1
  BY <1>2
<1>7. 0 \in Nat
  OBVIOUS
<1>8. \A p : Creation(0, p) => Creates(e, p) \/ Creation(0, p)'
  <2>1. \A p : Creation(0, p) => Creates(e, p) \/ Creation(0 + 1, p)
    BY <1>6 DEF Creation
  <2> QED BY <1>5, <1>7, <2>1
<1>9. \A t : Closing(0, t) => Closes(e, t) \/ Closing(0, t)'
  <2>1. \A t : Closing(0, t) => Closes(e, t) \/ Closing(0 + 1, t)
    BY <1>6 DEF Closing
  <2> QED BY <1>5, <1>7, <2>1
<1>10. \A p : Owed(0, p) => Feeds(e, p) \/ Owed(0, p)'
  <2>1. \A p : Owed(0, p) => Feeds(e, p) \/ Owed(0 + 1, p)
    BY <1>6 DEF Owed
  <2> QED BY <1>5, <1>7, <2>1
<1>11. ASSUME NEW w, Awaits(w) PROVE Reopens(e, w) \/ Awaits(w)'
  <2>1. PICK m \in DOMAIN events : Reopens(events[m], w)
    BY <1>11 DEF Awaits, Sent, ToSet
  <2>2. CASE m = 1
    BY <2>1, <2>2
  <2>3. CASE m # 1
    <3>1. m > 0 + 1
      BY <1>2, <2>3
    <3>2. m - 1 \in DOMAIN events' /\ events'[m - 1] = events[m]
      BY <1>4, <1>7, <3>1
    <3>3. events'[m - 1] \in Sent'
      BY <3>2 DEF Sent, ToSet
    <3> QED BY <2>1, <3>2, <3>3 DEF Awaits, Reopens
  <2> QED BY <2>2, <2>3
<1> QED BY <1>2, <1>3, <1>5, <1>8, <1>9, <1>10, <1>11

\* What an event that is taken in did not touch stays as it was: of the workspaces that are joined if they
\* agree with their runtimes, of the panes that are shown if the output they are still to get is accounted for.
LEMMA TakesInKeepsPanes ==
  ASSUME WindowInv, Laid, PanesInv, NEW e, TakesIn(e),
         \A w, r : Joined(w, r)' /\ ~Awaits(w)' => Agrees(w, r)',
         \A w \in DOMAIN workspaces', r \in DOMAIN runtimes : Hears(w, r) =>
           \A p \in printed \cap PanesOf(r) \cap Leaves(w)' :
             \/ p \in shown' \cup unfed' \cup unheard \/ Owed(0, p)'
             \/ /\ w \in DOMAIN workspaces /\ p \in Leaves(w) /\ (p \in shown \cup unfed => p \in shown' \cup unfed')
                /\ ~Creates(e, p) /\ ~Feeds(e, p)
  PROVE  PanesInv'
<1>0. Shape
  BY DEF WindowInv
<1>1. /\ Upto \in Nat /\ Upto' = minted'.terminals /\ 0..Upto \subseteq 0..Upto'
      /\ \A r : PanesOf(r)' = PanesOf(r) /\ (Alive(r)' <=> Alive(r))
      /\ UNCHANGED <<attached, unheard>>
  BY PanesAreUpto DEF TakesIn, Upto, PanesOf, Alive, hearing
<1>2. /\ DOMAIN events' \subseteq Nat
      /\ \A n \in DOMAIN events' : n + 1 \in DOMAIN events /\ events'[n] = events[n + 1]
      /\ \A n \in Nat : \A p : Creation(n + 1, p) => Creation(n, p)'
      /\ \A n \in Nat : \A t : Closing(n + 1, t) => Closing(n, t)'
      /\ \A n \in Nat : \A p : Owed(n + 1, p) => Owed(n, p)'
      /\ \A p : Creation(0, p) => Creates(e, p) \/ Creation(0, p)'
      /\ \A p : Owed(0, p) => Feeds(e, p) \/ Owed(0, p)'
  BY <1>0, TailShifts DEF TakesIn
<1>3. Current'
  <2> SUFFICES ASSUME NEW n \in DOMAIN events' PROVE Timely(events[n], n)'
    BY DEF Current
  <2>1. PICK x, m : x = events[m] /\ m = n + 1
    OBVIOUS
  <2>2. Timely(x, m) /\ events'[n] = x /\ n \in Nat
    BY <1>2, <2>1 DEF PanesInv, Supply, Current
  <2>3. (\A p : Creation(m, p) => Creation(n, p)') /\ (\A t : Closing(m, t) => Closing(n, t)')
    BY <1>2, <2>1, <2>2
  <2>4. Timely(x, n)'
    BY <1>1, <2>2, <2>3 DEF Timely
  <2> QED BY <2>2, <2>4 DEF Timely
<1>4. Apart'
  BY <1>1 DEF Apart, PanesInv, Supply, TakesIn
<1>5. Fitting'
  <2>1. ASSUME NEW c, Fit(c) PROVE Fit(c)'
    BY <1>1, <2>1 DEF Fit
  <2> QED BY <2>1 DEF Fitting, PanesInv, Supply, TakesIn
<1>6. Indexed'
  BY <1>1 DEF Indexed, PanesInv, TakesIn
<1>7. Faithful'
  BY DEF Faithful
<1>8. Fed'
  <2> SUFFICES ASSUME NEW w, NEW r, Hears(w, r)', Alive(r)', NEW p \in printed' \cap PanesOf(r)'
               PROVE  FollowedUp(p)' /\ Met(w, p)'
    BY DEF Fed
  <2>1. Hears(w, r) /\ r \in DOMAIN runtimes /\ p \in printed \cap PanesOf(r) /\ life = "up"
    BY <1>1 DEF TakesIn, Hears, Alive
  <2>2. FollowedUp(p) /\ Met(w, p)
    BY <2>1 DEF PanesInv, Fed, Alive
  <2>3. FollowedUp(p)'
    <3> SUFFICES ASSUME NEW n \in DOMAIN events', events'[n].kind = "opened",
                        p \in ToSet(events'[n].panes) \ events'[n].prints
                 PROVE  Owed(n, p)' \/ p \in unheard'
      BY DEF FollowedUp
    <3>1. (Owed(n + 1, p) \/ p \in unheard) /\ n \in Nat
      BY <1>2, <2>2 DEF FollowedUp
    <3> QED BY <1>1, <1>2, <3>1
  <2>4. ASSUME w \in DOMAIN workspaces', p \in Leaves(w)'
        PROVE  p \in shown' \cup unfed' \cup unheard \/ Creation(0, p)' \/ Owed(0, p)'
    <3>1. CASE /\ w \in DOMAIN workspaces /\ p \in Leaves(w) /\ (p \in shown \cup unfed => p \in shown' \cup unfed')
               /\ ~Creates(e, p) /\ ~Feeds(e, p)
      BY <1>2, <2>2, <3>1 DEF Met
    <3> QED BY <2>1, <2>4, <3>1
  <2> QED BY <1>1, <2>3, <2>4 DEF Met
<1>9. Idle' /\ Parted'
  BY DEF TakesIn
<1>10. Tuned'
  BY <1>1 DEF Tuned, PanesInv
<1> QED BY <1>3, <1>4, <1>5, <1>6, <1>7, <1>8, <1>9, <1>10 DEF PanesInv, Supply

\* A workspace that keeps what it had, and to which the event does what it says.
LEMMA TakesInAgrees ==
  ASSUME WindowInv, Faithful, NEW e, TakesIn(e), NEW w, NEW r, Joined(w, r)', ~Awaits(w)', ~Reopens(e, w),
         w \in DOMAIN workspaces, workspaces'[w].runtime = workspaces[w].runtime,
         \A p \in PanesOf(r) :
           p \in Leaves(w) \/ <<w, p>> \in unplaced \/ Creates(e, p) => p \in Leaves(w)' \/ <<w, p>> \in unplaced',
         \A t \in Leaves(w)' : \/ t \in PanesOf(r) \cup local' \cup stuck' \/ Closing(0, t)'
                               \/ t \in Leaves(w) /\ ~Closes(e, t) /\ t \notin local \cup stuck
  PROVE  Agrees(w, r)'
<1>0. Shape
  BY DEF WindowInv
<1>1. /\ \A p : Creation(0, p) => Creates(e, p) \/ Creation(0, p)'
      /\ \A t : Closing(0, t) => Closes(e, t) \/ Closing(0, t)'
      /\ Awaits(w) => Reopens(e, w) \/ Awaits(w)'
  BY <1>0, TailShifts DEF TakesIn
<1>2. Joined(w, r) /\ ~Awaits(w) /\ life = "up"
  BY <1>1 DEF TakesIn, Joined, Alive
<1>3. Agrees(w, r)
  BY <1>2 DEF Faithful
<1>4. PanesOf(r)' = PanesOf(r)
  BY DEF TakesIn, PanesOf
<1>5. \A p \in PanesOf(r)' : p \in Leaves(w)' \/ <<w, p>> \in unplaced' \/ Creation(0, p)'
  BY <1>1, <1>3, <1>4 DEF Agrees
<1>6. \A t \in Leaves(w)' : t \in PanesOf(r)' \cup local' \cup stuck' \/ Closing(0, t)'
  BY <1>1, <1>3, <1>4 DEF Agrees
<1> QED BY <1>5, <1>6 DEF Agrees

\* What is read next is timely.
LEMMA NextIsTimely ==
  ASSUME WindowInv, PanesInv, NEW e, TakesIn(e)
  PROVE  /\ Alive(e.runtime) =>
              /\ e.kind = "opened" => /\ \A p \in PanesOf(e.runtime) : p \in ToSet(e.panes) \/ Creation(0, p)'
                                      /\ \A t \in ToSet(e.panes) : t \in PanesOf(e.runtime) \/ Closing(0, t)'
              /\ e.kind = "created" => e.pane \in PanesOf(e.runtime) \/ Closing(0, e.pane)'
              /\ e.kind \in {"created", "closed"} => e.at \notin PanesOf(e.runtime)
         /\ \A w, r : Hears(w, r) /\ r \in DOMAIN runtimes =>
              \A p \in printed \cap PanesOf(r) :
                e.kind = "opened" /\ p \in ToSet(e.panes) \ e.prints => Owed(0, p)' \/ p \in unheard
<1>0. Shape /\ 0 \in Nat /\ 0 + 1 = 1
  BY DEF WindowInv
<1>1. /\ 1 \in DOMAIN events /\ e = events[1] /\ life = "up"
      /\ \A n \in Nat : \A p : Creation(n + 1, p) => Creation(n, p)'
      /\ \A n \in Nat : \A t : Closing(n + 1, t) => Closing(n, t)'
      /\ \A n \in Nat : \A p : Owed(n + 1, p) => Owed(n, p)'
  BY <1>0, TailShifts DEF TakesIn
<1>2. /\ \A p : Creation(1, p) => Creation(0, p)'
      /\ \A t : Closing(1, t) => Closing(0, t)'
      /\ \A p : Owed(1, p) => Owed(0, p)'
  <2>1. ASSUME NEW p PROVE Creation(0 + 1, p) => Creation(0, p)'
    BY <1>0, <1>1
  <2>2. ASSUME NEW t PROVE Closing(0 + 1, t) => Closing(0, t)'
    BY <1>0, <1>1
  <2>3. ASSUME NEW p PROVE Owed(0 + 1, p) => Owed(0, p)'
    BY <1>0, <1>1
  <2> QED BY <1>0, <2>1, <2>2, <2>3
<1>3. Timely(e, 1)
  BY <1>1 DEF PanesInv, Supply, Current
<1>4. \A w, r : Hears(w, r) /\ r \in DOMAIN runtimes => \A p \in printed \cap PanesOf(r) : FollowedUp(p)
  BY <1>1 DEF PanesInv, Fed, Alive
<1>5. \A w, r : Hears(w, r) /\ r \in DOMAIN runtimes => \A p \in printed \cap PanesOf(r) :
        e.kind = "opened" /\ p \in ToSet(e.panes) \ e.prints => Owed(1, p) \/ p \in unheard
  BY <1>1, <1>4 DEF FollowedUp
<1> QED BY <1>2, <1>3, <1>5 DEF Timely

\* An event that is read, if it makes no workspace and asks nothing.
LEMMA QuietReadTakesIn ==
  ASSUME WindowInv, Laid, PanesInv, NEW kind, Polls(kind), NEW e, e = Polling, life' = life,
         UNCHANGED <<runtimes, printed, hearing, minted, actors>>, DOMAIN workspaces' = DOMAIN workspaces,
         \A t \in Shown(workspaces)' \ index' : t \in Shown(workspaces) \ index
  PROVE  TakesIn(e) /\ e.kind = kind
<1>1. /\ e.kind = kind /\ life = "up" /\ events # <<>> /\ events' = Tail(events) /\ e = events[1]
  BY ReadIsTidy
<1>2. minted'.terminals \in Nat /\ Upto <= minted'.terminals
  BY PanesAreUpto DEF Upto
<1>3. InUse' = InUse /\ Queued' = Queued
  BY DEF InUse, Queued
<1>4. Idle' /\ \A w : Settled(w)' => Settled(w)
  BY <1>3 DEF Idle, PanesInv, Settled
<1>5. Parted'
  BY <1>3 DEF Parted, PanesInv
<1> QED BY <1>1, <1>2, <1>3, <1>4, <1>5 DEF TakesIn

\* apply_managed_workspace_opened (workspace_state.rs:469): the workspace shows the tree that it is told, with
\* the output that the snapshots have.
LEMMA WorkspaceOpenedKeepsPanes ==
  ASSUME WindowInv, Laid, PanesInv, WorkspaceOpened
  PROVE  PanesInv'
<1>0. PICK e : e = Polling
  OBVIOUS
<1>1. /\ Polls("opened") /\ life' = life
      /\ UNCHANGED <<runtimes, printed, hearing, minted, actors>>
  BY DEF WorkspaceOpened, daemon
<1>2. Shape /\ life = "up" /\ e.kind = "opened" /\ \A v \in DOMAIN workspaces : IsWorkspace(workspaces[v])
  BY <1>0, <1>1, ReadIsTidy DEF WindowInv, Shape
<1>3. \A r : PanesOf(r)' = PanesOf(r) /\ (Alive(r)' <=> r \in DOMAIN runtimes)
  BY <1>1 DEF PanesOf, Alive
<1>4. CASE e.ws \in DOMAIN workspaces
  <2> DEFINE ws == [workspaces EXCEPT ![e.ws] = Adopted(@, e)]
             removed == ToSet(workspaces[e.ws].layout) \ ToSet(ws[e.ws].layout)
             kept == Rebuilt(ws, e.ws, widgets \ removed)
             restored == ToSet(e.panes) \cap kept
  <2>1. /\ workspaces' = Told(ws, e)
        /\ shown' = ((shown \cap kept) \ restored) \cup (restored \cap e.prints)
        /\ index' = Shown(ws)
        /\ unfed' = (unfed \ restored) \cup (e.prints \ restored) \cup Taken(removed, ws)
        /\ unplaced' = {x \in unplaced : x[1] # e.ws \/ x[2] \notin ToSet(e.panes)}
        /\ stuck' = stuck \cap Shown(ws)
        /\ local' = local \cup (IF e.panes = <<>> THEN ToSet(ws[e.ws].layout) ELSE {})
    BY <1>0, <1>4 DEF WorkspaceOpened
  <2>2. /\ DOMAIN ws = DOMAIN workspaces
        /\ \A v \in DOMAIN ws :
             /\ IsWorkspace(ws[v])
             /\ ws[v].runtime = IF v = e.ws THEN e.runtime ELSE workspaces[v].runtime
             /\ ws[v].layout = IF v = e.ws /\ e.panes # <<>> THEN e.panes ELSE workspaces[v].layout
    BY <1>2, <1>4 DEF Adopted, IsWorkspace
  <2>3. kept = ((widgets \ removed) \cup Built(ws[e.ws])) \cap Shown(ws)
    BY DEF Rebuilt
  <2> HIDE DEF ws, removed, kept, restored
  <2>4. /\ DOMAIN workspaces' = DOMAIN workspaces
        /\ \A v \in DOMAIN workspaces :
             /\ workspaces'[v].runtime = IF v = e.ws THEN e.runtime ELSE workspaces[v].runtime
             /\ Leaves(v)' = IF v = e.ws /\ e.panes # <<>> THEN ToSet(e.panes) ELSE Leaves(v)
             /\ Leaves(v)' = ToSet(ws[v].layout)
    BY <2>1, <2>2, ToldKeeps DEF Leaves
  <2>5. \A v \in DOMAIN workspaces' : Leaves(v)' \subseteq Shown(ws)
    BY <2>2, <2>4, ShownMeans
  <2>6. Shown(workspaces)' = Shown(ws)
    BY <2>2, <2>4 DEF Shown, Leaves
  <2>7. TakesIn(e)
    BY <1>0, <1>1, <2>1, <2>4, <2>6, QuietReadTakesIn
  <2>8. \A v \in DOMAIN workspaces : v # e.ws => workspaces'[v].runtime = workspaces[v].runtime /\ Leaves(v)' = Leaves(v)
    BY <2>4
  <2>9. ASSUME NEW w, NEW r, Joined(w, r)', ~Awaits(w)' PROVE Agrees(w, r)'
    <3>1. w \in DOMAIN workspaces /\ workspaces'[w].runtime = r /\ r \in DOMAIN runtimes
      BY <1>3, <2>4, <2>9 DEF Joined
    <3>2. CASE w = e.ws
      <4>1. r = e.runtime
        BY <2>4, <3>1, <3>2
      <4>2. /\ \A p \in PanesOf(r) : p \in ToSet(e.panes) \/ Creation(0, p)'
            /\ \A t \in ToSet(e.panes) : t \in PanesOf(r) \/ Closing(0, t)'
        BY <1>2, <2>7, <3>1, <4>1, NextIsTimely DEF Alive
      <4>3. \A p \in PanesOf(r) : p \in Leaves(w)' \/ Creation(0, p)'
        <5>1. e.panes = <<>> => ToSet(e.panes) = {}
          BY ShortSeqs
        <5> QED BY <2>4, <3>1, <3>2, <4>2, <5>1
      <4>4. \A t \in Leaves(w)' : t \in PanesOf(r) \/ t \in local' \/ Closing(0, t)'
        BY <2>1, <2>4, <3>1, <3>2, <4>2
      <4> QED BY <1>3, <4>3, <4>4 DEF Agrees
    <3>3. CASE w # e.ws
      <4>1. \A p \in PanesOf(r) :
              p \in Leaves(w) \/ <<w, p>> \in unplaced \/ Creates(e, p) => p \in Leaves(w)' \/ <<w, p>> \in unplaced'
        BY <1>2, <2>1, <2>8, <3>1, <3>3 DEF Creates
      <4>2. \A t \in Leaves(w)' : \/ t \in PanesOf(r) \cup local' \cup stuck' \/ Closing(0, t)'
                                  \/ t \in Leaves(w) /\ ~Closes(e, t) /\ t \notin local \cup stuck
        BY <1>2, <2>1, <2>4, <2>5, <2>8, <3>1, <3>3 DEF Closes
      <4>3. ~Reopens(e, w)
        BY <3>3 DEF Reopens
      <4>4. Faithful /\ workspaces'[w].runtime = workspaces[w].runtime
        BY <2>8, <3>1, <3>3 DEF PanesInv
      <4> QED BY <2>7, <2>9, <3>1, <4>1, <4>2, <4>3, <4>4, TakesInAgrees
    <3> QED BY <3>2, <3>3
  <2>10. ASSUME NEW w \in DOMAIN workspaces', NEW r \in DOMAIN runtimes, Hears(w, r),
                NEW p \in printed \cap PanesOf(r) \cap Leaves(w)'
         PROVE  \/ p \in shown' \cup unfed' \cup unheard \/ Owed(0, p)'
                \/ /\ w \in DOMAIN workspaces /\ p \in Leaves(w) /\ (p \in shown \cup unfed => p \in shown' \cup unfed')
                   /\ ~Creates(e, p) /\ ~Feeds(e, p)
    <3>1. CASE p \in ToSet(e.panes) /\ p \notin e.prints
      BY <1>2, <2>7, <2>10, <3>1, NextIsTimely
    <3>2. CASE p \in e.prints
      BY <2>1, <3>2
    <3>3. CASE p \notin ToSet(e.panes) /\ p \notin e.prints
      <4>1. w \in DOMAIN workspaces /\ p \in Leaves(w) /\ p \notin restored /\ p \in Shown(ws)
        BY <2>4, <2>5, <3>3 DEF restored
      <4>2. ~Creates(e, p) /\ ~Feeds(e, p)
        BY <1>2, <3>3 DEF Creates, Feeds
      <4>3. p \in unfed => p \in unfed'
        BY <2>1, <4>1
      <4>4. p \in shown => p \in shown' \cup unfed'
        BY <2>1, <2>3, <4>1 DEF Taken, Laid
      <4> QED BY <4>1, <4>2, <4>3, <4>4
    <3> QED BY <3>1, <3>2, <3>3
  <2> QED BY <2>7, <2>9, <2>10, TakesInKeepsPanes
<1>5. CASE e.ws \notin DOMAIN workspaces
  <2>1. /\ UNCHANGED <<workspaces, widgets, shown, index, unplaced, stuck, local>>
        /\ unfed' = unfed \cup (e.prints \ shown)
    BY <1>0, <1>5 DEF WorkspaceOpened
  <2>2. Shown(workspaces)' = Shown(workspaces) /\ \A w : Leaves(w)' = Leaves(w)
    BY <2>1 DEF Shown, Leaves
  <2>3. TakesIn(e)
    BY <1>0, <1>1, <2>1, <2>2, QuietReadTakesIn
  <2>4. ASSUME NEW w, NEW r, Joined(w, r)', ~Awaits(w)' PROVE Agrees(w, r)'
    <3>1. w \in DOMAIN workspaces /\ ~Reopens(e, w) /\ Faithful /\ workspaces'[w].runtime = workspaces[w].runtime
      BY <1>5, <2>1, <2>4 DEF Joined, Reopens, PanesInv
    <3>2. \A p \in PanesOf(r) :
            p \in Leaves(w) \/ <<w, p>> \in unplaced \/ Creates(e, p) => p \in Leaves(w)' \/ <<w, p>> \in unplaced'
      BY <1>2, <2>1, <2>2 DEF Creates
    <3>3. \A t \in Leaves(w)' : \/ t \in PanesOf(r) \cup local' \cup stuck' \/ Closing(0, t)'
                                \/ t \in Leaves(w) /\ ~Closes(e, t) /\ t \notin local \cup stuck
      BY <1>2, <2>1, <2>2 DEF Closes
    <3> QED BY <2>3, <2>4, <3>1, <3>2, <3>3, TakesInAgrees
  <2>5. ASSUME NEW w \in DOMAIN workspaces', NEW r \in DOMAIN runtimes, Hears(w, r),
               NEW p \in printed \cap PanesOf(r) \cap Leaves(w)'
        PROVE  \/ p \in shown' \cup unfed'
               \/ /\ w \in DOMAIN workspaces /\ p \in Leaves(w) /\ (p \in shown \cup unfed => p \in shown' \cup unfed')
                  /\ ~Creates(e, p) /\ ~Feeds(e, p)
    BY <1>2, <2>1, <2>2, <2>5 DEF Creates, Feeds
  <2> QED BY <2>3, <2>4, <2>5, TakesInKeepsPanes
<1> QED BY <1>4, <1>5

\* What is renamed is replaced, all else stays.
LEMMA RenamedLeaves ==
  ASSUME NEW s, NEW t, NEW new
  PROVE  /\ \A x \in ToSet(s) : x # t => x \in ToSet(RenameLeaf(s, t, new))
         /\ t \in ToSet(s) => new \in ToSet(RenameLeaf(s, t, new))
         /\ \A x \in ToSet(RenameLeaf(s, t, new)) : x = new \/ x \in ToSet(s) \ {t}
<1> DEFINE u == RenameLeaf(s, t, new)
<1>1. DOMAIN u = DOMAIN s /\ \A k \in DOMAIN s : u[k] = IF s[k] = t THEN new ELSE s[k]
  BY DEF RenameLeaf
<1> HIDE DEF u
<1>2. \A x \in ToSet(s) : x # t => x \in ToSet(u)
  BY <1>1 DEF ToSet
<1>3. t \in ToSet(s) => new \in ToSet(u)
  BY <1>1 DEF ToSet
<1>4. \A x \in ToSet(u) : x = new \/ x \in ToSet(s) \ {t}
  BY <1>1 DEF ToSet
<1> QED BY <1>2, <1>3, <1>4 DEF u

\* apply_managed_pane_created (workspace_state.rs:423): the pane takes the place of its placeholder, or is not
\* placed; a workspace that comes to the runtime by it keeps what it showed.
LEMMA PaneCreatedKeepsPanes ==
  ASSUME WindowInv, Laid, PanesInv, PaneCreated
  PROVE  PanesInv'
<1>0. PICK e : e = Polling
  OBVIOUS
<1> DEFINE known == e.ws \in DOMAIN workspaces /\ e.at \in ToSet(workspaces[e.ws].layout)
           moves == known /\ workspaces[e.ws].runtime # e.runtime
           Renamed(t) == IF t = e.at THEN e.pane ELSE t
           kept == {Renamed(t) : t \in widgets}
           ws == [workspaces EXCEPT ![e.ws].runtime = e.runtime, ![e.ws].zoom = Renamed(@),
                                    ![e.ws].layout = RenameLeaf(@, e.at, e.pane)]
<1>1. /\ Polls("created") /\ life' = life
      /\ UNCHANGED <<runtimes, printed, hearing, minted, actors>>
  BY DEF PaneCreated, daemon
<1>2. /\ Shape /\ life = "up" /\ e.kind = "created" /\ \A v \in DOMAIN workspaces : IsWorkspace(workspaces[v])
      /\ e.pane \notin Shown(workspaces)
  BY <1>0, <1>1, ReadIsTidy DEF WindowInv, Shape
<1>3. \A r : PanesOf(r)' = PanesOf(r) /\ (Alive(r)' <=> r \in DOMAIN runtimes)
  BY <1>1 DEF PanesOf, Alive
<1>4. /\ unplaced' = unplaced \cup {<<w, e.pane>> : w \in DOMAIN workspaces \ (IF known THEN {e.ws} ELSE {})}
                              \cup (IF moves /\ e.runtime \in DOMAIN runtimes
                                    THEN {<<e.ws, p>> : p \in ToSet(runtimes[e.runtime])} ELSE {})
      /\ local' = local \cup (IF moves THEN ToSet(workspaces[e.ws].layout) ELSE {})
  BY <1>0 DEF PaneCreated
<1>5. \A w : ~Reopens(e, w) /\ (\A p : ~Feeds(e, p)) /\ (\A t : ~Closes(e, t))
  BY <1>2 DEF Reopens, Feeds, Closes
<1>6. CASE known
  <2>1. /\ workspaces' = Told(ws, e) /\ shown' = shown \cap kept
        /\ index' = Shown(ws)
        /\ stuck' = stuck \cap Shown(ws)
        /\ unfed' = unfed \cup ({e.pane} \cap printed) \cup Taken({e.at}, ws)
    BY <1>0, <1>6 DEF PaneCreated, DrawWithout
  <2>2. /\ DOMAIN ws = DOMAIN workspaces
        /\ \A v \in DOMAIN ws :
             /\ IsWorkspace(ws[v])
             /\ ws[v].runtime = IF v = e.ws THEN e.runtime ELSE workspaces[v].runtime
             /\ ws[v].layout = IF v = e.ws THEN RenameLeaf(workspaces[v].layout, e.at, e.pane) ELSE workspaces[v].layout
    BY <1>2, <1>6 DEF IsWorkspace
  <2>3. \A t \in widgets : t # e.at => t \in kept
    OBVIOUS
  <2>4. e.ws \in DOMAIN workspaces /\ e.at \in Leaves(e.ws)
    BY <1>6 DEF Leaves
  <2> HIDE DEF ws, kept
  <2>5. /\ DOMAIN workspaces' = DOMAIN workspaces
        /\ \A v \in DOMAIN workspaces :
             /\ workspaces'[v].runtime = IF v = e.ws THEN e.runtime ELSE workspaces[v].runtime
             /\ Leaves(v)' = ToSet(ws[v].layout)
    BY <2>1, <2>2, ToldKeeps DEF Leaves
  <2>6. \A v \in DOMAIN workspaces : v # e.ws => workspaces'[v].runtime = workspaces[v].runtime /\ Leaves(v)' = Leaves(v)
    BY <2>2, <2>5 DEF Leaves
  <2>7. /\ \A x \in Leaves(e.ws) : x # e.at => x \in Leaves(e.ws)'
        /\ e.pane \in Leaves(e.ws)'
        /\ \A x \in Leaves(e.ws)' : x = e.pane \/ x \in Leaves(e.ws) \ {e.at}
    <3>1. Leaves(e.ws)' = ToSet(RenameLeaf(workspaces[e.ws].layout, e.at, e.pane))
      BY <2>2, <2>4, <2>5
    <3> QED BY <2>4, <3>1, RenamedLeaves DEF Leaves
  <2>8. \A v \in DOMAIN workspaces' : Leaves(v)' \subseteq Shown(ws)
    BY <2>2, <2>5, ShownMeans
  <2>9. Shown(workspaces)' = Shown(ws)
    BY <2>2, <2>5 DEF Shown, Leaves
  <2>10. TakesIn(e)
    BY <1>0, <1>1, <2>1, <2>5, <2>9, QuietReadTakesIn
  <2>11. ASSUME NEW w, NEW r, Joined(w, r)', ~Awaits(w)' PROVE Agrees(w, r)'
    <3>1. w \in DOMAIN workspaces /\ workspaces'[w].runtime = r /\ r \in DOMAIN runtimes /\ Faithful
      BY <1>3, <2>5, <2>11 DEF Joined, PanesInv
    <3>2. CASE w # e.ws
      <4>1. \A p \in PanesOf(r) :
              p \in Leaves(w) \/ <<w, p>> \in unplaced \/ Creates(e, p) => p \in Leaves(w)' \/ <<w, p>> \in unplaced'
        BY <1>4, <2>6, <3>1, <3>2 DEF Creates
      <4>2. \A t \in Leaves(w)' : \/ t \in PanesOf(r) \cup local' \cup stuck' \/ Closing(0, t)'
                                  \/ t \in Leaves(w) /\ ~Closes(e, t) /\ t \notin local \cup stuck
        BY <1>4, <1>5, <2>1, <2>5, <2>6, <2>8, <3>1, <3>2
      <4> QED BY <1>5, <2>6, <2>10, <2>11, <3>1, <3>2, <4>1, <4>2, TakesInAgrees
    <3>3. CASE w = e.ws
      <4>1. r = e.runtime
        BY <2>5, <3>1, <3>3
      <4>2. e.at \notin PanesOf(r) /\ (e.pane \in PanesOf(r) \/ Closing(0, e.pane)')
        BY <1>2, <2>10, <3>1, <4>1, NextIsTimely DEF Alive
      <4>3. CASE moves
        <5>1. \A p \in PanesOf(r) : <<w, p>> \in unplaced'
          BY <1>4, <3>1, <3>3, <4>1, <4>3 DEF PanesOf
        <5>2. \A t \in Leaves(w)' : t \in PanesOf(r) \cup local' \/ Closing(0, t)'
          BY <1>4, <2>7, <3>3, <4>2, <4>3 DEF Leaves
        <5> QED BY <1>3, <5>1, <5>2 DEF Agrees
      <4>4. CASE ~moves
        <5>1. workspaces'[w].runtime = workspaces[w].runtime
          BY <1>6, <3>1, <3>3, <4>1, <4>4
        <5>2. \A p \in PanesOf(r) :
                p \in Leaves(w) \/ <<w, p>> \in unplaced \/ Creates(e, p) => p \in Leaves(w)' \/ <<w, p>> \in unplaced'
          BY <1>4, <2>7, <3>3, <4>2 DEF Creates
        <5>3. \A t \in Leaves(w)' : \/ t \in PanesOf(r) \cup local' \cup stuck' \/ Closing(0, t)'
                                    \/ t \in Leaves(w) /\ ~Closes(e, t) /\ t \notin local \cup stuck
          BY <1>4, <1>5, <2>1, <2>5, <2>7, <2>8, <3>1, <3>3, <4>2
        <5> QED BY <1>5, <2>10, <2>11, <3>1, <5>1, <5>2, <5>3, TakesInAgrees
      <4> QED BY <4>3, <4>4
    <3> QED BY <3>2, <3>3
  <2>12. ASSUME NEW w \in DOMAIN workspaces', NEW r \in DOMAIN runtimes, Hears(w, r),
                NEW p \in printed \cap PanesOf(r) \cap Leaves(w)'
         PROVE  \/ p \in shown' \cup unfed' \/ Owed(0, p)'
                \/ /\ w \in DOMAIN workspaces /\ p \in Leaves(w) /\ (p \in shown \cup unfed => p \in shown' \cup unfed')
                   /\ ~Creates(e, p) /\ ~Feeds(e, p)
    <3>1. CASE p = e.pane
      BY <2>1, <2>12, <3>1
    <3>2. CASE p # e.pane
      <4>1. w \in DOMAIN workspaces /\ p \in Leaves(w) /\ p \in Shown(ws)
        BY <2>5, <2>6, <2>7, <2>8, <2>12, <3>2
      <4>2. ~Creates(e, p) /\ ~Feeds(e, p)
        BY <1>5, <3>2 DEF Creates
      <4>3. p \in shown => p \in shown' \cup unfed'
        BY <2>1, <2>3, <4>1 DEF Taken, Laid
      <4> QED BY <2>1, <4>1, <4>2, <4>3
    <3> QED BY <3>1, <3>2
  <2> QED BY <2>10, <2>11, <2>12, TakesInKeepsPanes
<1>7. CASE ~known
  <2>1. workspaces' = Told(workspaces, e) /\ UNCHANGED <<shown, index, stuck, unfed>>
    BY <1>0, <1>7 DEF PaneCreated
  <2>2. /\ DOMAIN workspaces' = DOMAIN workspaces
        /\ \A v \in DOMAIN workspaces : workspaces'[v].runtime = workspaces[v].runtime /\ Leaves(v)' = Leaves(v)
    BY <1>2, <2>1, ToldKeeps DEF Leaves
  <2>3. Shown(workspaces)' = Shown(workspaces)
    BY <2>2 DEF Shown, Leaves
  <2>4. TakesIn(e)
    BY <1>0, <1>1, <2>1, <2>2, <2>3, QuietReadTakesIn
  <2>5. ASSUME NEW w, NEW r, Joined(w, r)', ~Awaits(w)' PROVE Agrees(w, r)'
    <3>1. w \in DOMAIN workspaces /\ Faithful
      BY <2>2, <2>5 DEF Joined, PanesInv
    <3>2. \A p \in PanesOf(r) :
            p \in Leaves(w) \/ <<w, p>> \in unplaced \/ Creates(e, p) => p \in Leaves(w)' \/ <<w, p>> \in unplaced'
      BY <1>4, <1>7, <2>2, <3>1 DEF Creates
    <3>3. \A t \in Leaves(w)' : \/ t \in PanesOf(r) \cup local' \cup stuck' \/ Closing(0, t)'
                                \/ t \in Leaves(w) /\ ~Closes(e, t) /\ t \notin local \cup stuck
      BY <1>4, <1>5, <2>1, <2>2, <3>1
    <3> QED BY <1>5, <2>2, <2>4, <2>5, <3>1, <3>2, <3>3, TakesInAgrees
  <2>6. ASSUME NEW w \in DOMAIN workspaces', NEW r \in DOMAIN runtimes, Hears(w, r),
               NEW p \in printed \cap PanesOf(r) \cap Leaves(w)'
        PROVE  /\ w \in DOMAIN workspaces /\ p \in Leaves(w) /\ (p \in shown \cup unfed => p \in shown' \cup unfed')
               /\ ~Creates(e, p) /\ ~Feeds(e, p)
    <3>1. w \in DOMAIN workspaces /\ p \in Leaves(w) /\ p \in Shown(workspaces)
      BY <2>2, <2>6, ShownMeans DEF Leaves
    <3>2. ~Creates(e, p) /\ ~Feeds(e, p)
      BY <1>2, <1>5, <3>1 DEF Creates
    <3> QED BY <2>1, <3>1, <3>2
  <2> QED BY <2>4, <2>5, <2>6, TakesInKeepsPanes
<1> QED BY <1>6, <1>7

\* apply_managed_pane_closed (workspace_state.rs:456): the terminal goes, or is stuck; its widget goes.
LEMMA PaneClosedKeepsPanes ==
  ASSUME WindowInv, Laid, PanesInv, PaneClosed
  PROVE  PanesInv'
<1>0. PICK e : e = Polling
  OBVIOUS
<1> DEFINE open == e.ws \in DOMAIN workspaces
           last == open /\ workspaces[e.ws].layout = <<e.at>>
           moved == open /\ workspaces[e.ws].runtime # e.runtime
           ws == [workspaces EXCEPT ![e.ws].layout = RemoveLeaf(@, e.at)]
<1>1. /\ Polls("closed") /\ life' = life
      /\ UNCHANGED <<runtimes, printed, hearing, minted, actors, local>>
  BY DEF PaneClosed, daemon
<1>2. Shape /\ life = "up" /\ e.kind = "closed" /\ \A v \in DOMAIN workspaces : IsWorkspace(workspaces[v])
  BY <1>0, <1>1, ReadIsTidy DEF WindowInv, Shape
<1>3. \A r : PanesOf(r)' = PanesOf(r) /\ (Alive(r)' <=> r \in DOMAIN runtimes)
  BY <1>1 DEF PanesOf, Alive
<1>4. /\ stuck' = stuck \cup ({e.at} \cap Shown(workspaces'))
      /\ unfed' = unfed \cup Taken({e.at}, workspaces')
      /\ unplaced' = unplaced \cup (IF moved THEN {<<e.ws, e.at>>} ELSE {})
  BY <1>0 DEF PaneClosed
<1>5. \A w : ~Reopens(e, w) /\ \A p : ~Feeds(e, p) /\ ~Creates(e, p)
  BY <1>2 DEF Reopens, Feeds, Creates
<1>6. /\ DOMAIN workspaces' = DOMAIN workspaces
      /\ \A v \in DOMAIN workspaces :
           /\ workspaces'[v].runtime = workspaces[v].runtime
           /\ Leaves(v)' = Leaves(v) \/ (v = e.ws /\ Leaves(v)' = Leaves(v) \ {e.at})
      /\ \/ index' = index /\ Shown(workspaces)' = Shown(workspaces)
         \/ index' = Shown(workspaces)'
      /\ shown \cap (widgets \ {e.at}) \cap Shown(workspaces)' \subseteq shown'
  <2>1. CASE open /\ ~last
    <3>1. /\ workspaces' = ws /\ index' = Shown(ws)
          /\ shown' = shown \cap Rebuilt(ws, e.ws, widgets \ {e.at})
      BY <1>0, <2>1 DEF PaneClosed, DrawWithout
    <3>2. /\ DOMAIN ws = DOMAIN workspaces
          /\ \A v \in DOMAIN ws :
               /\ ws[v].runtime = workspaces[v].runtime
               /\ ws[v].layout = IF v = e.ws THEN RemoveLeaf(workspaces[v].layout, e.at) ELSE workspaces[v].layout
      BY <1>2, <2>1 DEF IsWorkspace
    <3>3. ToSet(RemoveLeaf(workspaces[e.ws].layout, e.at)) = Leaves(e.ws) \ {e.at}
      BY <2>1, RemovedIsLayout DEF Laid, IsLaid, Leaves
    <3> HIDE DEF ws
    <3>4. \A v \in DOMAIN workspaces : Leaves(v)' = IF v = e.ws THEN Leaves(v) \ {e.at} ELSE Leaves(v)
      BY <3>1, <3>2, <3>3 DEF Leaves
    <3>5. Shown(workspaces)' = Shown(ws)
      BY <3>1 DEF Shown
    <3>6. shown \cap (widgets \ {e.at}) \cap Shown(ws) \subseteq shown'
      BY <3>1 DEF Rebuilt
    <3> QED BY <3>1, <3>2, <3>4, <3>5, <3>6
  <2>2. CASE ~(open /\ ~last)
    <3>1. /\ workspaces' = workspaces /\ index' = index /\ shown' = shown \cap (widgets \ {e.at})
      BY <1>0, <2>2 DEF PaneClosed, DrawWithout
    <3> QED BY <3>1 DEF Shown, Leaves
  <2> QED BY <2>1, <2>2
<1>7. /\ \A w \in DOMAIN workspaces : Leaves(w)' \subseteq Leaves(w) /\ Leaves(w)' \subseteq Shown(workspaces)'
      /\ Shown(workspaces)' = Shown(workspaces')
  BY <1>6, ShownMeans DEF Shown, Leaves
<1>8. TakesIn(e)
  BY <1>0, <1>1, <1>6, QuietReadTakesIn
<1>9. ASSUME NEW w, NEW r, Joined(w, r)', ~Awaits(w)' PROVE Agrees(w, r)'
  <2>1. w \in DOMAIN workspaces /\ workspaces[w].runtime = r /\ r \in DOMAIN runtimes /\ Faithful
    BY <1>3, <1>6, <1>9 DEF Joined, PanesInv
  <2>2. ASSUME NEW p \in PanesOf(r), p \in Leaves(w) PROVE p \in Leaves(w)' \/ <<w, p>> \in unplaced'
    <3>1. CASE w = e.ws /\ p = e.at /\ r = e.runtime
      BY <1>2, <1>8, <2>1, <2>2, <3>1, NextIsTimely DEF Alive
    <3>2. CASE w = e.ws /\ p = e.at /\ r # e.runtime
      BY <1>4, <2>1, <3>2
    <3>3. CASE ~(w = e.ws /\ p = e.at)
      BY <1>6, <2>1, <2>2, <3>3
    <3> QED BY <3>1, <3>2, <3>3
  <2>3. \A p \in PanesOf(r) :
          p \in Leaves(w) \/ <<w, p>> \in unplaced \/ Creates(e, p) => p \in Leaves(w)' \/ <<w, p>> \in unplaced'
    BY <1>4, <1>5, <2>2
  <2>4. \A t \in Leaves(w)' : \/ t \in PanesOf(r) \cup local' \cup stuck' \/ Closing(0, t)'
                              \/ t \in Leaves(w) /\ ~Closes(e, t) /\ t \notin local \cup stuck
    BY <1>1, <1>4, <1>7, <2>1 DEF Closes
  <2> QED BY <1>5, <1>6, <1>8, <1>9, <2>1, <2>3, <2>4, TakesInAgrees
<1>10. ASSUME NEW w \in DOMAIN workspaces', NEW r \in DOMAIN runtimes, Hears(w, r),
              NEW p \in printed \cap PanesOf(r) \cap Leaves(w)'
       PROVE  /\ w \in DOMAIN workspaces /\ p \in Leaves(w) /\ (p \in shown \cup unfed => p \in shown' \cup unfed')
              /\ ~Creates(e, p) /\ ~Feeds(e, p)
  <2>1. w \in DOMAIN workspaces /\ p \in Leaves(w) /\ p \in Shown(workspaces)'
    BY <1>6, <1>7, <1>10
  <2>2. p \in shown => p \in shown' \cup unfed'
    BY <1>4, <1>6, <1>7, <2>1 DEF Taken, Laid
  <2> QED BY <1>4, <1>5, <2>1, <2>2
<1> QED BY <1>8, <1>9, <1>10, TakesInKeepsPanes

\* A status tells nothing of the panes; a workspace whose runtime was terminated is joined to none
\* (window/runtime.rs:1126).
LEMMA StatusChangedKeepsPanes ==
  ASSUME WindowInv, Laid, PanesInv, StatusChanged
  PROVE  PanesInv'
<1>0. PICK e : e = Polling
  OBVIOUS
<1>1. PICK kind \in {"status", "detached", "terminated"} :
        /\ Polls(kind) /\ life' = life
        /\ UNCHANGED <<index, shown, runtimes, printed, hearing, minted, actors, local, unplaced, stuck, unfed>>
        /\ workspaces' = IF kind = "terminated" /\ e.ws \in DOMAIN workspaces
                         THEN [workspaces EXCEPT ![e.ws].runtime = None, ![e.ws].status = e.status]
                         ELSE Told(workspaces, e)
  BY <1>0 DEF StatusChanged, daemon, panes
<1>2. Shape /\ Numbered /\ life = "up" /\ e.kind = kind /\ \A v \in DOMAIN workspaces : IsWorkspace(workspaces[v])
  BY <1>0, <1>1, ReadIsTidy DEF WindowInv, Shape
<1>3. \A w : /\ ~Reopens(e, w) /\ \A p : ~Feeds(e, p) /\ ~Creates(e, p)
             /\ \A t : ~Closes(e, t)
  BY <1>1, <1>2 DEF Reopens, Feeds, Creates, Closes
<1>4. /\ DOMAIN workspaces' = DOMAIN workspaces
      /\ \A v \in DOMAIN workspaces :
           workspaces'[v].runtime \in {workspaces[v].runtime, None} /\ Leaves(v)' = Leaves(v)
  <2>1. CASE kind = "terminated" /\ e.ws \in DOMAIN workspaces
    BY <1>1, <1>2, <2>1 DEF IsWorkspace, Leaves
  <2>2. CASE ~(kind = "terminated" /\ e.ws \in DOMAIN workspaces)
    BY <1>1, <1>2, <2>2, ToldKeeps DEF Leaves
  <2> QED BY <2>1, <2>2
<1>5. Shown(workspaces)' = Shown(workspaces)
  BY <1>4 DEF Shown, Leaves
<1>6. TakesIn(e)
  BY <1>0, <1>1, <1>4, <1>5, QuietReadTakesIn
<1>7. ASSUME NEW w, NEW r, Joined(w, r)', ~Awaits(w)' PROVE Agrees(w, r)'
  <2>1. r \in DOMAIN runtimes /\ r # None
    BY <1>1, <1>2, <1>7, KnownNumbers DEF Joined, Alive, Numbered, None
  <2>2. w \in DOMAIN workspaces /\ workspaces'[w].runtime = workspaces[w].runtime /\ Faithful
    BY <1>4, <1>7, <2>1 DEF Joined, PanesInv
  <2>3. \A p \in PanesOf(r) :
          p \in Leaves(w) \/ <<w, p>> \in unplaced \/ Creates(e, p) => p \in Leaves(w)' \/ <<w, p>> \in unplaced'
    BY <1>1, <1>3, <1>4, <2>2
  <2>4. \A t \in Leaves(w)' : \/ t \in PanesOf(r) \cup local' \cup stuck' \/ Closing(0, t)'
                              \/ t \in Leaves(w) /\ ~Closes(e, t) /\ t \notin local \cup stuck
    BY <1>1, <1>3, <1>4, <2>2
  <2> QED BY <1>3, <1>6, <1>7, <2>2, <2>3, <2>4, TakesInAgrees
<1>8. ASSUME NEW w \in DOMAIN workspaces', NEW r \in DOMAIN runtimes, Hears(w, r),
             NEW p \in printed \cap PanesOf(r) \cap Leaves(w)'
      PROVE  /\ w \in DOMAIN workspaces /\ p \in Leaves(w) /\ (p \in shown \cup unfed => p \in shown' \cup unfed')
             /\ ~Creates(e, p) /\ ~Feeds(e, p)
  BY <1>1, <1>3, <1>4, <1>8
<1> QED BY <1>6, <1>7, <1>8, TakesInKeepsPanes

\* feed_coalesced_deltas (window/runtime.rs:804): the index knows the pane, if it is shown and there.
LEMMA OutputDeltaKeepsPanes ==
  ASSUME WindowInv, Laid, PanesInv, OutputDelta
  PROVE  PanesInv'
<1>0. PICK e : e = Polling
  OBVIOUS
<1>1. /\ Polls("delta") /\ life' = life
      /\ UNCHANGED <<workspaces, index, runtimes, printed, hearing, minted, actors, local, unplaced, stuck>>
      /\ shown' = shown \cup ({e.pane} \cap index \cap widgets)
      /\ unfed' = unfed \cup (({e.pane} \cap index) \ widgets)
  BY <1>0 DEF OutputDelta, daemon
<1>2. life = "up" /\ e.kind = "delta"
  BY <1>0, <1>1, ReadIsTidy
<1>3. \A w : /\ ~Reopens(e, w) /\ \A p : ~Creates(e, p) /\ (Feeds(e, p) => p = e.pane)
             /\ \A t : ~Closes(e, t)
  BY <1>2 DEF Reopens, Feeds, Creates, Closes
<1>4. Shown(workspaces)' = Shown(workspaces) /\ \A w : Leaves(w)' = Leaves(w)
  BY <1>1 DEF Shown, Leaves
<1>5. TakesIn(e)
  BY <1>0, <1>1, <1>4, QuietReadTakesIn
<1>6. ASSUME NEW w, NEW r, Joined(w, r)', ~Awaits(w)' PROVE Agrees(w, r)'
  <2>1. w \in DOMAIN workspaces /\ workspaces'[w].runtime = workspaces[w].runtime /\ Faithful
    BY <1>1, <1>6 DEF Joined, PanesInv
  <2>2. \A p \in PanesOf(r) :
          p \in Leaves(w) \/ <<w, p>> \in unplaced \/ Creates(e, p) => p \in Leaves(w)' \/ <<w, p>> \in unplaced'
    BY <1>1, <1>3, <1>4
  <2>3. \A t \in Leaves(w)' : \/ t \in PanesOf(r) \cup local' \cup stuck' \/ Closing(0, t)'
                              \/ t \in Leaves(w) /\ ~Closes(e, t) /\ t \notin local \cup stuck
    BY <1>1, <1>3, <1>4
  <2> QED BY <1>3, <1>5, <1>6, <2>1, <2>2, <2>3, TakesInAgrees
<1>7. ASSUME NEW w \in DOMAIN workspaces', NEW r \in DOMAIN runtimes, Hears(w, r),
             NEW p \in printed \cap PanesOf(r) \cap Leaves(w)'
      PROVE  \/ p \in shown' \cup unfed' \/ Owed(0, p)'
             \/ /\ w \in DOMAIN workspaces /\ p \in Leaves(w) /\ (p \in shown \cup unfed => p \in shown' \cup unfed')
                /\ ~Creates(e, p) /\ ~Feeds(e, p)
  <2>1. w \in DOMAIN workspaces /\ p \in Leaves(w) /\ p \in Shown(workspaces)
    BY <1>1, <1>4, <1>7, ShownMeans DEF Leaves
  <2>2. p \in index
    BY <1>7, <2>1 DEF PanesInv, Indexed
  <2> QED BY <1>1, <1>3, <2>1, <2>2
<1> QED BY <1>5, <1>6, <1>7, TakesInKeepsPanes

\* recover_managed_workspaces_from_inventory (workspace_state.rs:302): what is recovered is not shown, and the
\* actor in use, which has still to open it, does not attend to it.
LEMMA InventoryLoadedKeepsPanes ==
  ASSUME WindowInv, Laid, PanesInv, InventoryLoaded
  PROVE  PanesInv'
<1>0. PICK e : e = Polling
  OBVIOUS
<1> DEFINE hidden == dismissed \cap DOMAIN e.stock
           found == Recoverable(workspaces, e.stock, hidden)
           treeless == {r \in found : e.stock[r] = <<>>}
           n == Cardinality(treeless)
           Leaf(r) == minted.terminals + Cardinality({q \in treeless : q <= r})
           Layout(r) == IF r \in treeless THEN <<Leaf(r)>> ELSE e.stock[r]
           back == {Recovered(r) : r \in found}
           ws == [w \in back \cup DOMAIN workspaces |->
                    IF w \in back THEN Workspace(Layout(w - MaxWorkspaces), w - MaxWorkspaces) ELSE workspaces[w]]
           list == IF found = {} THEN <<>> ELSE Opens(ws, back)
<1>1. Shape /\ Actors /\ InFlight /\ Numbered
  BY DEF WindowInv, Shape
<1>2. /\ Polls("inventory") /\ life' = life
      /\ UNCHANGED <<runtimes, printed, hearing, unplaced, stuck, unfed>>
  BY DEF InventoryLoaded, daemon
<1>3. /\ life = "up" /\ e.kind = "inventory" /\ events # <<>> /\ events' = Tail(events) /\ e = events[1] /\ e \in Sent
  <2>1. e \in Sent
    BY <1>0, <1>1, <1>2, PollFacts
  <2> QED BY <1>0, <1>2, <2>1, ReadIsTidy
<1>4. Laid' /\ Upto \in Nat
  BY InventoryLoadedIsLaid, PanesAreUpto
<1>5. \A w : /\ ~Reopens(e, w) /\ \A p : ~Feeds(e, p) /\ ~Creates(e, p)
             /\ \A t : ~Closes(e, t)
  BY <1>3 DEF Reopens, Feeds, Creates, Closes
<1>6. /\ TakesIn(e) /\ local \subseteq local' /\ shown' = shown
      /\ \A w : Settled(w) /\ w \in DOMAIN workspaces' => w \in DOMAIN workspaces
      /\ \A w \in DOMAIN workspaces : w \in DOMAIN workspaces' /\ workspaces'[w] = workspaces[w]
  <2>1. CASE connecting
    <3>1. UNCHANGED <<workspaces, index, shown, actors, minted, local>>
      BY <2>1 DEF InventoryLoaded, screen
    <3>2. Shown(workspaces)' = Shown(workspaces)
      BY <3>1 DEF Shown
    <3>3. TakesIn(e)
      BY <1>0, <1>2, <3>1, <3>2, QuietReadTakesIn
    <3> QED BY <3>1, <3>3
  <2>2. CASE ~connecting
    <3>1. /\ minted' = [minted EXCEPT !.terminals = @ + n]
          /\ local \subseteq local'
          /\ workspaces' = ws /\ shown' = shown \cap (widgets \cup UNION {ToSet(Layout(r)) : r \in found})
          /\ Send(list) \/ (list = <<>> /\ actors' = actors)
          /\ (found = {} /\ index' = index) \/ index' = Shown(ws)
      <4>1. /\ minted' = [minted EXCEPT !.terminals = @ + n]
            /\ local \subseteq local'
        BY <1>0, <2>2 DEF InventoryLoaded
      <4>2. Draw(ws, widgets \cup UNION {ToSet(Layout(r)) : r \in found})
        BY <1>0, <2>2 DEF InventoryLoaded
      <4>3. IF found = {} THEN UNCHANGED <<index, actors>> ELSE index' = Shown(ws) /\ Send(Opens(ws, back))
        BY <1>0, <2>2 DEF InventoryLoaded
      <4> HIDE DEF ws, Layout, found, back, n
      <4> QED BY <4>1, <4>2, <4>3 DEF Draw, DrawWithout
    <3>2. found \subseteq DOMAIN e.stock /\ found \subseteq Known /\ Known \subseteq Runtimes /\ IsFiniteSet(Known)
      <4>1. DOMAIN e.stock \subseteq Known
        BY <1>1, <1>3 DEF InFlight, IsEvent
      <4>2. IsFiniteSet(Known)
        BY <1>1, FS_Interval DEF Known, Shape
      <4> QED BY <1>1, <4>1, <4>2, KnownNumbers DEF Recoverable
    <3>3. found \cap Bound(workspaces) = {}
      BY DEF Recoverable
    <3>4. n \in Nat
      <4>1. treeless \subseteq Known
        BY <3>2
      <4> HIDE DEF treeless
      <4> QED BY <3>2, <4>1, FS_Subset, FS_CardinalityType
    <3>5. minted'.terminals \in Nat /\ Upto <= minted'.terminals
      <4>1. DOMAIN minted = {"workspaces", "runtimes", "terminals"}
        BY <1>1 DEF Shape
      <4>2. minted'.terminals = Upto + n
        BY <3>1, <4>1 DEF Upto
      <4> HIDE DEF n
      <4> QED BY <1>4, <3>4, <4>2
    <3>6. DOMAIN ws = back \cup DOMAIN workspaces /\ \A w \in DOMAIN workspaces \ back : ws[w] = workspaces[w]
      OBVIOUS
    <3>7. back \in SUBSET (Issued \cup {None}) /\ (found = {} => back = {})
      BY <3>2 DEF Issued
    <3> HIDE DEF n, treeless, ws, Layout, Leaf, hidden
    <3>8. \A w \in back : w \notin DOMAIN workspaces /\ w > MaxWorkspaces
      <4> SUFFICES ASSUME NEW w \in back PROVE w \notin DOMAIN workspaces /\ w > MaxWorkspaces
        OBVIOUS
      <4>1. PICK r \in found : w = Recovered(r)
        OBVIOUS
      <4> HIDE DEF found, back
      <4>2. w > MaxWorkspaces /\ w - MaxWorkspaces = r /\ r # None
        BY <3>2, <4>1, Numbers, KnownNumbers, <1>1
      <4>3. ASSUME w \in DOMAIN workspaces PROVE r \in Bound(workspaces)
        BY <1>1, <4>2, <4>3 DEF Numbered, Own, Bound
      <4> QED BY <3>3, <4>1, <4>2, <4>3
    <3> HIDE DEF found, back
    <3>9. PICK asks : asks = list
      OBVIOUS
    <3>10. /\ IsSeq(asks)
           /\ \A c \in ToSet(asks) : c.kind = "open" /\ c.ws \in back /\ c = Open(ws, c.ws)
      <4>1. CASE found = {}
        BY <3>9, <4>1, ShortSeqs
      <4>2. CASE found # {}
        BY <1>1, <3>7, <3>9, <4>2, OpensIsSeq
      <4> QED BY <4>1, <4>2
    <3>11. Send(asks) \/ (asks = <<>> /\ actors' = actors)
      BY <3>1, <3>9
    <3> HIDE DEF list
    <3>12. /\ Idle' /\ Parted' /\ \A w : Settled(w)' => Settled(w)
           /\ InUse'.tracked = InUse.tracked /\ InUse'.link = InUse.link
      <4>1. Asked(asks)
        BY <1>1, <3>10, <3>11, SendAsks
      <4>2. \A c \in ToSet(asks) : c.kind = "open" => c.ws \in DOMAIN workspaces'
        BY <3>1, <3>6, <3>10
      <4>3. DOMAIN workspaces \subseteq DOMAIN workspaces'
        BY <3>1, <3>6
      <4> QED BY <1>1, <1>3, <3>10, <4>1, <4>2, <4>3, AskedAttends DEF PanesInv
    <3>13. ASSUME NEW c \in ToSet(asks) PROVE Fit(c)'
      <4>1. c = Open(workspaces', c.ws) /\ c.ws \in DOMAIN workspaces'
        BY <3>1, <3>6, <3>10
      <4>2. IsLaid(workspaces'[c.ws], Upto')
        BY <1>4, <4>1 DEF Laid
      <4>3. Head(workspaces'[c.ws].layout) \in 1..Upto'
        BY <4>2, HeadIsLeaf DEF IsLaid
      <4>4. /\ c.kind = "open" /\ c.at = Head(workspaces'[c.ws].layout) /\ c.new = None
        BY <4>1 DEF Open, Command
      <4>5. Upto' \in Nat
        BY <3>5 DEF Upto
      <4> QED BY <4>3, <4>4, <4>5 DEF Fit, None
    <3>14. \A c \in Queued' : c \in Queued \/ Fit(c)'
      <4>1. CASE Send(asks)
        BY <1>1, <3>10, <3>13, <4>1, SendAdds
      <4>2. CASE actors' = actors
        BY <4>2 DEF Queued
      <4> QED BY <3>11, <4>1, <4>2
    <3>15. \A t \in Shown(workspaces)' \ index' : t \in Shown(workspaces) \ index
      <4>1. CASE index' = Shown(ws)
        BY <3>1, <4>1 DEF Shown
      <4>2. CASE found = {} /\ index' = index
        <5>1. DOMAIN ws = DOMAIN workspaces /\ \A w \in DOMAIN workspaces : ws[w] = workspaces[w]
          BY <3>6, <3>7, <4>2
        <5> QED BY <3>1, <4>2, <5>1 DEF Shown
      <4> QED BY <3>1, <4>1, <4>2
    <3>16. TakesIn(e)
      BY <1>2, <1>3, <3>5, <3>12, <3>14, <3>15 DEF TakesIn
    <3>17. ASSUME NEW w, Settled(w), w \in back PROVE FALSE
      BY <1>3, <3>8, <3>17 DEF PanesInv, Parted, PartedFrom, Settled, SettledAt
    <3>18. shown' = shown
      BY <3>1 DEF Laid
    <3> QED BY <3>1, <3>6, <3>8, <3>16, <3>17, <3>18
  <2> QED BY <2>1, <2>2
<1>7. ASSUME NEW w, NEW r, Joined(w, r)', ~Awaits(w)' PROVE Agrees(w, r)'
  <2>1. Settled(w)' /\ w \in DOMAIN workspaces'
    BY <1>7 DEF Joined
  <2>2. w \in DOMAIN workspaces /\ workspaces'[w] = workspaces[w] /\ Faithful /\ Leaves(w)' = Leaves(w)
    BY <1>6, <2>1 DEF TakesIn, PanesInv, Leaves
  <2>3. \A p \in PanesOf(r) :
          p \in Leaves(w) \/ <<w, p>> \in unplaced \/ Creates(e, p) => p \in Leaves(w)' \/ <<w, p>> \in unplaced'
    BY <1>2, <1>5, <2>2
  <2>4. \A t \in Leaves(w)' : \/ t \in PanesOf(r) \cup local' \cup stuck' \/ Closing(0, t)'
                              \/ t \in Leaves(w) /\ ~Closes(e, t) /\ t \notin local \cup stuck
    BY <1>2, <1>5, <1>6, <2>2
  <2> QED BY <1>5, <1>6, <1>7, <2>2, <2>3, <2>4, TakesInAgrees
<1>8. ASSUME NEW w \in DOMAIN workspaces', NEW r \in DOMAIN runtimes, Hears(w, r),
             NEW p \in printed \cap PanesOf(r) \cap Leaves(w)'
      PROVE  /\ w \in DOMAIN workspaces /\ p \in Leaves(w) /\ (p \in shown \cup unfed => p \in shown' \cup unfed')
             /\ ~Creates(e, p) /\ ~Feeds(e, p)
  <2>1. w \in DOMAIN workspaces
    BY <1>6, <1>8 DEF Hears
  <2>2. Leaves(w)' = Leaves(w)
    BY <1>6, <2>1 DEF Leaves
  <2> QED BY <1>2, <1>5, <1>6, <1>8, <2>1, <2>2
<1> QED BY <1>6, <1>7, <1>8, TakesInKeepsPanes

\* Every step of the poller.
LEMMA ReconcilesKeepPanes ==
  ASSUME WindowInv, Laid, PanesInv, Reconciles
  PROVE  PanesInv'
BY WorkspaceOpenedKeepsPanes, PaneCreatedKeepsPanes, PaneClosedKeepsPanes, StatusChangedKeepsPanes,
   InventoryLoadedKeepsPanes, OutputDeltaKeepsPanes DEF Reconciles

-----------------------------------------------------------------------------
(* Every step keeps what is said of the panes.                              *)

\* The process ends: there is nothing left to show.
LEMMA ExitKeepsPanes ==
  ASSUME WindowInv, PanesInv, Exit
  PROVE  PanesInv'
<1>1. /\ life' = "off" /\ workspaces' = <<>> /\ actors' = <<Fresh>> /\ events' = <<>>
      /\ attached' = {} /\ UNCHANGED <<runtimes, printed, minted>>
  BY DEF Exit
<1>2. DOMAIN workspaces' = {} /\ DOMAIN events' = {} /\ Queued' = {}
  BY <1>1, FreshIsIdleNext
<1>3. InUse' = Fresh /\ DOMAIN Fresh.tracked = {}
  <2>1. Len(<<Fresh>>) = 1 /\ <<Fresh>>[1] = Fresh
    OBVIOUS
  <2> QED BY <1>1, <2>1 DEF InUse, Last, Fresh
<1>4. Supply'
  <2>1. Current' /\ Fitting'
    BY <1>2 DEF Current, Fitting
  <2>2. Apart'
    BY <1>1 DEF Apart, PanesOf, PanesInv, Supply
  <2> QED BY <2>1, <2>2 DEF Supply
<1>5. Idle' /\ Parted' /\ Faithful' /\ Fed'
  BY <1>1, <1>3 DEF Idle, Parted, Faithful, Fed
<1>6. Indexed' /\ Tuned'
  BY <1>1, <1>2 DEF Indexed, Shown, Tuned
<1> QED BY <1>4, <1>5, <1>6 DEF PanesInv

\* load_state (window/mod.rs:393): the index knows all that is shown, the new actor attends to nothing yet.
LEMMA StartKeepsPanes ==
  ASSUME WindowInv, Laid, PanesInv, Start
  PROVE  PanesInv'
<1> DEFINE ws == Loaded.workspaces
           inventory == Command("inventory", None, None, None, None)
<1>0. Shape /\ Actors /\ Numbered /\ Off
  BY DEF WindowInv, Shape
<1>1. /\ life = "off" /\ workspaces' = ws /\ index' = Shown(ws) /\ UNCHANGED <<events, runtimes, printed, hearing, minted>>
      /\ Send(IF ws = <<>> THEN <<inventory>> ELSE Opens(ws, DOMAIN ws))
  BY DEF Start, aside, daemon
<1>2. actors = <<Fresh>> /\ events' = <<>> /\ DOMAIN events' = {}
  BY <1>0, <1>1 DEF Off
<1>3. DOMAIN ws \in SUBSET (Issued \cup {None})
  BY <1>0, LoadedFacts DEF Numbered
<1>4. Laid' /\ Upto' \in Nat /\ Upto' = Upto
  BY <1>1, StartIsLaid, PanesAreUpto DEF Upto
<1>5. PICK list : /\ IsSeq(list) /\ Send(list)
                  /\ \A c \in ToSet(list) :
                       \/ c = inventory
                       \/ c.kind = "open" /\ c.ws \in DOMAIN ws /\ c = Open(ws, c.ws)
  <2>1. CASE ws = <<>>
    <3>1. Send(<<inventory>>)
      BY <1>1, <2>1
    <3> HIDE DEF inventory, ws
    <3> QED BY <3>1, ShortSeqs
  <2>2. CASE ws # <<>>
    <3>1. Send(Opens(ws, DOMAIN ws))
      BY <1>1, <2>2
    <3> HIDE DEF ws
    <3> QED BY <1>0, <1>3, <3>1, OpensIsSeq
  <2> QED BY <2>1, <2>2
<1>6. inventory.kind = "inventory" /\ inventory.at = 0 /\ inventory.new = 0
  BY DEF Command, None
<1> HIDE DEF ws, inventory
<1>7. InUse = Fresh /\ Fresh.queue = <<>> /\ DOMAIN Fresh.tracked = {} /\ Queued = {}
  <2>1. Len(<<Fresh>>) = 1 /\ <<Fresh>>[1] = Fresh
    OBVIOUS
  <2>2. InUse = Fresh
    BY <1>2, <2>1 DEF InUse, Last
  <2>3. Queued = {}
    BY <1>2, FreshIsIdle
  <2> QED BY <2>2, <2>3 DEF Fresh
<1>8. InUse'.queue = <<>> \o list /\ DOMAIN InUse'.tracked = {}
  <2>1. Asked(list)
    BY <1>0, <1>5, SendAsks
  <2> QED BY <1>7, <2>1 DEF Asked
<1>9. Idle' /\ \A w : ~Settled(w)'
  BY <1>8 DEF Idle, Settled, SettledAt
<1>10. Parted'
  <2>1. IsSeq(<<>>) /\ DOMAIN <<>> = {} /\ Parting(<<>>, {})
    BY ShortSeqs DEF Parting
  <2>2. \A c \in ToSet(list) : c.kind = "open" => c.ws \in DOMAIN ws
    BY <1>5, <1>6
  <2>3. Parting(<<>> \o list, DOMAIN ws)
    BY <1>5, <2>1, <2>2, PartingAppends
  <2>4. \A w \in DOMAIN InUse'.tracked : FALSE
    BY <1>8
  <2> QED BY <1>1, <1>8, <2>3, <2>4 DEF Parted, PartedFrom
<1>11. ASSUME NEW c \in Queued' PROVE Fit(c)'
  <2>1. c \in ToSet(list)
    BY <1>0, <1>5, <1>7, SendAdds
  <2>2. CASE c = inventory
    BY <1>4, <1>6, <2>2 DEF Fit
  <2>3. CASE c.kind = "open" /\ c.ws \in DOMAIN ws /\ c = Open(ws, c.ws)
    <3>1. IsLaid(workspaces'[c.ws], Upto')
      BY <1>1, <1>4, <2>3 DEF Laid
    <3>2. Head(ws[c.ws].layout) \in 1..Upto'
      BY <1>1, <3>1, HeadIsLeaf DEF IsLaid
    <3>3. c.at = Head(ws[c.ws].layout) /\ c.new = 0
      BY <2>3 DEF Open, Command, None
    <3> QED BY <1>4, <2>3, <3>2, <3>3 DEF Fit
  <2> QED BY <1>5, <2>1, <2>2, <2>3
<1>12. Supply'
  <2>1. Current'
    BY <1>2 DEF Current
  <2>2. Apart'
    BY <1>1 DEF Apart, PanesOf, PanesInv, Supply
  <2> QED BY <1>11, <2>1, <2>2 DEF Supply, Fitting
<1>13. Indexed'
  BY <1>1 DEF Indexed, Shown
<1>14. Faithful' /\ Fed'
  BY <1>9 DEF Faithful, Joined, Fed, Hears
<1>15. Tuned'
  BY <1>1 DEF Tuned, PanesInv, hearing, PanesOf, Alive
<1> QED BY <1>9, <1>10, <1>12, <1>13, <1>14, <1>15 DEF PanesInv

\* A runtime of two panes, which the workspaces that there are show and the actor tracks.
LEMMA InitHasPanes ==
  ASSUME Init
  PROVE  PanesInv
<1> DEFINE pair == <<1, 2>>
           x == [Workspace(pair, 1) EXCEPT !.status = "live"]
<1>1. PICK n \in {0, 1, 2} :
        /\ n <= MaxWorkspaces /\ workspaces = [w \in 1..n |-> x] /\ index = Shown(workspaces)
        /\ actors = <<IF n > 0 THEN [queue |-> <<>>, tracked |-> [w \in 1..n |-> 1], link |-> "up"] ELSE Fresh>>
        /\ events = <<>> /\ runtimes = Only(1, pair) /\ printed = {} /\ unheard = {}
  BY DEF Init
<1>2. DOMAIN events = {} /\ DOMAIN runtimes = {1} /\ runtimes[1] = pair
  BY <1>1 DEF Only
<1>3. x.layout = pair /\ MaxWorkspaces \in Nat
  BY WindowBounds DEF Workspace
<1> DEFINE a == IF n > 0 THEN [queue |-> <<>>, tracked |-> [w \in 1..n |-> 1], link |-> "up"] ELSE Fresh
<1>4. a.queue = <<>> /\ DOMAIN a.tracked \subseteq 1..n /\ (a.link = "none" => DOMAIN a.tracked = {}) /\ actors = <<a>>
  <2>1. CASE n > 0
    BY <1>1, <2>1
  <2>2. CASE ~(n > 0)
    BY <1>1, <2>2 DEF Fresh
  <2> QED BY <2>1, <2>2
<1>5. \A w \in DOMAIN workspaces : workspaces[w] = x
  BY <1>1
<1> HIDE DEF pair, x, a
<1>6. /\ InUse.queue = <<>> /\ DOMAIN InUse.tracked \subseteq 1..n
      /\ InUse.link = "none" => DOMAIN InUse.tracked = {}
      /\ Queued = {}
  <2>1. DOMAIN actors = {1} /\ actors[1] = a /\ InUse = a
    BY <1>4 DEF InUse, Last
  <2>2. Queued = {}
    BY <1>4, <2>1, ShortSeqs DEF Queued
  <2> QED BY <1>4, <2>1, <2>2
<1>7. Supply
  BY <1>2, <1>6 DEF Supply, Current, Apart, Fitting
<1>8. Idle
  BY <1>6 DEF Idle
<1>9. Parted
  <2>1. Parting(InUse.queue, DOMAIN workspaces)
    BY <1>6 DEF Parting
  <2>2. \A w \in DOMAIN InUse.tracked : ~(w > MaxWorkspaces)
    BY <1>1, <1>3, <1>6
  <2> QED BY <2>1, <2>2 DEF Parted, PartedFrom
<1>10. Indexed
  BY <1>1 DEF Indexed
<1>11. Faithful
  BY <1>2, <1>3, <1>5 DEF Faithful, Joined, Agrees, PanesOf, Leaves, Alive
<1>12. Fed /\ Tuned
  BY <1>1 DEF Fed, Tuned
<1> QED BY <1>7, <1>8, <1>9, <1>10, <1>11, <1>12 DEF PanesInv

\* Nothing happens, to the window.
LEMMA StutterKeepsPanes ==
  ASSUME PanesInv, UNCHANGED vars
  PROVE  PanesInv'
<1>1. UNCHANGED <<life, workspaces, index, shown, actors, events, runtimes, printed, minted, local, unplaced,
                  stuck, unfed, attached, unheard>>
  BY DEF vars, screen, daemon, hearing, panes
<1>2. /\ InUse' = InUse /\ Queued' = Queued /\ Sent' = Sent /\ Upto' = Upto
      /\ Shown(workspaces)' = Shown(workspaces)
      /\ \A w : Leaves(w)' = Leaves(w)
      /\ \A r : PanesOf(r)' = PanesOf(r) /\ (Alive(r)' <=> Alive(r))
  BY <1>1 DEF InUse, Queued, Sent, Upto, Shown, Leaves, PanesOf, Alive
<1>3. /\ \A n, p : Creation(n, p)' <=> Creation(n, p)
      /\ \A n, t : Closing(n, t)' <=> Closing(n, t)
      /\ \A n, p : Owed(n, p)' <=> Owed(n, p)
  BY <1>1 DEF Creation, Closing, Owed, Creates, Closes, Feeds, Reopens
<1>4. Supply'
  <2>1. ASSUME NEW n \in DOMAIN events' PROVE Timely(events[n], n)'
    <3>1. PICK e : e = events[n]
      OBVIOUS
    <3>2. Timely(e, n) /\ events'[n] = e
      BY <1>1, <3>1 DEF PanesInv, Supply, Current
    <3>3. Timely(e, n)'
      BY <1>2, <1>3, <3>2 DEF Timely
    <3> QED BY <3>2, <3>3 DEF Timely
  <2>2. Apart'
    BY <1>1, <1>2 DEF Apart, PanesInv, Supply
  <2>3. \A c : Fit(c) => Fit(c)'
    BY <1>2 DEF Fit
  <2> QED BY <1>2, <2>1, <2>2, <2>3 DEF Supply, Current, Fitting, PanesInv
<1>5. Idle' /\ Parted' /\ Indexed'
  BY <1>1, <1>2 DEF Idle, Parted, Indexed, PanesInv
<1>6. Faithful'
  <2>1. \A w, r : (Joined(w, r)' <=> Joined(w, r)) /\ (Awaits(w)' <=> Awaits(w))
    BY <1>1, <1>2 DEF Joined, Awaits, Settled, Reopens
  <2>2. \A w, r : Agrees(w, r) => Agrees(w, r)'
    BY <1>1, <1>2, <1>3 DEF Agrees
  <2> QED BY <1>1, <2>1, <2>2 DEF Faithful, PanesInv
<1>7. Fed'
  <2>1. \A w, r : Hears(w, r)' <=> Hears(w, r)
    BY <1>2 DEF Hears, Settled
  <2>2. \A w, p : (FollowedUp(p) => FollowedUp(p)') /\ (Met(w, p) => Met(w, p)')
    BY <1>1, <1>2, <1>3 DEF FollowedUp, Met
  <2> QED BY <1>1, <1>2, <2>1, <2>2 DEF Fed, PanesInv
<1>8. Tuned'
  BY <1>1, <1>2 DEF Tuned, PanesInv
<1> QED BY <1>4, <1>5, <1>6, <1>7, <1>8 DEF PanesInv

\* Every step.
LEMMA StepKeepsPanes ==
  ASSUME WindowInv, Tracking, Laid, Wired, PanesInv, [Next]_vars
  PROVE  PanesInv'
<1>1. CASE UserActs \/ AutoSave \/ Quit
  BY <1>1, UserActsTend, SavesTend, TendsKeepsPanes DEF PanesInv
<1>2. CASE EndpointActs
  BY <1>2, EndpointActsWork, WorksKeepsPanes DEF PanesInv
<1>3. CASE Reconciles
  BY <1>3, ReconcilesKeepPanes
<1>4. CASE Exit
  BY <1>4, ExitKeepsPanes
<1>5. CASE Start
  BY <1>5, StartKeepsPanes
<1>6. CASE UNCHANGED vars
  BY <1>6, StutterKeepsPanes
<1> QED BY <1>1, <1>2, <1>3, <1>4, <1>5, <1>6 DEF Next

\* In every state, what a workspace lacks of its runtime or has besides, and what output it lacks, is on its
\* way or accounted for.
THEOREM PanesAreInductive == Spec => []PanesInv
<1>1. Init => PanesInv
  BY InitHasPanes
<1>2. WindowInv /\ Tracking /\ (Laid /\ Retired /\ Wired) /\ PanesInv /\ [Next]_vars => PanesInv'
  BY StepKeepsPanes
<1> QED BY <1>1, <1>2, WindowIsInductive, TrackingIsInductive, LayingIsInductive, PTL DEF Spec

\* What is watched once quiet is joined, heard of, and has nothing on its way.
LEMMA WatchedIsJoined ==
  ASSUME WindowInv, Quiet, NEW w \in Watched
  PROVE  /\ life = "up" /\ w \in DOMAIN workspaces /\ DaemonPanes(w) = PanesOf(workspaces[w].runtime)
         /\ Joined(w, workspaces[w].runtime) /\ ~Awaits(w)
         /\ Hears(w, workspaces[w].runtime) /\ Alive(workspaces[w].runtime)
         /\ \A p : ~Creation(0, p) /\ ~Closing(0, p) /\ ~Owed(0, p)
<1>1. life = "up" /\ events = <<>> /\ InUse.queue = <<>> /\ InUse.link = "up"
  BY InUseIs DEF Quiet, WindowInv, Shape
<1>2. DOMAIN events = {} /\ Sent = {} /\ ToSet(InUse.queue) = {}
  BY <1>1, ShortSeqs DEF Sent
<1>3. /\ w \in DOMAIN workspaces /\ w \in DOMAIN InUse.tracked /\ workspaces[w].runtime = InUse.tracked[w]
      /\ workspaces[w].runtime \in DOMAIN runtimes
  BY DEF Watched
<1>4. Settled(w)
  BY <1>2, <1>3 DEF Settled, SettledAt
<1>5. \A p : ~Creation(0, p) /\ ~Closing(0, p) /\ ~Owed(0, p)
  BY <1>2 DEF Creation, Closing, Owed
<1> QED BY <1>1, <1>2, <1>3, <1>4, <1>5 DEF DaemonPanes, PanesOf, Joined, Awaits, Hears, Alive

\* LayoutIsDaemons: once quiet, a workspace shows the panes of its runtime, all but the ones it was told of when
\* it could not place them, and what it shows besides is its own or was left to it
\* (workspace_state.rs:423-469, RFC-031).
THEOREM LayoutIsAlwaysDaemons == Spec => []LayoutIsDaemons
<1>1. ASSUME WindowInv, PanesInv, Quiet, NEW w \in Watched
      PROVE  /\ \A p \in DaemonPanes(w) \ Leaves(w) : <<w, p>> \in unplaced
             /\ Leaves(w) \subseteq DaemonPanes(w) \cup local \cup stuck
  <2>1. Agrees(w, workspaces[w].runtime)
    BY <1>1, WatchedIsJoined DEF PanesInv, Faithful
  <2> QED BY <1>1, <2>1, WatchedIsJoined DEF Agrees
<1>2. WindowInv /\ PanesInv => LayoutIsDaemons
  BY <1>1 DEF LayoutIsDaemons
<1> QED BY <1>2, WindowIsInductive, PanesAreInductive, PTL

\* OutputIsShown: once quiet, what the panes of a runtime have printed is in the widgets of the workspace that
\* shows them, or was fed when there was none, or went with one (window/runtime.rs:68, 804-823), or was printed
\* when no connection was attached, after the daemon detached the one of the actor or refused to attach it
\* again (server.rs:1281, daemon_bridge.rs:1417).
THEOREM OutputIsAlwaysShown == Spec => []OutputIsShown
<1>1. ASSUME WindowInv, Wired, PanesInv, Quiet, NEW w \in Watched, NEW p \in DaemonPanes(w) \cap Leaves(w) \cap printed,
             p \notin shown \cup unfed
      PROVE  p \in unheard /\ <<Len(actors), workspaces[w].runtime>> \in severed
  <2> DEFINE r == workspaces[w].runtime
             x == <<Len(actors), r>>
  <2>1. p \in unheard
    <3>1. Met(w, p)
      BY <1>1, WatchedIsJoined DEF PanesInv, Fed
    <3> QED BY <1>1, <3>1, WatchedIsJoined DEF Met
  <2>2. x \in attached \cup severed
    <3>1. Len(actors) \in DOMAIN actors /\ InUse = actors[Len(actors)]
      BY <1>1, InUseIs DEF WindowInv, Shape
    <3>2. w \in DOMAIN InUse.tracked /\ InUse.tracked[w] = r /\ r \in DOMAIN runtimes /\ InUse.link = "up"
      BY <1>1 DEF Watched, Quiet
    <3> QED BY <1>1, <3>1, <3>2 DEF Wired, Linked
  <2>3. x \notin attached
    <3>1. x[2] = r
      OBVIOUS
    <3>2. Alive(r) /\ p \in PanesOf(r)
      BY <1>1, WatchedIsJoined
    <3> HIDE DEF x
    <3> QED BY <1>1, <2>1, <3>1, <3>2 DEF PanesInv, Tuned
  <2> QED BY <2>1, <2>2, <2>3
<1>2. WindowInv /\ (Laid /\ Retired /\ Wired) /\ PanesInv => OutputIsShown
  BY <1>1 DEF OutputIsShown
<1> QED BY <1>2, WindowIsInductive, LayingIsInductive, PanesAreInductive, PTL

=============================================================================
