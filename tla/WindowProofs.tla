---------------------------- MODULE WindowProofs ----------------------------
(****************************************************************************)
(* What the window promises, for every number of workspaces, runtimes,       *)
(* terminals, actors, operations and faults.                                 *)
(*                                                                           *)
(* A runtime the user closed returns if something puts a workspace in it: an *)
(* answer of an actor, a recovery from an inventory, or the state that is    *)
(* loaded. So Kept follows a closed runtime into all three: no workspace     *)
(* awaits it, the client or the state on disk has it dismissed, or it is     *)
(* gone for good. What was dismissed is dropped when an inventory does not   *)
(* list it, which is sound because an older inventory listed no less         *)
(* (StocksAgree); a recovered workspace takes its number from its runtime,   *)
(* which is sound because no answer brings that number to another runtime    *)
(* (InFlight) and no workspace of that number is shown with none             *)
(* (Terminated).                                                             *)
(*                                                                           *)
(* There are some thirty actions and three kinds of them: the user's give    *)
(* orders (Orders), those of the actors and the daemon carry out what was    *)
(* ordered and tell of it (Spreads), and those of the poller take in what is *)
(* told (Reads). The invariant is shown to be kept by a step of each kind,   *)
(* and each action to be of its kind.                                        *)
(*                                                                           *)
(* The widgets follow the layouts. Every handler draws in one of five ways:  *)
(* one workspace again after its layout changed, a workspace that comes, one *)
(* that goes, the renaming of a terminal, or not at all. That no workspace a *)
(* handler adds was shown already, so that none loses its leaves without its *)
(* widgets, is a fact about numbers (WindowInv).                             *)
(*                                                                           *)
(* Who is said to be connected, on the screen or by an event that is not yet *)
(* read, is tracked by the actor in use or will be opened by it, unless a    *)
(* later event has another word (Tracking). An actor that tracks a workspace *)
(* no more says so, and what it is told to forget and is shown again it is   *)
(* told to open again after that.                                            *)
(****************************************************************************)
EXTENDS Window, FiniteSetTheorems, SequenceTheorems, TLAPS

Binding == {"open", "create", "split"}
Answers == {"opened", "created"}

\* What is asked of the actors, what they have told, and what they reattach to.
Queued == UNION {ToSet(actors[i].queue) : i \in DOMAIN actors}
Sent == ToSet(events)
Tracked(w, r) == \E i \in DOMAIN actors : w \in DOMAIN actors[i].tracked /\ actors[i].tracked[w] = r

\* The workspaces and the runtimes there have been.
Known == 1..minted.runtimes
Issued == 1..minted.workspaces \cup {Recovered(r) : r \in Known}

\* The number of a recovered workspace is that of its runtime (workspace_state.rs:390).
Own(w, r) == w > MaxWorkspaces => r = w - MaxWorkspaces

\* Runtimes the user closed and the client knows to be closed.
Remembered == closed \ (crashed \cup forgiven)

\* No inventory will list it.
Stocked(r) == \E e \in Sent : e.kind = "inventory" /\ r \in DOMAIN e.stock
Gone(r) == r \notin DOMAIN runtimes /\ ~Stocked(r)

IsSeq(s) == s \in Seq(ToSet(s))
IsActor(a) == {"queue", "tracked", "link"} \subseteq DOMAIN a /\ IsSeq(a.queue)
IsWorkspace(w) == {"layout", "runtime", "zoom", "status"} \subseteq DOMAIN w

Actors == IsSeq(actors) /\ actors # <<>> /\ \A i \in DOMAIN actors : IsActor(actors[i])
Shape ==
  /\ Actors
  /\ IsSeq(events)
  /\ \A w \in DOMAIN workspaces : IsWorkspace(workspaces[w])
  /\ \A w \in DOMAIN saved.workspaces : IsWorkspace(saved.workspaces[w])
  /\ minted \in [workspaces : 0..MaxWorkspaces, runtimes : 0..MaxRuntimes, terminals : Nat]

\* A client that ended has nothing to read, and nothing it did not write is left to lose
\* (connect_close_request).
Off == /\ life # "up" => events = <<>>
       /\ life = "off" => actors = <<Fresh>> /\ unsaved = {}

Numbered ==
  /\ DOMAIN workspaces \subseteq Issued
  /\ DOMAIN saved.workspaces \subseteq Issued
  /\ DOMAIN runtimes \cup DOMAIN owner \cup dismissed \cup offer \cup closed \subseteq Known
  /\ saved.dismissed \subseteq Known
  /\ \A w \in DOMAIN workspaces :
       workspaces[w].runtime \in Known \cup {None} /\ Own(w, workspaces[w].runtime)
  /\ \A w \in DOMAIN saved.workspaces :
       saved.workspaces[w].runtime \in Known \cup {None} /\ Own(w, saved.workspaces[w].runtime)

\* The same of the workspaces and runtimes that commands and events name, and of what is tracked.
IsCommand(c) ==
  /\ c.ws \in Issued \cup {None} /\ c.runtime \in Known \cup {None}
  /\ c.kind \in Binding => Own(c.ws, c.runtime)
IsEvent(e) ==
  /\ e.ws \in Issued \cup {None} /\ e.runtime \in Known \cup {None} /\ DOMAIN e.stock \subseteq Known
  /\ e.kind \in Answers => Own(e.ws, e.runtime)
  /\ e.kind = "created" => e.pane # None
InFlight ==
  /\ \A c \in Queued : IsCommand(c)
  /\ \A e \in Sent : IsEvent(e)
  /\ \A i \in DOMAIN actors : \A w \in DOMAIN actors[i].tracked :
       w \in Issued \cup {None} /\ actors[i].tracked[w] \in Known /\ Own(w, actors[i].tracked[w])

\* A recovered workspace whose runtime is being terminated is not shown, and cannot be recovered
\* again: it would lose its runtime, but not its number, to the one that was closed
\* (workspace_state.rs:322, 390).
Ending(w) == \/ \E c \in Queued : c.kind = "terminate" /\ c.ws = w
             \/ \E e \in Sent : e.kind = "terminated" /\ e.ws = w
Terminated ==
  \A r \in Runtimes : Ending(Recovered(r)) =>
    Recovered(r) \notin DOMAIN workspaces /\ (r \in dismissed \/ Gone(r))

\* A runtime that was heard of before an inventory that does not list it is in no later one: what
\* is dismissed and not listed may be dropped (workspace_state.rs:346).
Mentions(e, r) == \/ e.kind \in Answers /\ e.runtime = r
                  \/ e.kind = "inventory" /\ r \in DOMAIN e.stock
Heard(r) == r \in Bound(workspaces) \cup dismissed \cup offer
HeardBy(n, r) == Heard(r) \/ \E m \in DOMAIN events : m < n /\ Mentions(events[m], r)
StocksAgree ==
  \A n \in DOMAIN events : events[n].kind = "inventory" =>
    \A r \in Runtimes \ DOMAIN events[n].stock : HeardBy(n, r) =>
      /\ r \notin DOMAIN runtimes
      /\ \A m \in DOMAIN events : m > n /\ events[m].kind = "inventory" => r \notin DOMAIN events[m].stock

\* A runtime the user closed is out of reach of every answer, inventory and start.
Kept ==
  \A r \in Remembered :
    /\ r \notin Bound(workspaces)
    /\ \A w \in DOMAIN workspaces : ~Awaited(w, r)
    /\ r \in dismissed \/ Gone(r)
    /\ r \notin unsaved => r \notin Bound(saved.workspaces) /\ (r \in saved.dismissed \/ Gone(r))

WindowInv == Shape /\ Off /\ Numbered /\ InFlight /\ Terminated /\ StocksAgree /\ Kept

-----------------------------------------------------------------------------
(* Sequences and orders.                                                    *)

\* What a sequence of its own elements is.
LEMMA SeqFacts ==
  ASSUME NEW s, IsSeq(s)
  PROVE  /\ Len(s) \in Nat /\ DOMAIN s = 1..Len(s)
         /\ s # <<>> <=> Len(s) > 0
         /\ \A n \in DOMAIN s : s[n] \in ToSet(s)
         /\ \A x \in ToSet(s) : \E n \in DOMAIN s : s[n] = x
<1>1. s \in Seq(ToSet(s))
  BY DEF IsSeq
<1>2. Len(s) \in Nat /\ DOMAIN s = 1..Len(s)
  BY <1>1, LenProperties
<1>3. s # <<>> => Len(s) \in Nat \ {0}
  BY <1>1, EmptySeq
<1>4. s = <<>> => Len(s) = 0
  OBVIOUS
<1>5. (\A n \in DOMAIN s : s[n] \in ToSet(s)) /\ (\A x \in ToSet(s) : \E n \in DOMAIN s : s[n] = x)
  BY DEF ToSet
<1> QED BY <1>2, <1>3, <1>4, <1>5

\* A sequence of whatever is a sequence of its own elements.
LEMMA SeqIsSeq ==
  ASSUME NEW S, NEW s \in Seq(S)
  PROVE  IsSeq(s)
<1>1. s \in [1..Len(s) -> S] /\ Len(s) \in Nat /\ DOMAIN s = 1..Len(s)
  BY LenProperties
<1>2. s \in [1..Len(s) -> ToSet(s)]
  BY <1>1 DEF ToSet
<1> QED BY <1>1, <1>2, SeqDef DEF IsSeq

\* A list defined element by element.
LEMMA ListIsSeq ==
  ASSUME NEW n \in Nat, NEW s, s = [m \in 1..n |-> s[m]]
  PROVE  IsSeq(s) /\ Len(s) = n /\ DOMAIN s = 1..n
<1>1. DOMAIN s = 1..n
  OBVIOUS
<1>2. s \in [1..n -> ToSet(s)]
  BY <1>1 DEF ToSet
<1>3. s \in Seq(ToSet(s))
  BY <1>2, SeqDef
<1>4. Len(s) \in Nat /\ DOMAIN s = 1..Len(s)
  BY <1>3, LenProperties
<1> QED BY <1>1, <1>3, <1>4 DEF IsSeq

\* The empty sequence and those of one or two elements.
LEMMA ShortSeqs ==
  /\ IsSeq(<<>>) /\ ToSet(<<>>) = {}
  /\ \A x : IsSeq(<<x>>) /\ ToSet(<<x>>) = {x}
  /\ \A x, y : IsSeq(<<x, y>>) /\ ToSet(<<x, y>>) = {x, y}
<1>1. IsSeq(<<>>) /\ ToSet(<<>>) = {}
  BY EmptySeq DEF IsSeq, ToSet
<1>2. ASSUME NEW x PROVE IsSeq(<<x>>) /\ ToSet(<<x>>) = {x}
  <2>1. <<x>> \in Seq({x})
    OBVIOUS
  <2>2. DOMAIN <<x>> = {1} /\ <<x>>[1] = x
    OBVIOUS
  <2>3. ToSet(<<x>>) = {x}
    BY <2>2 DEF ToSet
  <2> QED BY <2>1, <2>3 DEF IsSeq
<1>3. ASSUME NEW x, NEW y PROVE IsSeq(<<x, y>>) /\ ToSet(<<x, y>>) = {x, y}
  <2>1. <<x, y>> \in Seq({x, y})
    OBVIOUS
  <2>2. DOMAIN <<x, y>> = {1, 2} /\ <<x, y>>[1] = x /\ <<x, y>>[2] = y
    OBVIOUS
  <2>3. ToSet(<<x, y>>) = {x, y}
    BY <2>2 DEF ToSet
  <2> QED BY <2>1, <2>3 DEF IsSeq
<1> QED BY <1>1, <1>2, <1>3

\* A sequence followed by another has the elements of both, in order.
LEMMA ConcatIsSeq ==
  ASSUME NEW s, NEW t, IsSeq(s), IsSeq(t)
  PROVE  /\ IsSeq(s \o t)
         /\ ToSet(s \o t) = ToSet(s) \cup ToSet(t)
         /\ Len(s \o t) = Len(s) + Len(t)
         /\ \A n \in 1..(Len(s) + Len(t)) : (s \o t)[n] = IF n <= Len(s) THEN s[n] ELSE t[n - Len(s)]
<1> DEFINE S == ToSet(s) \cup ToSet(t)
           u == s \o t
<1>1. s \in Seq(S) /\ t \in Seq(S)
  BY SeqMonotonic DEF IsSeq
<1>2. /\ u \in Seq(S) /\ Len(u) = Len(s) + Len(t)
      /\ \A n \in 1..(Len(s) + Len(t)) : u[n] = IF n <= Len(s) THEN s[n] ELSE t[n - Len(s)]
  BY <1>1, ConcatProperties
<1>3. /\ Len(s) \in Nat /\ Len(t) \in Nat /\ DOMAIN s = 1..Len(s) /\ DOMAIN t = 1..Len(t)
      /\ DOMAIN u = 1..(Len(s) + Len(t))
  BY <1>1, <1>2, LenProperties
<1> HIDE DEF u
<1>4. ASSUME NEW x \in ToSet(u) PROVE x \in S
  <2>1. PICK n \in DOMAIN u : u[n] = x
    BY DEF ToSet
  <2>2. CASE n <= Len(s)
    BY <1>2, <1>3, <2>1, <2>2 DEF ToSet
  <2>3. CASE n > Len(s)
    <3>1. n - Len(s) \in DOMAIN t /\ t[n - Len(s)] = x
      BY <1>2, <1>3, <2>1, <2>3
    <3> QED BY <3>1 DEF ToSet
  <2> QED BY <1>3, <2>1, <2>2, <2>3
<1>5. ASSUME NEW x \in ToSet(s) PROVE x \in ToSet(u)
  <2>1. PICK n \in DOMAIN s : s[n] = x
    BY DEF ToSet
  <2>2. n \in DOMAIN u /\ u[n] = x
    BY <1>2, <1>3, <2>1
  <2> QED BY <2>2 DEF ToSet
<1>6. ASSUME NEW x \in ToSet(t) PROVE x \in ToSet(u)
  <2>1. PICK n \in DOMAIN t : t[n] = x
    BY DEF ToSet
  <2>2. n + Len(s) \in DOMAIN u /\ u[n + Len(s)] = x
    BY <1>2, <1>3, <2>1
  <2> QED BY <2>2 DEF ToSet
<1>7. IsSeq(u) /\ ToSet(u) = S
  BY <1>2, <1>4, <1>5, <1>6, SeqIsSeq
<1> QED BY <1>2, <1>7 DEF u

\* What is left of a sequence when its head is taken.
LEMMA TailIsSeq ==
  ASSUME NEW s, IsSeq(s), s # <<>>
  PROVE  /\ IsSeq(Tail(s)) /\ Len(Tail(s)) = Len(s) - 1
         /\ \A n \in 1..(Len(s) - 1) : Tail(s)[n] = s[n + 1]
         /\ Head(s) = s[1] /\ Head(s) \in ToSet(s)
         /\ ToSet(Tail(s)) \subseteq ToSet(s)
         /\ RemoveAt(s, 1) = Tail(s)
<1>1. s \in Seq(ToSet(s)) /\ Len(s) \in Nat \ {0} /\ DOMAIN s = 1..Len(s)
  BY SeqFacts DEF IsSeq
<1>2. /\ Tail(s) \in Seq(ToSet(s)) /\ Len(Tail(s)) = Len(s) - 1
      /\ \A n \in 1..(Len(s) - 1) : Tail(s)[n] = s[n + 1]
      /\ Head(s) \in ToSet(s)
  BY <1>1, HeadTailProperties
<1>3. DOMAIN Tail(s) = 1..(Len(s) - 1)
  BY <1>1, <1>2, LenProperties
<1>4. ToSet(Tail(s)) \subseteq ToSet(s)
  <2> SUFFICES ASSUME NEW x \in ToSet(Tail(s)) PROVE x \in ToSet(s)
    OBVIOUS
  <2>1. PICK n \in DOMAIN Tail(s) : Tail(s)[n] = x
    BY DEF ToSet
  <2>2. n + 1 \in DOMAIN s /\ s[n + 1] = x
    BY <1>1, <1>2, <1>3, <2>1
  <2> QED BY <2>2 DEF ToSet
<1>5. RemoveAt(s, 1) = Tail(s)
  BY <1>1 DEF RemoveAt
<1>6. Head(s) = s[1]
  BY <1>1
<1> QED BY <1>2, <1>4, <1>5, <1>6, SeqIsSeq

\* The ordered sequence of a set has the members of the set, and all of them.
LEMMA OrderedIsSeq ==
  ASSUME NEW S \in SUBSET Nat, NEW bound \in Nat, \A x \in S : x <= bound
  PROVE  /\ IsSeq(Ordered(S)) /\ DOMAIN Ordered(S) = 1..Len(Ordered(S)) /\ Len(Ordered(S)) \in Nat
         /\ \A n \in DOMAIN Ordered(S) : Ordered(S)[n] \in S
         /\ \A x \in S : \E n \in DOMAIN Ordered(S) : Ordered(S)[n] = x
<1> DEFINE N == Cardinality(S)
           upto(x) == {y \in S : y <= x}
           f == [x \in S |-> Cardinality(upto(x))]
<1>1. IsFiniteSet(S) /\ N \in Nat
  BY FS_BoundedSetOfNaturals, FS_CardinalityType
<1>2. ASSUME NEW x \in S PROVE IsFiniteSet(upto(x)) /\ f[x] \in 1..N
  <2>1. IsFiniteSet(upto(x)) /\ Cardinality(upto(x)) <= N
    BY <1>1, FS_Subset
  <2>2. Cardinality(upto(x)) \in Nat /\ Cardinality(upto(x)) # 0
    <3>1. x \in upto(x)
      OBVIOUS
    <3> QED BY <2>1, <3>1, FS_CardinalityType, FS_EmptySet
  <2> QED BY <1>1, <2>1, <2>2
<1>3. ASSUME NEW x \in S, NEW y \in S, f[x] = f[y] PROVE x = y
  <2>1. ASSUME NEW a \in S, NEW b \in S, a < b PROVE f[a] # f[b]
    <3>1. upto(a) \subseteq upto(b)
      <4>1. ASSUME NEW z \in S, z <= a PROVE z <= b
        <5>1. z \in Nat /\ a \in Nat /\ b \in Nat
          OBVIOUS
        <5> QED BY <2>1, <4>1, <5>1
      <4> QED BY <4>1
    <3>2. b \in upto(b) /\ b \notin upto(a)
      <4>1. a \in Nat /\ b \in Nat
        OBVIOUS
      <4> QED BY <2>1, <4>1
    <3>3. Cardinality(upto(b)) # Cardinality(upto(a))
      BY <1>2, <3>1, <3>2, FS_Subset
    <3> QED BY <3>3
  <2>2. x < y \/ y < x \/ x = y
    OBVIOUS
  <2> QED BY <1>3, <2>1, <2>2
<1>4. f \in [S -> 1..N]
  BY <1>2
<1>5. f \in Injection(S, 1..N)
  BY <1>3, <1>4 DEF Injection, IsInjective
<1>6. IsFiniteSet(1..N) /\ Cardinality(1..N) = N
  BY <1>1, FS_Interval
<1>7. f \in Surjection(S, 1..N)
  BY <1>1, <1>5, <1>6, FS_Injection
<1>8. ASSUME NEW n \in 1..N PROVE \E x \in S : Cardinality({y \in S : y <= x}) = n
  BY <1>7 DEF Surjection
<1>9. ASSUME NEW n \in 1..N PROVE Ordered(S)[n] \in S
  BY <1>8 DEF Ordered
<1>10. Ordered(S) = [n \in 1..N |-> Ordered(S)[n]]
  BY DEF Ordered
<1> HIDE DEF N
<1>11. IsSeq(Ordered(S)) /\ Len(Ordered(S)) = N /\ DOMAIN Ordered(S) = 1..N
  BY <1>1, <1>10, ListIsSeq
<1>12. ASSUME NEW x \in S PROVE Ordered(S)[f[x]] = x /\ f[x] \in 1..N
  <2>1. f[x] \in 1..N
    BY <1>4
  <2>2. PICK n \in 1..N : n = f[x]
    BY <2>1
  <2>3. \A y \in S : Cardinality({z \in S : z <= y}) = n <=> y = x
    BY <1>3, <2>2
  <2>4. Ordered(S)[n] = CHOOSE y \in S : Cardinality({z \in S : z <= y}) = n
    BY <1>10 DEF Ordered, N
  <2>5. Ordered(S)[n] = CHOOSE y \in S : y = x
    BY <2>3, <2>4
  <2> QED BY <2>1, <2>2, <2>5
<1> QED BY <1>1, <1>9, <1>11, <1>12

-----------------------------------------------------------------------------
(* The tables and the channels.                                             *)

\* The bounds, one by one, and the numbers they allow.
LEMMA Numbers ==
  /\ MaxWorkspaces \in Nat \ {0} /\ MaxRuntimes \in Nat \ {0}
  /\ Runtimes \subseteq Nat /\ None \notin Runtimes
  /\ \A r \in Runtimes : Recovered(r) \in Nat /\ Recovered(r) > MaxWorkspaces
                         /\ Recovered(r) - MaxWorkspaces = r
BY WindowBounds DEF Runtimes, None, Recovered

\* Numbers are given one after the other: the next workspace is none there has been
\* (WorkspaceState::new_with_initial_cwd), and a number beyond the user's is that of a recovered one.
LEMMA KnownNumbers ==
  ASSUME Shape
  PROVE  /\ minted.workspaces \in 0..MaxWorkspaces /\ minted.runtimes \in 0..MaxRuntimes
         /\ Known \subseteq Runtimes /\ None \notin Known
         /\ None \notin Issued
         /\ \A w \in Issued \cup {None} : w \in Nat /\ w <= MaxWorkspaces + MaxRuntimes
         /\ \A w \in Issued : w > MaxWorkspaces => \E r \in Known : w = Recovered(r)
         /\ minted.workspaces + 1 <= MaxWorkspaces => minted.workspaces + 1 \notin Issued \cup {None}
<1>1. minted.workspaces \in 0..MaxWorkspaces /\ minted.runtimes \in 0..MaxRuntimes
  BY DEF Shape
<1>2. Known \subseteq Runtimes /\ None \notin Known
  BY <1>1, Numbers DEF Known, Runtimes, None
<1>3. \A w \in Issued : \/ w \in 1..minted.workspaces
                        \/ \E r \in Known : w = Recovered(r)
  BY DEF Issued
<1>4. \A r \in Runtimes : r \in 1..MaxRuntimes /\ Recovered(r) = MaxWorkspaces + r
  BY DEF Runtimes, Recovered
<1> QED BY <1>1, <1>2, <1>3, <1>4, Numbers DEF None

\* One actor changes: what is in the queues and what is tracked.
LEMMA ActorChanges ==
  ASSUME Actors, NEW i \in DOMAIN actors, NEW a, IsActor(a), actors' = [actors EXCEPT ![i] = a],
         NEW more, ToSet(a.queue) \subseteq ToSet(actors[i].queue) \cup more
  PROVE  /\ Actors' /\ Len(actors') = Len(actors)
         /\ \A c \in Queued' : c \in Queued \/ c \in more
         /\ \A w, r : Tracked(w, r)' => \/ Tracked(w, r)
                                        \/ w \in DOMAIN a.tracked /\ a.tracked[w] = r
<1>1. DOMAIN actors = 1..Len(actors) /\ Len(actors) \in Nat /\ Len(actors) > 0
  BY SeqFacts DEF Actors
<1>2. DOMAIN actors' = DOMAIN actors /\ actors' = [n \in 1..Len(actors) |-> actors'[n]]
  BY <1>1
<1>3. IsSeq(actors') /\ Len(actors') = Len(actors) /\ actors' # <<>>
  BY <1>1, <1>2, ListIsSeq, SeqFacts
<1>4. \A n \in DOMAIN actors' : actors'[n] = IF n = i THEN a ELSE actors[n]
  OBVIOUS
<1>5. Actors'
  BY <1>2, <1>3, <1>4 DEF Actors
<1>6. ASSUME NEW c \in Queued' PROVE c \in Queued \/ c \in more
  <2>1. PICK n \in DOMAIN actors' : c \in ToSet(actors'[n].queue)
    BY DEF Queued
  <2>2. CASE n = i
    BY <1>4, <2>1, <2>2 DEF Queued
  <2>3. CASE n # i
    BY <1>2, <1>4, <2>1, <2>3 DEF Queued
  <2> QED BY <2>2, <2>3
<1>7. ASSUME NEW w, NEW r, Tracked(w, r)'
      PROVE  Tracked(w, r) \/ (w \in DOMAIN a.tracked /\ a.tracked[w] = r)
  <2>1. PICK n \in DOMAIN actors' : w \in DOMAIN actors'[n].tracked /\ actors'[n].tracked[w] = r
    BY <1>7 DEF Tracked
  <2> QED BY <1>2, <1>4, <2>1 DEF Tracked
<1> QED BY <1>3, <1>5, <1>6, <1>7

\* Commands go to the actor in use (send_to_endpoint).
LEMMA SendAdds ==
  ASSUME Actors, NEW commands, IsSeq(commands), Send(commands)
  PROVE  /\ Actors'
         /\ \A c \in Queued' : c \in Queued \/ c \in ToSet(commands)
         /\ \A w, r : Tracked(w, r)' => Tracked(w, r)
<1> DEFINE i == Len(actors)
           a == [actors[i] EXCEPT !.queue = @ \o commands]
           more == ToSet(commands)
<1>1. i \in DOMAIN actors
  BY SeqFacts DEF Actors
<1>2. IsActor(actors[i])
  BY <1>1 DEF Actors
<1>3. a.queue = actors[i].queue \o commands /\ a.tracked = actors[i].tracked /\ DOMAIN a = DOMAIN actors[i]
  BY <1>2 DEF IsActor
<1>4. IsActor(a) /\ ToSet(a.queue) \subseteq ToSet(actors[i].queue) \cup more
  BY <1>2, <1>3, ConcatIsSeq DEF IsActor
<1>5. actors' = [actors EXCEPT ![i] = a]
  BY DEF Send
<1> HIDE DEF i, a, more
<1>6. /\ Actors'
      /\ \A c \in Queued' : c \in Queued \/ c \in more
      /\ \A w, r : Tracked(w, r)' => Tracked(w, r) \/ (w \in DOMAIN a.tracked /\ a.tracked[w] = r)
  BY <1>1, <1>4, <1>5, ActorChanges
<1>7. \A w, r : w \in DOMAIN a.tracked /\ a.tracked[w] = r => Tracked(w, r)
  BY <1>1, <1>3 DEF Tracked
<1> QED BY <1>6, <1>7 DEF more

\* An actor is done with the command at the head of its queue.
LEMMA DoneAdds ==
  ASSUME Actors, NEW i \in DOMAIN actors, actors[i].queue # <<>>,
         NEW link, NEW tracked, NEW more, IsSeq(more), Done(i, link, tracked, more)
  PROVE  /\ Actors'
         /\ \A c \in Queued' : c \in Queued \/ c \in ToSet(more)
         /\ \A w, r : Tracked(w, r)' => Tracked(w, r) \/ (w \in DOMAIN tracked /\ tracked[w] = r)
<1> DEFINE a == [queue |-> Tail(actors[i].queue) \o more, tracked |-> tracked, link |-> link]
           added == ToSet(more)
<1>1. IsSeq(actors[i].queue)
  BY DEF Actors, IsActor
<1>2. IsSeq(Tail(actors[i].queue)) /\ ToSet(Tail(actors[i].queue)) \subseteq ToSet(actors[i].queue)
  BY <1>1, TailIsSeq
<1>3. /\ a.queue = Tail(actors[i].queue) \o more /\ a.tracked = tracked
      /\ DOMAIN a = {"queue", "tracked", "link"}
  OBVIOUS
<1>4. IsSeq(a.queue) /\ ToSet(a.queue) = ToSet(Tail(actors[i].queue)) \cup added
  BY <1>2, <1>3, ConcatIsSeq
<1>5. IsActor(a) /\ ToSet(a.queue) \subseteq ToSet(actors[i].queue) \cup added
  BY <1>2, <1>3, <1>4 DEF IsActor
<1>6. actors' = [actors EXCEPT ![i] = a]
  BY DEF Done
<1>7. a.tracked = tracked
  OBVIOUS
<1> HIDE DEF a, added
<1>8. /\ Actors'
      /\ \A c \in Queued' : c \in Queued \/ c \in added
      /\ \A w, r : Tracked(w, r)' => Tracked(w, r) \/ (w \in DOMAIN a.tracked /\ a.tracked[w] = r)
  BY <1>5, <1>6, ActorChanges
<1> QED BY <1>7, <1>8 DEF added

\* The command an actor takes is a queued one.
LEMMA HeadIsQueued ==
  ASSUME Actors, NEW i \in DOMAIN actors, actors[i].queue # <<>>
  PROVE  Head(actors[i].queue) \in Queued
<1>1. Head(actors[i].queue) \in ToSet(actors[i].queue)
  BY TailIsSeq DEF Actors, IsActor
<1> QED BY <1>1 DEF Queued

\* Events go to the end of the channel, if there is someone to read them.
LEMMA EmitAdds ==
  ASSUME NEW i, NEW list, IsSeq(list), IsSeq(events), Emit(i, list)
  PROVE  \E more : /\ IsSeq(more) /\ events' = events \o more
                   /\ life # "up" => more = <<>>
                   /\ \A e \in ToSet(more) : \E n \in DOMAIN list : e = [list[n] EXCEPT !.from = i]
<1>1. CASE life = "up"
  <2> DEFINE more == [n \in DOMAIN list |-> [list[n] EXCEPT !.from = i]]
  <2>1. DOMAIN list = 1..Len(list) /\ Len(list) \in Nat
    BY SeqFacts
  <2>2. more = [n \in 1..Len(list) |-> more[n]]
    BY <2>1
  <2>3. events' = events \o more
    BY <1>1 DEF Emit
  <2>4. \A e \in ToSet(more) : \E n \in DOMAIN list : e = [list[n] EXCEPT !.from = i]
    BY DEF ToSet
  <2> HIDE DEF more
  <2>5. IsSeq(more)
    BY <2>1, <2>2, ListIsSeq
  <2> QED BY <1>1, <2>3, <2>4, <2>5
<1>2. CASE life # "up"
  <2>1. events \in Seq(ToSet(events))
    BY DEF IsSeq
  <2>2. events' = events \o <<>>
    BY <1>2, <2>1, ConcatEmptySeq DEF Emit
  <2> QED BY <2>2, ShortSeqs
<1> QED BY <1>1, <1>2

\* The poller takes the event at the head of the channel.
LEMMA PollsTakes ==
  ASSUME NEW kind, IsSeq(events), Polls(kind)
  PROVE  /\ events # <<>> /\ events' = Tail(events) /\ life = "up"
         /\ Polling = Head(events) /\ Polling = events[1] /\ Polling \in Sent /\ Polling.kind = kind
<1>1. life = "up" /\ events # <<>> /\ events[1].kind = kind /\ events' = RemoveAt(events, 1)
  BY DEF Polls, Polled
<1>2. Polling = events[1]
  BY DEF Polling, Polled
<1> QED BY <1>1, <1>2, TailIsSeq DEF Sent

-----------------------------------------------------------------------------
(* The actors and the daemon carry out what was ordered.                    *)

\* The runtime a step of the daemon creates, and the workspaces and runtimes a step may tell of.
New == (minted.runtimes + 1)..minted'.runtimes
Bindable(w, r) == Awaited(w, r) \/ (w \in Issued \cup {None} /\ Own(w, r) /\ r \in New)
News(e) ==
  /\ e.ws \in Issued \cup {None} /\ e.runtime \in Known' \cup {None} /\ DOMAIN e.stock \subseteq Known
  /\ e.kind \in Answers => Bindable(e.ws, e.runtime)
  /\ e.kind = "created" => e.pane # None
  /\ e.kind = "terminated" => \E c \in Queued : c.kind = "terminate" /\ c.ws = e.ws
  /\ e.kind = "inventory" => e.stock = runtimes /\ runtimes' = runtimes

\* A step of an actor or of the daemon: it follows up a command with a create at most, tracks and
\* tells of what is awaited or new, and lists what there is; the client does not change.
Spreads ==
  /\ UNCHANGED <<life, workspaces, dismissed, offer, saved, unsaved, crashed>>
  /\ life # "off" \/ actors' = actors
  /\ Actors'
  /\ minted' \in [workspaces : {minted.workspaces}, runtimes : minted.runtimes..MaxRuntimes, terminals : Nat]
  /\ \A c \in Queued' : c \in Queued \/ (c.kind = "create" /\ Bindable(c.ws, c.runtime))
  /\ \A w, r : Tracked(w, r)' => Tracked(w, r) \/ (r # None /\ Bindable(w, r))
  /\ \E more : /\ IsSeq(more) /\ events' = events \o more
               /\ life # "up" => more = <<>>
               /\ \A e \in ToSet(more) : News(e)
  /\ DOMAIN runtimes' \subseteq DOMAIN runtimes \cup New
  /\ DOMAIN owner' \subseteq DOMAIN owner \cup New
  /\ closed' \subseteq closed \cup (New \cap forgiven') /\ forgiven \subseteq forgiven'

\* What a workspace may still be told is on its way: an answer, a command, or a reattach.
LEMMA AwaitedMeans ==
  ASSUME NEW w, NEW r
  PROVE  Awaited(w, r) <=> \/ \E e \in Sent : e.kind \in Answers /\ e.ws = w /\ e.runtime = r
                           \/ \E c \in Queued : c.kind \in Binding /\ c.ws = w /\ c.runtime = r
                           \/ Tracked(w, r)
BY DEF Awaited, Sent, Queued, Tracked, ToSet, Answers, Binding

\* The same after a step.
LEMMA AwaitedMeansNext ==
  ASSUME NEW w, NEW r
  PROVE  Awaited(w, r)' <=> \/ \E e \in Sent' : e.kind \in Answers /\ e.ws = w /\ e.runtime = r
                            \/ \E c \in Queued' : c.kind \in Binding /\ c.ws = w /\ c.runtime = r
                            \/ Tracked(w, r)'
BY DEF Awaited, Sent, Queued, Tracked, ToSet, Answers, Binding

\* What a workspace may still be told is a runtime there has been, its own if it was recovered.
LEMMA AwaitedIsOwn ==
  ASSUME InFlight, NEW w, NEW r, Awaited(w, r)
  PROVE  w \in Issued \cup {None} /\ r \in Known \cup {None} /\ Own(w, r)
<1>1. CASE \E e \in Sent : e.kind \in Answers /\ e.ws = w /\ e.runtime = r
  BY <1>1 DEF InFlight, IsEvent
<1>2. CASE \E c \in Queued : c.kind \in Binding /\ c.ws = w /\ c.runtime = r
  BY <1>2 DEF InFlight, IsCommand
<1>3. CASE Tracked(w, r)
  BY <1>3 DEF InFlight, Tracked
<1> QED BY <1>1, <1>2, <1>3, AwaitedMeans

\* The numbers that were given stay given.
LEMMA NumbersGrow ==
  ASSUME Shape, minted'.workspaces \in Nat, minted'.runtimes \in Nat,
         minted'.workspaces >= minted.workspaces, minted'.runtimes >= minted.runtimes
  PROVE  /\ Known \subseteq Known' /\ Issued \subseteq Issued'
         /\ Known' = Known \cup New /\ New \cap Known = {}
<1>1. minted.workspaces \in Nat /\ minted.runtimes \in Nat
  BY DEF Shape
<1>2. Known \subseteq Known' /\ Known' = Known \cup New /\ New \cap Known = {}
  BY <1>1 DEF Known, New
<1>3. 1..minted.workspaces \subseteq 1..minted'.workspaces
  BY <1>1
<1>4. Issued' = 1..minted'.workspaces \cup {Recovered(r) : r \in Known'}
  BY DEF Issued, Recovered
<1> QED BY <1>2, <1>3, <1>4 DEF Issued

\* What a step tells of goes to the end of the channel.
LEMMA SentGrows ==
  ASSUME IsSeq(events), NEW more, IsSeq(more), events' = events \o more
  PROVE  /\ IsSeq(events') /\ Sent' = Sent \cup ToSet(more)
         /\ Len(events) \in Nat /\ Len(more) \in Nat /\ Len(events') = Len(events) + Len(more)
         /\ DOMAIN events = 1..Len(events) /\ DOMAIN events' = 1..(Len(events) + Len(more))
         /\ \A n \in DOMAIN events : events'[n] = events[n]
         /\ \A n \in DOMAIN events' : n > Len(events) => events'[n] \in ToSet(more)
<1>1. /\ IsSeq(events \o more) /\ ToSet(events \o more) = ToSet(events) \cup ToSet(more)
      /\ Len(events \o more) = Len(events) + Len(more)
      /\ \A n \in 1..(Len(events) + Len(more)) :
           (events \o more)[n] = IF n <= Len(events) THEN events[n] ELSE more[n - Len(events)]
  BY ConcatIsSeq
<1>2. /\ Len(events) \in Nat /\ Len(more) \in Nat
      /\ DOMAIN events = 1..Len(events) /\ DOMAIN more = 1..Len(more)
      /\ DOMAIN (events \o more) = 1..(Len(events) + Len(more))
  BY <1>1, SeqFacts
<1>3. \A n \in DOMAIN more : more[n] \in ToSet(more)
  BY DEF ToSet
<1>4. \A n \in DOMAIN events : events'[n] = events[n]
  BY <1>1, <1>2
<1>5. \A n \in DOMAIN events' : n > Len(events) => events'[n] \in ToSet(more)
  <2> SUFFICES ASSUME NEW n \in 1..(Len(events) + Len(more)), n > Len(events)
               PROVE  events'[n] \in ToSet(more)
    BY <1>2
  <2>1. n - Len(events) \in DOMAIN more /\ events'[n] = more[n - Len(events)]
    BY <1>1, <1>2
  <2> QED BY <1>3, <2>1
<1>6. Sent' = Sent \cup ToSet(more)
  BY <1>1 DEF Sent
<1> QED BY <1>1, <1>2, <1>4, <1>5, <1>6

\* What a step may bring a workspace to hear of was awaited, or is new.
LEMMA SpreadsWhatIsBindable ==
  ASSUME Shape, Spreads, NEW w, NEW r, Awaited(w, r)'
  PROVE  Bindable(w, r)
<1>1. PICK more : IsSeq(more) /\ events' = events \o more /\ \A e \in ToSet(more) : News(e)
  BY DEF Spreads
<1>2. Sent' = Sent \cup ToSet(more)
  BY <1>1, SentGrows DEF Shape
<1>3. CASE \E e \in Sent' : e.kind \in Answers /\ e.ws = w /\ e.runtime = r
  BY <1>1, <1>2, <1>3, AwaitedMeans DEF News, Bindable
<1>4. CASE \E c \in Queued' : c.kind \in Binding /\ c.ws = w /\ c.runtime = r
  BY <1>4, AwaitedMeans DEF Spreads, Bindable
<1>5. CASE Tracked(w, r)'
  BY <1>5, AwaitedMeans DEF Spreads, Bindable
<1> QED BY <1>3, <1>4, <1>5, AwaitedMeansNext

\* A workspace that is being terminated has been one.
LEMMA EndingIsKnown ==
  ASSUME Shape, InFlight, NEW r \in Runtimes, Ending(Recovered(r))
  PROVE  r \in Known
<1>1. Recovered(r) \in Issued \cup {None}
  BY DEF Ending, InFlight, IsCommand, IsEvent
<1>2. Recovered(r) \in Nat /\ Recovered(r) > MaxWorkspaces /\ MaxWorkspaces \in Nat
  BY Numbers
<1>3. PICK q \in Known : Recovered(r) = Recovered(q)
  BY <1>1, <1>2, KnownNumbers DEF None
<1>4. r = q
  BY <1>3, KnownNumbers, Numbers
<1> QED BY <1>4

\* The daemon adds at most the number of a new runtime, and tells of no others.
LEMMA SpreadsNumbers ==
  ASSUME Shape, Spreads
  PROVE  /\ Shape' /\ Known' = Known \cup New /\ New \cap Known = {} /\ Issued \subseteq Issued'
         /\ \A w, r : InFlight /\ Bindable(w, r) =>
              w \in Issued \cup {None} /\ r \in Known' \cup {None} /\ Own(w, r)
<1>1. PICK more : IsSeq(more) /\ events' = events \o more
  BY DEF Spreads
<1>2. IsSeq(events')
  BY <1>1, SentGrows DEF Shape
<1>3. minted.workspaces \in 0..MaxWorkspaces /\ minted.runtimes \in 0..MaxRuntimes
  BY DEF Shape
<1>4. /\ minted'.workspaces = minted.workspaces /\ minted'.runtimes \in minted.runtimes..MaxRuntimes
      /\ minted' \in [workspaces : 0..MaxWorkspaces, runtimes : 0..MaxRuntimes, terminals : Nat]
  BY <1>3, Numbers DEF Spreads
<1>5. Shape'
  BY <1>2, <1>4 DEF Shape, Spreads
<1>6. minted'.workspaces \in Nat /\ minted'.runtimes \in Nat /\ minted'.runtimes >= minted.runtimes
      /\ minted'.workspaces >= minted.workspaces
  BY <1>3, <1>4, Numbers
<1>7. Known' = Known \cup New /\ New \cap Known = {} /\ Issued \subseteq Issued'
  BY <1>6, NumbersGrow
<1>8. \A w, r : InFlight /\ Bindable(w, r) =>
              w \in Issued \cup {None} /\ r \in Known' \cup {None} /\ Own(w, r)
  BY <1>7, AwaitedIsOwn DEF Bindable
<1> QED BY <1>5, <1>7, <1>8

\* A runtime that is gone stays gone: the daemon gives a number once.
LEMMA SpreadsKeepsGone ==
  ASSUME Shape, Spreads, NEW r \in Known, Gone(r)
  PROVE  Gone(r)'
<1>1. PICK more : IsSeq(more) /\ events' = events \o more /\ \A e \in ToSet(more) : News(e)
  BY DEF Spreads
<1>2. Sent' = Sent \cup ToSet(more)
  BY <1>1, SentGrows DEF Shape
<1>3. r \notin DOMAIN runtimes'
  BY SpreadsNumbers DEF Spreads, Gone
<1>4. ASSUME NEW e \in Sent', e.kind = "inventory" PROVE r \notin DOMAIN e.stock
  BY <1>1, <1>2, <1>4 DEF News, Gone, Stocked
<1> QED BY <1>3, <1>4 DEF Gone, Stocked

\* A step of an actor or of the daemon names only workspaces and runtimes that there have been.
LEMMA SpreadsKeepsNumbers ==
  ASSUME Shape, Off, Numbered, InFlight, Spreads
  PROVE  Off' /\ Numbered' /\ InFlight'
<1>1. PICK more : /\ IsSeq(more) /\ events' = events \o more /\ (life # "up" => more = <<>>)
                  /\ \A e \in ToSet(more) : News(e)
  BY DEF Spreads
<1>2. Sent' = Sent \cup ToSet(more)
  BY <1>1, SentGrows DEF Shape
<1>3. Off'
  <2>1. life' = life /\ unsaved' = unsaved
    BY DEF Spreads
  <2>2. CASE life = "up"
    BY <2>1, <2>2 DEF Off
  <2>3. CASE life # "up"
    <3>1. events' = <<>>
      BY <1>1, <2>3 DEF Off
    <3>2. life = "off" => actors' = actors
      BY DEF Spreads
    <3> QED BY <2>1, <2>3, <3>1, <3>2 DEF Off, Fresh
  <2> QED BY <2>2, <2>3
<1>4. Known' = Known \cup New /\ Issued \subseteq Issued'
  BY SpreadsNumbers
<1>5. Numbered'
  BY <1>4 DEF Numbered, Spreads, Own
<1>6. ASSUME NEW c \in Queued' PROVE IsCommand(c)'
  <2>1. CASE c \in Queued
    BY <1>4, <2>1 DEF InFlight, IsCommand, Own
  <2>2. CASE c.kind = "create" /\ Bindable(c.ws, c.runtime)
    BY <1>4, <2>2, SpreadsNumbers DEF IsCommand, Own
  <2> QED BY <2>1, <2>2 DEF Spreads
<1>7. ASSUME NEW e \in Sent' PROVE IsEvent(e)'
  <2>1. CASE e \in Sent
    BY <1>4, <2>1 DEF InFlight, IsEvent, Own
  <2>2. CASE e \in ToSet(more)
    <3>1. News(e)
      BY <1>1, <2>2
    <3>2. e.kind \in Answers => Own(e.ws, e.runtime)
      BY <3>1, SpreadsNumbers DEF News
    <3> QED BY <1>4, <3>1, <3>2 DEF News, IsEvent, Own
  <2> QED BY <1>2, <2>1, <2>2
<1>8. ASSUME NEW i \in DOMAIN actors', NEW w \in DOMAIN actors'[i].tracked
      PROVE  w \in Issued' \cup {None} /\ actors'[i].tracked[w] \in Known' /\ Own(w, actors'[i].tracked[w])
  <2>0. PICK r : r = actors'[i].tracked[w]
    OBVIOUS
  <2>1. Tracked(w, r)'
    BY <2>0 DEF Tracked
  <2>2. CASE Tracked(w, r)
    BY <1>4, <2>0, <2>2 DEF InFlight, Tracked
  <2>3. CASE r # None /\ Bindable(w, r)
    BY <1>4, <2>0, <2>3, SpreadsNumbers
  <2> QED BY <2>1, <2>2, <2>3 DEF Spreads
<1>9. InFlight'
  BY <1>6, <1>7, <1>8 DEF InFlight, Own
<1> QED BY <1>3, <1>5, <1>9

\* It tells that a workspace ended only if that was ordered.
LEMMA SpreadsKeepsTerminated ==
  ASSUME Shape, Numbered, InFlight, Terminated, Spreads
  PROVE  Terminated'
<1>1. PICK more : IsSeq(more) /\ events' = events \o more /\ \A e \in ToSet(more) : News(e)
  BY DEF Spreads
<1>2. Sent' = Sent \cup ToSet(more)
  BY <1>1, SentGrows DEF Shape
<1> SUFFICES ASSUME NEW r \in Runtimes, Ending(Recovered(r))'
             PROVE  Recovered(r) \notin DOMAIN workspaces' /\ (r \in dismissed' \/ Gone(r)')
  BY DEF Terminated, Recovered
<1>3. Ending(Recovered(r))
  <2>1. CASE \E c \in Queued' : c.kind = "terminate" /\ c.ws = Recovered(r)
    BY <2>1 DEF Spreads, Ending
  <2>2. CASE \E e \in Sent' : e.kind = "terminated" /\ e.ws = Recovered(r)
    BY <1>1, <1>2, <2>2 DEF News, Ending
  <2> QED BY <2>1, <2>2 DEF Ending, Recovered
<1>4. r \in Known
  BY <1>3, EndingIsKnown
<1> QED BY <1>3, <1>4, SpreadsKeepsGone DEF Terminated, Spreads

\* An inventory it adds lists what there is, and earlier ones listed what was heard of and still is.
LEMMA SpreadsKeepsStocks ==
  ASSUME Shape, Numbered, InFlight, StocksAgree, Spreads
  PROVE  StocksAgree'
<1>1. PICK more : IsSeq(more) /\ events' = events \o more /\ \A e \in ToSet(more) : News(e)
  BY DEF Spreads
<1>2. /\ Len(events) \in Nat /\ DOMAIN events = 1..Len(events) /\ DOMAIN events' \subseteq Nat
      /\ \A n \in DOMAIN events : n \in DOMAIN events' /\ events'[n] = events[n] /\ events[n] \in Sent
      /\ \A n \in DOMAIN events' : n \notin DOMAIN events => n > Len(events) /\ News(events'[n])
  BY <1>1, SentGrows, SMTT(30) DEF Shape, Sent, ToSet
<1> SUFFICES ASSUME NEW n \in DOMAIN events', events'[n].kind = "inventory",
                    NEW r \in Runtimes, r \notin DOMAIN events'[n].stock, HeardBy(n, r)'
             PROVE  /\ r \notin DOMAIN runtimes'
                    /\ \A m \in DOMAIN events' :
                         m > n /\ events'[m].kind = "inventory" => r \notin DOMAIN events'[m].stock
  BY DEF StocksAgree, Runtimes
<1>3. Heard(r)' <=> Heard(r)
  BY DEF Heard, Bound, Spreads
<1>4. Heard(r) => r \in Known
  BY KnownNumbers, Numbers DEF Heard, Bound, Numbered
<1>5. CASE n \in DOMAIN events
  <2>1. HeardBy(n, r)
    <3>1. CASE Heard(r)
      BY <3>1 DEF HeardBy
    <3>2. ASSUME NEW m \in DOMAIN events', m < n, Mentions(events'[m], r) PROVE HeardBy(n, r)
      <4>1. m \in DOMAIN events
        BY <1>2, <1>5, <3>2
      <4> QED BY <1>2, <3>2, <4>1 DEF HeardBy
    <3> QED BY <1>3, <3>1, <3>2 DEF HeardBy, Mentions
  <2>2. r \in Known
    <3>1. CASE Heard(r)
      BY <1>4, <3>1
    <3>2. ASSUME NEW m \in DOMAIN events, Mentions(events[m], r) PROVE r \in Known
      <4>1. events[m] \in Sent /\ r # None
        BY <1>2, Numbers
      <4>2. IsEvent(events[m])
        BY <4>1 DEF InFlight
      <4> QED BY <3>2, <4>1, <4>2 DEF Mentions, IsEvent
    <3> QED BY <2>1, <3>1, <3>2 DEF HeardBy
  <2>3. /\ r \notin DOMAIN runtimes
        /\ \A m \in DOMAIN events : m > n /\ events[m].kind = "inventory" => r \notin DOMAIN events[m].stock
    BY <1>2, <1>5, <2>1 DEF StocksAgree
  <2>4. r \notin DOMAIN runtimes'
    BY <2>2, <2>3, SpreadsNumbers DEF Spreads
  <2>5. ASSUME NEW m \in DOMAIN events', m > n, events'[m].kind = "inventory"
        PROVE  r \notin DOMAIN events'[m].stock
    <3>1. CASE m \in DOMAIN events
      BY <1>2, <2>3, <2>5, <3>1
    <3>2. CASE m \notin DOMAIN events
      BY <1>2, <2>3, <2>5, <3>2 DEF News
    <3> QED BY <3>1, <3>2
  <2> QED BY <2>4, <2>5
<1>6. CASE n \notin DOMAIN events
  <2>1. events'[n].stock = runtimes /\ n > Len(events)
    BY <1>2, <1>6 DEF News
  <2>2. ASSUME NEW m \in DOMAIN events', m > n, events'[m].kind = "inventory"
        PROVE  events'[m].stock = runtimes
    <3>1. m \notin DOMAIN events
      BY <1>2, <2>1, <2>2
    <3> QED BY <1>2, <2>2, <3>1 DEF News
  <2>3. runtimes' = runtimes
    BY <1>2, <1>6 DEF News
  <2> QED BY <2>1, <2>2, <2>3
<1> QED BY <1>5, <1>6

\* It brings a workspace to hear only of what it awaited, or of a runtime nobody closed yet.
LEMMA SpreadsKeepsKept ==
  ASSUME Shape, Numbered, InFlight, Kept, Spreads
  PROVE  Kept'
<1> SUFFICES ASSUME NEW r \in Remembered'
             PROVE  /\ r \notin Bound(workspaces)'
                    /\ \A w \in DOMAIN workspaces' : ~Awaited(w, r)'
                    /\ r \in dismissed' \/ Gone(r)'
                    /\ r \notin unsaved' => /\ r \notin Bound(saved.workspaces)'
                                            /\ r \in saved'.dismissed \/ Gone(r)'
  BY DEF Kept
<1>1. r \in Remembered
  BY DEF Remembered, Spreads
<1>2. r \in Known /\ r \notin New
  BY <1>1, SpreadsNumbers DEF Remembered, Numbered
<1>3. \A w : Awaited(w, r)' => Awaited(w, r)
  BY <1>2, SpreadsWhatIsBindable DEF Bindable
<1>4. Gone(r) => Gone(r)'
  BY <1>2, SpreadsKeepsGone
<1>5. UNCHANGED <<workspaces, dismissed, saved, unsaved>>
  BY DEF Spreads
<1> QED BY <1>1, <1>3, <1>4, <1>5 DEF Kept, Bound

\* So the invariant survives a step of an actor or of the daemon.
LEMMA SpreadsKeepsInv ==
  ASSUME WindowInv, Spreads
  PROVE  WindowInv'
BY SpreadsNumbers, SpreadsKeepsNumbers, SpreadsKeepsTerminated, SpreadsKeepsStocks, SpreadsKeepsKept
   DEF WindowInv

-----------------------------------------------------------------------------
(* The user gives orders.                                                   *)

\* The state is on disk as it will be shown (save_state, runtime.rs).
Wrote ==
  /\ DOMAIN saved'.workspaces = DOMAIN workspaces'
  /\ \A w \in DOMAIN workspaces' : /\ IsWorkspace(saved'.workspaces[w])
                                   /\ saved'.workspaces[w].runtime = workspaces'[w].runtime
  /\ saved'.dismissed = dismissed'
  /\ unsaved' = {}

Added == (minted.workspaces + 1)..minted'.workspaces
Given(c) ==
  /\ c.ws \in Issued' \cup {None} /\ c.runtime \in Known \cup {None}
  /\ c.kind \in Binding => c.ws \in DOMAIN workspaces' /\ c.runtime = workspaces'[c.ws].runtime
  /\ c.kind = "terminate" => /\ c.ws \in DOMAIN workspaces \ DOMAIN workspaces'
                             /\ workspaces[c.ws].runtime \in dismissed'
LetGo(r) ==
  /\ r \in dismissed' /\ r \notin Bound(workspaces)'
  /\ \A w \in DOMAIN workspaces' : w \in DOMAIN workspaces /\ ~Awaited(w, r)
  /\ r \in unsaved' \/ Wrote

\* A step of the user, or of the client's own timer: workspaces are added, which are in no runtime or
\* in one of the dialog, and go; what is asked of the actors is for workspaces that are shown, except
\* to leave the runtime of one that goes, and if to terminate it, that is dismissed.
Orders ==
  /\ life = "up" /\ life' \in {"up", "leaving"}
  /\ \/ life' = "up" /\ events' = events
     \/ events' = <<>>
  /\ UNCHANGED <<runtimes, crashed>>
  /\ Actors'
  /\ minted' \in [workspaces : minted.workspaces..MaxWorkspaces, runtimes : {minted.runtimes}, terminals : Nat]
  /\ \A w \in DOMAIN workspaces' :
       /\ IsWorkspace(workspaces'[w])
       /\ \/ w \in DOMAIN workspaces /\ workspaces'[w].runtime = workspaces[w].runtime
          \/ w \in Added /\ workspaces'[w].runtime \in offer \cup {None}
  /\ dismissed \subseteq dismissed' /\ dismissed' \subseteq dismissed \cup Bound(workspaces)
  /\ offer' \subseteq offer
  /\ DOMAIN owner' \subseteq DOMAIN owner /\ closed' \subseteq Known
  /\ \A c \in Queued' : c \in Queued \/ Given(c)
  /\ \A w, r : Tracked(w, r)' => Tracked(w, r)
  /\ \A r \in Remembered' :
       \/ r \in Remembered /\ \A w \in DOMAIN workspaces' \cap Added : workspaces'[w].runtime # r
       \/ LetGo(r)
  /\ Wrote \/ (saved' = saved /\ unsaved \subseteq unsaved')

\* The user adds at most the number of a new workspace.
LEMMA OrdersNumbers ==
  ASSUME Shape, Orders
  PROVE  /\ Shape' /\ Known' = Known /\ Issued \subseteq Issued'
         /\ \A w \in Added : w \in Issued' /\ w \notin Issued \cup {None} /\ w \in Nat /\ w <= MaxWorkspaces
<1>1. minted.workspaces \in 0..MaxWorkspaces /\ minted.runtimes \in 0..MaxRuntimes
  BY DEF Shape
<1>2. /\ minted'.workspaces \in minted.workspaces..MaxWorkspaces /\ minted'.runtimes = minted.runtimes
      /\ minted' \in [workspaces : 0..MaxWorkspaces, runtimes : 0..MaxRuntimes, terminals : Nat]
  BY <1>1, Numbers DEF Orders
<1>3. IsSeq(events')
  BY ShortSeqs DEF Orders, Shape
<1>4. \A w \in DOMAIN saved'.workspaces : IsWorkspace(saved'.workspaces[w])
  <2>1. CASE Wrote
    BY <2>1 DEF Wrote
  <2>2. CASE saved' = saved
    BY <2>2 DEF Shape
  <2> QED BY <2>1, <2>2 DEF Orders
<1>5. Shape'
  BY <1>2, <1>3, <1>4 DEF Shape, Orders, IsWorkspace
<1>6. Known' = Known
  BY <1>2 DEF Known
<1>7. Issued' = 1..minted'.workspaces \cup {Recovered(r) : r \in Known}
  BY <1>6 DEF Issued, Recovered
<1>8. Issued \subseteq Issued'
  BY <1>1, <1>2, <1>7, Numbers DEF Issued
<1>9. ASSUME NEW w \in Added
      PROVE  w \in Issued' /\ w \notin Issued \cup {None} /\ w \in Nat /\ w <= MaxWorkspaces
  <2>1. w \in Nat /\ w > minted.workspaces /\ w <= minted'.workspaces /\ w <= MaxWorkspaces
    BY <1>1, <1>2, Numbers DEF Added
  <2>2. w \in 1..minted'.workspaces
    BY <1>1, <1>2, <2>1, Numbers
  <2>3. w \notin 1..minted.workspaces /\ w # None
    BY <1>1, <2>1 DEF None
  <2>4. ASSUME NEW r \in Known PROVE w # Recovered(r)
    <3>1. r \in Runtimes
      BY KnownNumbers
    <3>2. Recovered(r) \in Nat /\ Recovered(r) > MaxWorkspaces /\ MaxWorkspaces \in Nat
      BY <3>1, Numbers
    <3> QED BY <2>1, <3>2
  <2> QED BY <1>7, <2>1, <2>2, <2>3, <2>4 DEF Issued
<1> QED BY <1>5, <1>6, <1>8, <1>9

\* What the user orders names workspaces and runtimes there are.
LEMMA OrdersKeepsNumbers ==
  ASSUME Shape, Off, Numbered, InFlight, Orders
  PROVE  Off' /\ Numbered' /\ InFlight'
<1>1. Known' = Known /\ Issued \subseteq Issued'
  BY OrdersNumbers
<1>2. Off'
  BY DEF Off, Orders
<1>3. ASSUME NEW w \in DOMAIN workspaces'
      PROVE  /\ w \in Issued' /\ workspaces'[w].runtime \in Known \cup {None}
             /\ Own(w, workspaces'[w].runtime)
  <2>1. CASE w \in DOMAIN workspaces /\ workspaces'[w].runtime = workspaces[w].runtime
    BY <1>1, <2>1 DEF Numbered
  <2>2. CASE w \in Added /\ workspaces'[w].runtime \in offer \cup {None}
    <3>1. w \in Issued' /\ ~(w > MaxWorkspaces)
      BY <2>2, OrdersNumbers, Numbers
    <3> QED BY <2>2, <3>1 DEF Numbered, Own
  <2> QED BY <2>1, <2>2 DEF Orders
<1>4. ASSUME NEW w \in DOMAIN saved'.workspaces
      PROVE  /\ w \in Issued' /\ saved'.workspaces[w].runtime \in Known \cup {None}
             /\ Own(w, saved'.workspaces[w].runtime)
  <2>1. CASE Wrote
    BY <1>3, <2>1 DEF Wrote
  <2>2. CASE saved' = saved
    BY <1>1, <2>2 DEF Numbered
  <2> QED BY <2>1, <2>2 DEF Orders
<1>5. Bound(workspaces) \subseteq Known /\ dismissed' \subseteq Known
  BY DEF Numbered, Bound, Orders
<1>6. saved'.dismissed \subseteq Known
  BY <1>5 DEF Wrote, Orders, Numbered
<1>7. Numbered'
  BY <1>1, <1>3, <1>4, <1>5, <1>6 DEF Numbered, Orders, Own
<1>8. ASSUME NEW c \in Queued' PROVE IsCommand(c)'
  <2>1. CASE c \in Queued
    BY <1>1, <2>1 DEF InFlight, IsCommand, Own
  <2>2. CASE Given(c)
    BY <1>1, <1>3, <2>2 DEF Given, IsCommand, Own
  <2> QED BY <2>1, <2>2 DEF Orders
<1>9. Sent' \subseteq Sent
  BY ShortSeqs DEF Orders, Sent
<1>10. \A e \in Sent' : IsEvent(e)'
  BY <1>1, <1>9 DEF InFlight, IsEvent, Own
<1>11. ASSUME NEW i \in DOMAIN actors', NEW w \in DOMAIN actors'[i].tracked
       PROVE  w \in Issued' \cup {None} /\ actors'[i].tracked[w] \in Known' /\ Own(w, actors'[i].tracked[w])
  <2>1. PICK r : r = actors'[i].tracked[w]
    OBVIOUS
  <2>2. Tracked(w, r)'
    BY <2>1 DEF Tracked
  <2>3. Tracked(w, r)
    BY <2>2 DEF Orders
  <2> QED BY <1>1, <2>1, <2>3 DEF InFlight, Tracked
<1> QED BY <1>2, <1>7, <1>8, <1>10, <1>11 DEF InFlight, Own

\* A runtime is terminated together with its workspace, and dismissed (close_session, window/mod.rs:1182).
LEMMA OrdersKeepsTerminated ==
  ASSUME Shape, Numbered, InFlight, Terminated, Orders
  PROVE  Terminated'
<1> SUFFICES ASSUME NEW r \in Runtimes, Ending(Recovered(r))'
             PROVE  Recovered(r) \notin DOMAIN workspaces' /\ (r \in dismissed' \/ Gone(r)')
  BY DEF Terminated, Recovered
<1>1. Sent' \subseteq Sent
  BY ShortSeqs DEF Orders, Sent
<1>2. Gone(r) => Gone(r)'
  BY <1>1 DEF Gone, Stocked, Orders
<1>3. Recovered(r) \notin Added
  BY OrdersNumbers, Numbers
<1>4. CASE Ending(Recovered(r))
  BY <1>2, <1>3, <1>4 DEF Terminated, Orders
<1>5. ASSUME NEW c \in Queued', c.kind = "terminate", c.ws = Recovered(r), Given(c)
      PROVE  Recovered(r) \notin DOMAIN workspaces' /\ (r \in dismissed' \/ Gone(r)')
  <2>1. /\ Recovered(r) \in DOMAIN workspaces \ DOMAIN workspaces'
        /\ workspaces[Recovered(r)].runtime \in dismissed'
    BY <1>5 DEF Given
  <2>2. workspaces[Recovered(r)].runtime = r
    BY <2>1, Numbers DEF Numbered, Own
  <2> QED BY <2>1, <2>2
<1> QED BY <1>1, <1>4, <1>5 DEF Ending, Orders

\* The user brings the client to hear of no runtime it had not heard of.
LEMMA OrdersKeepsStocks ==
  ASSUME Shape, StocksAgree, Orders
  PROVE  StocksAgree'
<1>1. CASE events' = <<>>
  <2>1. DOMAIN events' = {}
    BY <1>1
  <2> QED BY <2>1 DEF StocksAgree
<1>2. CASE events' = events
  <2>1. ASSUME NEW r \in Runtimes, Heard(r)' PROVE Heard(r)
    <3>1. ASSUME r \in Bound(workspaces)' PROVE Heard(r)
      <4>1. PICK w \in DOMAIN workspaces' : workspaces'[w].runtime = r /\ r # None
        BY <3>1 DEF Bound
      <4> QED BY <4>1 DEF Orders, Heard, Bound
    <3> QED BY <2>1, <3>1 DEF Heard, Orders
  <2>2. ASSUME NEW n, NEW r \in Runtimes, HeardBy(n, r)' PROVE HeardBy(n, r)
    BY <1>2, <2>1, <2>2 DEF HeardBy, Mentions
  <2>3. runtimes' = runtimes /\ Runtimes' = Runtimes
    BY DEF Orders, Runtimes
  <2> QED BY <1>2, <2>2, <2>3 DEF StocksAgree
<1> QED BY <1>1, <1>2 DEF Orders

\* What the user closes is dismissed at once, and no workspace that stays awaits it, or it is forgiven.
LEMMA OrdersKeepsKept ==
  ASSUME Shape, Numbered, InFlight, Kept, Orders
  PROVE  Kept'
<1> SUFFICES ASSUME NEW r \in Remembered'
             PROVE  /\ r \notin Bound(workspaces)'
                    /\ \A w \in DOMAIN workspaces' : ~Awaited(w, r)'
                    /\ r \in dismissed' \/ Gone(r)'
                    /\ r \notin unsaved' => /\ r \notin Bound(saved.workspaces)'
                                            /\ r \in saved'.dismissed \/ Gone(r)'
  BY DEF Kept
<1>1. Sent' \subseteq Sent
  BY ShortSeqs DEF Orders, Sent
<1>2. Gone(r) => Gone(r)'
  BY <1>1 DEF Gone, Stocked, Orders
<1>3. r # None
  <2>1. r \in Known
    BY DEF Remembered, Orders
  <2> QED BY <2>1, KnownNumbers
<1>4. ASSUME r \notin Bound(workspaces)', NEW w \in DOMAIN workspaces', ~Awaited(w, r)
      PROVE  ~Awaited(w, r)'
  <2>1. \A e \in Sent' : e.kind \in Answers /\ e.ws = w => e.runtime # r
    BY <1>1, <1>4, AwaitedMeans
  <2>2. ASSUME NEW c \in Queued', c.kind \in Binding, c.ws = w PROVE c.runtime # r
    <3>1. CASE c \in Queued
      BY <1>4, <2>2, <3>1, AwaitedMeans
    <3>2. CASE Given(c)
      BY <1>3, <1>4, <2>2, <3>2 DEF Given, Bound
    <3> QED BY <3>1, <3>2 DEF Orders
  <2>3. ~Tracked(w, r)'
    BY <1>4, AwaitedMeans DEF Orders
  <2> QED BY <2>1, <2>2, <2>3, AwaitedMeansNext
<1>5. Wrote /\ r \notin Bound(workspaces)' => r \notin Bound(saved.workspaces)'
  BY DEF Wrote, Bound
<1>6. CASE LetGo(r)
  BY <1>4, <1>5, <1>6 DEF LetGo, Wrote
<1>7. CASE r \in Remembered /\ \A w \in DOMAIN workspaces' \cap Added : workspaces'[w].runtime # r
  <2>1. r \notin Bound(workspaces)'
    <3> SUFFICES ASSUME NEW w \in DOMAIN workspaces', workspaces'[w].runtime = r PROVE FALSE
      BY DEF Bound
    <3>1. CASE w \in DOMAIN workspaces /\ workspaces'[w].runtime = workspaces[w].runtime
      <4>1. r \in Bound(workspaces)
        BY <1>3, <3>1 DEF Bound
      <4> QED BY <1>7, <4>1 DEF Kept
    <3>2. CASE w \in Added
      BY <1>7, <3>2
    <3> QED BY <3>1, <3>2 DEF Orders
  <2>2. ASSUME NEW w \in DOMAIN workspaces' PROVE ~Awaited(w, r)
    <3>1. CASE w \in DOMAIN workspaces
      BY <1>7, <3>1 DEF Kept
    <3>2. CASE w \in Added
      BY <3>2, OrdersNumbers, AwaitedIsOwn
    <3> QED BY <3>1, <3>2 DEF Orders
  <2>3. r \in dismissed' \/ Gone(r)'
    BY <1>2, <1>7 DEF Kept, Orders
  <2>4. ASSUME r \notin unsaved'
        PROVE  r \notin Bound(saved.workspaces)' /\ (r \in saved'.dismissed \/ Gone(r)')
    <3>1. CASE Wrote
      BY <1>5, <2>1, <2>3, <3>1 DEF Wrote
    <3>2. CASE saved' = saved /\ unsaved \subseteq unsaved'
      BY <1>2, <1>7, <2>4, <3>2 DEF Kept, Bound
    <3> QED BY <3>1, <3>2 DEF Orders
  <2> QED BY <1>4, <2>1, <2>2, <2>3, <2>4
<1> QED BY <1>6, <1>7 DEF Orders

\* So the invariant survives a step of the user.
LEMMA OrdersKeepsInv ==
  ASSUME WindowInv, Orders
  PROVE  WindowInv'
BY OrdersNumbers, OrdersKeepsNumbers, OrdersKeepsTerminated, OrdersKeepsStocks, OrdersKeepsKept
   DEF WindowInv

-----------------------------------------------------------------------------
(* The poller takes in what is told.                                        *)

Found(e, r) == e.kind = "inventory" /\ r \in DOMAIN e.stock /\ r \notin dismissed /\ r \notin Bound(workspaces)
Binds(e, w) ==
  \/ w \in DOMAIN workspaces /\ workspaces'[w].runtime = workspaces[w].runtime
  \/ w \in DOMAIN workspaces /\ w = e.ws /\ e.kind \in Answers /\ workspaces'[w].runtime = e.runtime
  \/ w \in DOMAIN workspaces /\ w = e.ws /\ e.kind = "terminated" /\ workspaces'[w].runtime = None
  \/ \E r \in DOMAIN e.stock : Found(e, r) /\ w = Recovered(r) /\ workspaces'[w].runtime = r

\* A step of the poller: an answer or an end binds the workspace it names, an inventory recovers what is
\* neither shown nor dismissed, and drops from what is dismissed what it does not list.
Reads ==
  /\ life = "up" /\ life' = life
  /\ events # <<>> /\ events' = Tail(events)
  /\ UNCHANGED <<runtimes, crashed, closed, forgiven, owner>>
  /\ Actors'
  /\ minted' \in [workspaces : {minted.workspaces}, runtimes : {minted.runtimes}, terminals : Nat]
  /\ \A w \in DOMAIN workspaces' : IsWorkspace(workspaces'[w]) /\ Binds(Head(events), w)
  /\ dismissed' \subseteq dismissed
  /\ \A r \in dismissed \ dismissed' : Head(events).kind = "inventory" /\ r \notin DOMAIN Head(events).stock
  /\ \A r \in offer' \ offer : Head(events).kind = "inventory" /\ r \in DOMAIN Head(events).stock
  /\ \A c \in Queued' : c \in Queued \/ /\ c.kind = "open" /\ c.ws \in DOMAIN workspaces'
                                        /\ c.runtime = workspaces'[c.ws].runtime
  /\ \A w, r : Tracked(w, r)' => Tracked(w, r)
  /\ Wrote \/ UNCHANGED <<saved, unsaved>>

\* The poller gives no number to a workspace or a runtime, and takes the head of the channel.
LEMMA ReadsNumbers ==
  ASSUME Shape, Reads
  PROVE  /\ Shape' /\ Known' = Known /\ Issued' = Issued
         /\ Head(events) = events[1] /\ Head(events) \in Sent /\ Sent' \subseteq Sent
         /\ Len(events) \in Nat /\ DOMAIN events = 1..Len(events) /\ 1 \in DOMAIN events
         /\ DOMAIN events' = 1..(Len(events) - 1)
         /\ \A n \in DOMAIN events' : n + 1 \in DOMAIN events /\ events'[n] = events[n + 1]
         /\ \A e \in Sent' : \E n \in DOMAIN events' : e = events'[n]
<1>1. IsSeq(events) /\ events # <<>> /\ events' = Tail(events)
  BY DEF Shape, Reads
<1>2. /\ IsSeq(events') /\ Len(events') = Len(events) - 1
      /\ \A n \in 1..(Len(events) - 1) : events'[n] = events[n + 1]
      /\ Head(events) = events[1] /\ Head(events) \in Sent /\ Sent' \subseteq Sent
  BY <1>1, TailIsSeq DEF Sent
<1>3. Len(events) \in Nat /\ Len(events) > 0 /\ DOMAIN events = 1..Len(events)
  BY <1>1, SeqFacts
<1>4. DOMAIN events' = 1..(Len(events) - 1) /\ \A e \in Sent' : \E n \in DOMAIN events' : e = events'[n]
  BY <1>2, SeqFacts DEF Sent
<1>5. minted.workspaces \in 0..MaxWorkspaces /\ minted.runtimes \in 0..MaxRuntimes
  BY DEF Shape
<1>6. /\ minted'.workspaces = minted.workspaces /\ minted'.runtimes = minted.runtimes
      /\ minted' \in [workspaces : 0..MaxWorkspaces, runtimes : 0..MaxRuntimes, terminals : Nat]
  BY <1>5 DEF Reads
<1>7. \A w \in DOMAIN saved'.workspaces : IsWorkspace(saved'.workspaces[w])
  <2>1. CASE Wrote
    BY <2>1 DEF Wrote
  <2>2. CASE saved' = saved
    BY <2>2 DEF Shape
  <2> QED BY <2>1, <2>2 DEF Reads
<1>8. Shape'
  BY <1>2, <1>6, <1>7 DEF Shape, Reads, IsWorkspace
<1>9. Known' = Known
  BY <1>6 DEF Known
<1>10. Issued' = Issued
  BY <1>6, <1>9 DEF Issued, Recovered
<1> QED BY <1>2, <1>3, <1>4, <1>8, <1>9, <1>10

\* A workspace is put in the runtime its answer names, a recovered one in its own.
LEMMA ReadsKeepsNumbers ==
  ASSUME Shape, Off, Numbered, InFlight, Terminated, Reads
  PROVE  Off' /\ Numbered' /\ InFlight'
<1> DEFINE e == Head(events)
<1>1. Known' = Known /\ Issued' = Issued
  BY ReadsNumbers
<1>2. Off'
  BY DEF Off, Reads
<1>3. IsEvent(e) /\ e \in Sent
  BY ReadsNumbers DEF InFlight
<1>4. ASSUME NEW w \in DOMAIN workspaces'
      PROVE  /\ w \in Issued' /\ workspaces'[w].runtime \in Known \cup {None}
             /\ Own(w, workspaces'[w].runtime)
  <2>0. Binds(e, w)
    BY DEF Reads
  <2>1. CASE w \in DOMAIN workspaces /\ workspaces'[w].runtime = workspaces[w].runtime
    BY <1>1, <2>1 DEF Numbered
  <2>2. CASE w \in DOMAIN workspaces /\ w = e.ws /\ e.kind \in Answers /\ workspaces'[w].runtime = e.runtime
    BY <1>1, <1>3, <2>2 DEF Numbered, IsEvent
  <2>3. CASE w \in DOMAIN workspaces /\ w = e.ws /\ e.kind = "terminated" /\ workspaces'[w].runtime = None
    <3>1. Ending(w) /\ w \in Issued
      BY <1>3, <2>3 DEF Ending, Numbered
    <3>2. ~(w > MaxWorkspaces)
      <4> SUFFICES ASSUME w > MaxWorkspaces PROVE FALSE
        OBVIOUS
      <4>1. PICK r \in Known : w = Recovered(r)
        BY <3>1, KnownNumbers
      <4>2. r \in Runtimes
        BY KnownNumbers
      <4> QED BY <2>3, <3>1, <4>1, <4>2 DEF Terminated
    <3> QED BY <1>1, <2>3, <3>1, <3>2 DEF Own
  <2>4. ASSUME NEW r \in DOMAIN e.stock, Found(e, r), w = Recovered(r), workspaces'[w].runtime = r
        PROVE  w \in Issued' /\ r \in Known \cup {None} /\ Own(w, r)
    <3>1. r \in Known /\ r \in Runtimes
      BY <1>3, <2>4, KnownNumbers DEF IsEvent
    <3> QED BY <1>1, <2>4, <3>1, Numbers DEF Issued, Own
  <2> HIDE DEF e
  <2> QED BY <2>0, <2>1, <2>2, <2>3, <2>4 DEF Binds
<1>5. ASSUME NEW w \in DOMAIN saved'.workspaces
      PROVE  /\ w \in Issued' /\ saved'.workspaces[w].runtime \in Known \cup {None}
             /\ Own(w, saved'.workspaces[w].runtime)
  <2>1. CASE Wrote
    BY <1>4, <2>1 DEF Wrote
  <2>2. CASE saved' = saved
    BY <1>1, <2>2 DEF Numbered
  <2> QED BY <2>1, <2>2 DEF Reads
<1>6. dismissed' \subseteq Known /\ saved'.dismissed \subseteq Known
  BY DEF Numbered, Reads, Wrote
<1>7. offer' \subseteq Known
  BY <1>3 DEF Numbered, Reads, IsEvent
<1>8. Numbered'
  BY <1>1, <1>4, <1>5, <1>6, <1>7 DEF Numbered, Reads, Own
<1>9. ASSUME NEW c \in Queued' PROVE IsCommand(c)'
  <2>1. CASE c \in Queued
    BY <1>1, <2>1 DEF InFlight, IsCommand, Own
  <2>2. CASE c.ws \in DOMAIN workspaces' /\ c.runtime = workspaces'[c.ws].runtime
    BY <1>1, <1>4, <2>2 DEF IsCommand, Own
  <2> QED BY <2>1, <2>2 DEF Reads
<1>10. \A x \in Sent' : IsEvent(x)'
  BY <1>1, ReadsNumbers DEF InFlight, IsEvent, Own
<1>11. ASSUME NEW i \in DOMAIN actors', NEW w \in DOMAIN actors'[i].tracked
       PROVE  w \in Issued' \cup {None} /\ actors'[i].tracked[w] \in Known' /\ Own(w, actors'[i].tracked[w])
  <2>1. PICK r : r = actors'[i].tracked[w]
    OBVIOUS
  <2>2. Tracked(w, r)'
    BY <2>1 DEF Tracked
  <2>3. Tracked(w, r)
    BY <2>2 DEF Reads
  <2> QED BY <1>1, <2>1, <2>3 DEF InFlight, Tracked
<1> QED BY <1>2, <1>8, <1>9, <1>10, <1>11 DEF InFlight, Own

\* What is dismissed stays so, or no inventory that is still to come lists it.
LEMMA ReadsKeepsHidden ==
  ASSUME Shape, Numbered, StocksAgree, Reads, NEW r, r \in dismissed \/ Gone(r)
  PROVE  r \in dismissed' \/ Gone(r)'
<1>1. CASE Gone(r)
  <2>1. r \notin DOMAIN runtimes'
    BY <1>1 DEF Gone, Reads
  <2>2. ~Stocked(r)'
    BY <1>1, ReadsNumbers DEF Gone, Stocked
  <2> QED BY <2>1, <2>2 DEF Gone
<1>2. CASE r \in dismissed /\ r \notin dismissed'
  <2>1. /\ 1 \in DOMAIN events /\ events[1].kind = "inventory" /\ r \notin DOMAIN events[1].stock
    BY <1>2, ReadsNumbers DEF Reads
  <2>2. r \in Runtimes /\ HeardBy(1, r)
    BY <1>2, KnownNumbers DEF Numbered, HeardBy, Heard
  <2>3. /\ r \notin DOMAIN runtimes
        /\ \A m \in DOMAIN events : m > 1 /\ events[m].kind = "inventory" => r \notin DOMAIN events[m].stock
    BY <2>1, <2>2 DEF StocksAgree
  <2>4. ASSUME NEW x \in Sent', x.kind = "inventory" PROVE r \notin DOMAIN x.stock
    <3>1. PICK n \in DOMAIN events' : x = events'[n]
      BY ReadsNumbers
    <3>2. n + 1 \in DOMAIN events /\ x = events[n + 1] /\ n + 1 > 1
      BY <3>1, ReadsNumbers
    <3> QED BY <2>3, <2>4, <3>2
  <2> QED BY <2>3, <2>4 DEF Gone, Stocked, Reads
<1> QED BY <1>1, <1>2

\* A workspace that is ending is not recovered meanwhile: its runtime is dismissed, or no inventory has it.
LEMMA ReadsKeepsTerminated ==
  ASSUME Shape, Numbered, InFlight, StocksAgree, Terminated, Reads
  PROVE  Terminated'
<1> SUFFICES ASSUME NEW r \in Runtimes, Ending(Recovered(r))'
             PROVE  Recovered(r) \notin DOMAIN workspaces' /\ (r \in dismissed' \/ Gone(r)')
  BY DEF Terminated, Recovered
<1>1. Ending(Recovered(r))
  BY ReadsNumbers DEF Ending, Reads, Recovered
<1>2. Recovered(r) \notin DOMAIN workspaces /\ (r \in dismissed \/ Gone(r))
  BY <1>1 DEF Terminated
<1>3. ASSUME NEW q, Found(Head(events), q), Recovered(r) = Recovered(q) PROVE FALSE
  <2>1. Head(events) \in Sent
    BY ReadsNumbers
  <2>2. q \in Known /\ q \in Runtimes
    BY <1>3, <2>1, KnownNumbers DEF InFlight, IsEvent, Found
  <2>3. r = q
    BY <1>3, <2>2, Numbers
  <2> QED BY <1>2, <1>3, <2>1, <2>3 DEF Found, Gone, Stocked
<1>4. Recovered(r) \notin DOMAIN workspaces'
  BY <1>2, <1>3 DEF Reads, Binds
<1> QED BY <1>2, <1>4, ReadsKeepsHidden

\* What an inventory brings the client to hear of, or lets it drop, agrees with the later ones.
LEMMA ReadsKeepsStocks ==
  ASSUME Shape, StocksAgree, Reads
  PROVE  StocksAgree'
<1>1. ASSUME NEW r \in Runtimes, Heard(r)' PROVE Heard(r) \/ Mentions(events[1], r)
  <2>1. ASSUME r \in Bound(workspaces)' PROVE Heard(r) \/ Mentions(events[1], r)
    <3>1. PICK w \in DOMAIN workspaces' : workspaces'[w].runtime = r /\ r # None
      BY <2>1 DEF Bound
    <3>2. Binds(events[1], w)
      BY ReadsNumbers DEF Reads
    <3> QED BY <3>1, <3>2 DEF Binds, Found, Heard, Bound, Mentions
  <2>2. ASSUME r \in dismissed' \cup offer' PROVE Heard(r) \/ Mentions(events[1], r)
    BY <2>2, ReadsNumbers DEF Reads, Heard, Mentions
  <2> QED BY <1>1, <2>1, <2>2 DEF Heard
<1>2. ASSUME NEW n \in DOMAIN events', NEW r \in Runtimes, HeardBy(n, r)' PROVE HeardBy(n + 1, r)
  <2>1. n \in Nat /\ n >= 1 /\ 1 \in DOMAIN events
    BY ReadsNumbers
  <2>2. CASE Heard(r)'
    BY <1>1, <2>1, <2>2 DEF HeardBy
  <2>3. ASSUME NEW m \in DOMAIN events', m < n, Mentions(events'[m], r) PROVE HeardBy(n + 1, r)
    <3>1. m + 1 \in DOMAIN events /\ m + 1 < n + 1 /\ events'[m] = events[m + 1]
      BY <2>1, <2>3, ReadsNumbers
    <3> QED BY <2>3, <3>1 DEF HeardBy
  <2> QED BY <1>2, <2>2, <2>3 DEF HeardBy, Mentions
<1> SUFFICES ASSUME NEW n \in DOMAIN events', events'[n].kind = "inventory",
                    NEW r \in Runtimes, r \notin DOMAIN events'[n].stock, HeardBy(n, r)'
             PROVE  /\ r \notin DOMAIN runtimes'
                    /\ \A m \in DOMAIN events' :
                         m > n /\ events'[m].kind = "inventory" => r \notin DOMAIN events'[m].stock
  BY DEF StocksAgree, Runtimes
<1>3. n + 1 \in DOMAIN events /\ events'[n] = events[n + 1] /\ HeardBy(n + 1, r) /\ n \in Nat
  BY <1>2, ReadsNumbers
<1>4. /\ r \notin DOMAIN runtimes
      /\ \A m \in DOMAIN events : m > n + 1 /\ events[m].kind = "inventory" => r \notin DOMAIN events[m].stock
  BY <1>3 DEF StocksAgree
<1>5. ASSUME NEW m \in DOMAIN events', m > n, events'[m].kind = "inventory"
      PROVE  r \notin DOMAIN events'[m].stock
  <2>1. m + 1 \in DOMAIN events /\ m + 1 > n + 1 /\ events'[m] = events[m + 1]
    BY <1>3, <1>5, ReadsNumbers
  <2> QED BY <1>4, <1>5, <2>1
<1> QED BY <1>4, <1>5 DEF Reads

\* An answer, an inventory or what is dropped from dismissed_runtime_ids brings back no closed runtime
\* (workspace_state.rs:322, 346).
LEMMA ReadsKeepsKept ==
  ASSUME Shape, Numbered, InFlight, StocksAgree, Kept, Reads
  PROVE  Kept'
<1> SUFFICES ASSUME NEW r \in Remembered'
             PROVE  /\ r \notin Bound(workspaces)'
                    /\ \A w \in DOMAIN workspaces' : ~Awaited(w, r)'
                    /\ r \in dismissed' \/ Gone(r)'
                    /\ r \notin unsaved' => /\ r \notin Bound(saved.workspaces)'
                                            /\ r \in saved'.dismissed \/ Gone(r)'
  BY DEF Kept
<1> DEFINE e == Head(events)
<1>1. r \in Remembered /\ r \in Known /\ r # None
  BY KnownNumbers DEF Remembered, Reads, Numbered
<1>2. e \in Sent /\ IsEvent(e)
  BY ReadsNumbers DEF InFlight
<1>3. ~Found(e, r)
  BY <1>1, <1>2 DEF Kept, Found, Gone, Stocked
<1>4. ASSUME NEW w \in DOMAIN workspaces'
      PROVE  workspaces'[w].runtime # r /\ ~Awaited(w, r)
  <2>0. Binds(e, w)
    BY DEF Reads
  <2>1. ASSUME w \in DOMAIN workspaces PROVE workspaces[w].runtime # r /\ ~Awaited(w, r)
    BY <1>1, <2>1 DEF Kept, Bound
  <2>2. CASE w \in DOMAIN workspaces /\ workspaces'[w].runtime = workspaces[w].runtime
    BY <2>1, <2>2
  <2>3. CASE w \in DOMAIN workspaces /\ w = e.ws /\ e.kind \in Answers /\ workspaces'[w].runtime = e.runtime
    BY <1>2, <2>1, <2>3, AwaitedMeans
  <2>4. CASE w \in DOMAIN workspaces /\ workspaces'[w].runtime = None
    BY <1>1, <2>1, <2>4
  <2>5. ASSUME NEW q \in DOMAIN e.stock, Found(e, q), w = Recovered(q), workspaces'[w].runtime = q
        PROVE  workspaces'[w].runtime # r /\ ~Awaited(w, r)
    <3>1. q # r /\ q \in Runtimes
      BY <1>2, <1>3, <2>5, KnownNumbers DEF IsEvent
    <3>2. ~Own(w, r)
      BY <2>5, <3>1, Numbers DEF Own
    <3> QED BY <2>5, <3>1, <3>2, AwaitedIsOwn
  <2> HIDE DEF e
  <2> QED BY <2>0, <2>2, <2>3, <2>4, <2>5 DEF Binds
<1>5. r \notin Bound(workspaces)'
  BY <1>4 DEF Bound
<1>6. ASSUME NEW w \in DOMAIN workspaces' PROVE ~Awaited(w, r)'
  <2>1. \A x \in Sent' : x.kind \in Answers /\ x.ws = w => x.runtime # r
    BY <1>4, ReadsNumbers, AwaitedMeans
  <2>2. \A c \in Queued' : c.kind \in Binding /\ c.ws = w => c.runtime # r
    BY <1>4, AwaitedMeans DEF Reads
  <2>3. ~Tracked(w, r)'
    BY <1>4, AwaitedMeans DEF Reads
  <2> QED BY <2>1, <2>2, <2>3, AwaitedMeansNext
<1>7. r \in dismissed' \/ Gone(r)'
  BY <1>1, ReadsKeepsHidden DEF Kept
<1>8. ASSUME r \notin unsaved'
      PROVE  r \notin Bound(saved.workspaces)' /\ (r \in saved'.dismissed \/ Gone(r)')
  <2>1. CASE Wrote
    BY <1>5, <1>7, <2>1 DEF Wrote, Bound
  <2>2. CASE saved' = saved /\ unsaved' = unsaved
    <3>1. Gone(r) => Gone(r)'
      BY ReadsNumbers DEF Gone, Stocked, Reads
    <3> QED BY <1>1, <1>8, <2>2, <3>1 DEF Kept, Bound
  <2> QED BY <2>1, <2>2 DEF Reads
<1> QED BY <1>5, <1>6, <1>7, <1>8

\* So the invariant survives a step of the poller.
LEMMA ReadsKeepsInv ==
  ASSUME WindowInv, Reads
  PROVE  WindowInv'
BY ReadsNumbers, ReadsKeepsNumbers, ReadsKeepsTerminated, ReadsKeepsStocks, ReadsKeepsKept
   DEF WindowInv

-----------------------------------------------------------------------------
(* The client ends and starts.                                              *)

\* Workspaces are opened in the order of their numbers.
LEMMA OpensIsSeq ==
  ASSUME Shape, NEW ws, NEW ids \in SUBSET (Issued \cup {None})
  PROVE  /\ IsSeq(Opens(ws, ids))
         /\ \A c \in ToSet(Opens(ws, ids)) :
              c.kind = "open" /\ c.ws \in ids /\ c.runtime = ws[c.ws].runtime /\ c = Open(ws, c.ws)
<1> DEFINE order == Ordered(ids)
           list == Opens(ws, ids)
           bound == MaxWorkspaces + MaxRuntimes
<1>1. bound \in Nat /\ ids \in SUBSET Nat /\ \A w \in ids : w <= bound
  BY Numbers, KnownNumbers
<1> HIDE DEF bound
<1>2. /\ DOMAIN order = 1..Len(order) /\ Len(order) \in Nat /\ \A n \in DOMAIN order : order[n] \in ids
  BY <1>1, OrderedIsSeq
<1>3. list = [n \in 1..Len(order) |-> list[n]] /\ \A n \in DOMAIN list : list[n] = Open(ws, order[n])
  BY <1>2 DEF Opens
<1> HIDE DEF order
<1>4. \A w : LET c == Open(ws, w) IN c.kind = "open" /\ c.ws = w /\ c.runtime = ws[w].runtime
  BY DEF Open, Command
<1> HIDE DEF list
<1>5. IsSeq(list) /\ DOMAIN list = 1..Len(order)
  BY <1>2, <1>3, ListIsSeq
<1>6. ASSUME NEW c \in ToSet(list)
      PROVE  c.kind = "open" /\ c.ws \in ids /\ c.runtime = ws[c.ws].runtime /\ c = Open(ws, c.ws)
  <2>1. PICK n \in DOMAIN list : list[n] = c
    BY DEF ToSet
  <2> QED BY <1>2, <1>3, <1>4, <1>5, <2>1
<1> QED BY <1>5, <1>6 DEF list

\* An actor that starts has nothing to do and tracks nothing (reset_endpoint, daemon_bridge.rs:298).
LEMMA FreshIsIdle ==
  ASSUME actors = <<Fresh>>
  PROVE  Actors /\ Queued = {} /\ \A w, r : ~Tracked(w, r)
<1>1. /\ DOMAIN actors = {1} /\ actors[1] = Fresh /\ IsSeq(actors) /\ actors # <<>>
  BY ShortSeqs
<1>2. Fresh.queue = <<>> /\ Fresh.tracked = <<>> /\ DOMAIN Fresh = {"queue", "tracked", "link"}
  BY DEF Fresh
<1>3. ToSet(<<>>) = {} /\ IsSeq(<<>>) /\ DOMAIN <<>> = {}
  BY ShortSeqs
<1> QED BY <1>1, <1>2, <1>3 DEF Actors, IsActor, Queued, Tracked

\* The same after a step.
LEMMA FreshIsIdleNext ==
  ASSUME actors' = <<Fresh>>
  PROVE  Actors' /\ Queued' = {} /\ \A w, r : ~Tracked(w, r)'
<1>1. /\ DOMAIN actors' = {1} /\ actors'[1] = Fresh /\ IsSeq(actors') /\ actors' # <<>>
  BY ShortSeqs
<1>2. Fresh.queue = <<>> /\ Fresh.tracked = <<>> /\ DOMAIN Fresh = {"queue", "tracked", "link"}
  BY DEF Fresh
<1>3. ToSet(<<>>) = {} /\ IsSeq(<<>>) /\ DOMAIN <<>> = {}
  BY ShortSeqs
<1> QED BY <1>1, <1>2, <1>3 DEF Actors, IsActor, Queued, Tracked

\* The process ends: what it did not save is forgotten, and forgiven.
LEMMA ExitKeepsInv ==
  ASSUME WindowInv, Exit
  PROVE  WindowInv'
<1>1. /\ Actors' /\ Queued' = {} /\ \A w, r : ~Tracked(w, r)'
      /\ events' = <<>> /\ DOMAIN events' = {} /\ Sent' = {} /\ IsSeq(events')
  BY FreshIsIdleNext, ShortSeqs DEF Exit, Sent
<1>2. DOMAIN workspaces' = {} /\ Bound(workspaces)' = {}
  BY DEF Exit, Bound
<1>3. /\ UNCHANGED <<forgiven, dismissed, saved, runtimes, minted, owner, closed>>
      /\ offer' = {} /\ unsaved' = {} /\ crashed' = crashed \cup unsaved
  BY DEF Exit, daemon
<1>4. Known' = Known /\ Issued' = Issued
  BY <1>3 DEF Known, Issued, Recovered
<1>5. Shape'
  BY <1>1, <1>2, <1>3 DEF WindowInv, Shape, IsWorkspace
<1>6. Off'
  BY <1>1 DEF Off, Exit, Fresh
<1>7. Numbered'
  BY <1>2, <1>3, <1>4 DEF WindowInv, Numbered, Own
<1>8. InFlight'
  <2>1. \A i \in DOMAIN actors' : \A w \in DOMAIN actors'[i].tracked : FALSE
    BY <1>1 DEF Tracked
  <2> QED BY <1>1, <2>1 DEF InFlight
<1>9. Terminated'
  BY <1>1 DEF Terminated, Ending
<1>10. StocksAgree'
  BY <1>1 DEF StocksAgree
<1>11. Kept'
  <2> SUFFICES ASSUME NEW r \in Remembered'
               PROVE  /\ r \in dismissed' \/ Gone(r)'
                      /\ r \notin Bound(saved.workspaces)' /\ (r \in saved'.dismissed \/ Gone(r)')
    BY <1>2 DEF Kept
  <2>1. r \in Remembered /\ r \notin unsaved
    BY <1>3 DEF Remembered
  <2>2. Gone(r) => Gone(r)'
    BY <1>1, <1>3 DEF Gone, Stocked
  <2> QED BY <1>3, <2>1, <2>2 DEF WindowInv, Kept, Bound
<1> QED BY <1>5, <1>6, <1>7, <1>8, <1>9, <1>10, <1>11 DEF WindowInv

\* What is loaded has the workspaces that were saved; without any, what was dismissed is lost
\* (load_state).
LEMMA LoadedFacts ==
  /\ DOMAIN Loaded.workspaces = DOMAIN saved.workspaces
  /\ \A w \in DOMAIN saved.workspaces : Loaded.workspaces[w] = saved.workspaces[w]
  /\ Loaded.dismissed \subseteq saved.dismissed
<1>1. CASE DOMAIN saved.workspaces = {} /\ ~saved.direct
  <2>1. Loaded = Record(<<>>, TRUE, {})
    BY <1>1 DEF Loaded
  <2>2. DOMAIN Record(<<>>, TRUE, {}).workspaces = {} /\ Record(<<>>, TRUE, {}).dismissed = {}
    BY DEF Record
  <2> QED BY <1>1, <2>1, <2>2
<1>2. CASE ~(DOMAIN saved.workspaces = {} /\ ~saved.direct)
  BY <1>2 DEF Loaded
<1> QED BY <1>1, <1>2

\* load_state (window/mod.rs:393) shows and dismisses what was saved, and opens every workspace again.
LEMMA StartKeepsInv ==
  ASSUME WindowInv, Start
  PROVE  WindowInv'
<1> DEFINE ws == Loaded.workspaces
           commands == IF ws = <<>> THEN <<Command("inventory", None, None, None, None)>>
                       ELSE Opens(ws, DOMAIN ws)
<1>0. Shape /\ Off /\ Numbered /\ InFlight /\ Terminated /\ StocksAgree /\ Kept
  BY DEF WindowInv
<1>1. /\ life = "off" /\ life' = "up" /\ workspaces' = ws /\ dismissed' = Loaded.dismissed
      /\ forgiven' = forgiven \cup (saved.dismissed \ Loaded.dismissed)
      /\ UNCHANGED <<offer, saved, events, runtimes, minted, owner, closed, unsaved, crashed>>
      /\ Send(commands)
  BY DEF Start, aside, dialog, daemon
<1>2. /\ DOMAIN ws = DOMAIN saved.workspaces
      /\ \A w \in DOMAIN ws : ws[w] = saved.workspaces[w]
      /\ Loaded.dismissed \subseteq saved.dismissed
  BY LoadedFacts
<1>3. events = <<>> /\ events' = <<>> /\ actors = <<Fresh>> /\ unsaved = {}
  BY <1>0, <1>1 DEF Off
<1>4. DOMAIN ws \in SUBSET (Issued \cup {None})
  BY <1>0, <1>2 DEF Numbered
<1>5. /\ IsSeq(commands)
      /\ \A c \in ToSet(commands) : c.kind \in Binding => c.ws \in DOMAIN ws /\ c.runtime = ws[c.ws].runtime
      /\ \A c \in ToSet(commands) : /\ c.ws \in DOMAIN ws \cup {None}
                                    /\ c.kind # "terminate"
                                    /\ c.runtime = None \/ (c.ws \in DOMAIN ws /\ c.runtime = ws[c.ws].runtime)
  <2>1. CASE ws = <<>>
    <3>1. commands = <<Command("inventory", None, None, None, None)>>
      BY <2>1
    <3>2. LET c == Command("inventory", None, None, None, None)
          IN  c.kind = "inventory" /\ c.ws = None /\ c.runtime = None
      BY DEF Command
    <3> HIDE DEF commands, ws
    <3> QED BY <3>1, <3>2, ShortSeqs DEF Binding
  <2>2. CASE ws # <<>>
    <3>1. commands = Opens(ws, DOMAIN ws)
      BY <2>2
    <3> HIDE DEF commands, ws
    <3>2. /\ IsSeq(commands)
          /\ \A c \in ToSet(commands) : c.kind = "open" /\ c.ws \in DOMAIN ws /\ c.runtime = ws[c.ws].runtime
      BY <1>0, <1>4, <3>1, OpensIsSeq
    <3> QED BY <3>2
  <2> QED BY <2>1, <2>2
<1> HIDE DEF commands, ws
<1>6. /\ Actors' /\ \A w, r : ~Tracked(w, r)'
      /\ \A c \in Queued' : c \in ToSet(commands)
  BY <1>1, <1>3, <1>5, SendAdds, FreshIsIdle
<1>7. DOMAIN events' = {} /\ Sent' = {} /\ IsSeq(events')
  BY <1>3, ShortSeqs DEF Sent
<1>8. Known' = Known /\ Issued' = Issued
  BY <1>1 DEF Known, Issued, Recovered
<1>9. \A w \in DOMAIN ws : /\ w \in Issued /\ ws[w].runtime \in Known \cup {None}
                           /\ Own(w, ws[w].runtime) /\ IsWorkspace(ws[w])
  BY <1>0, <1>2 DEF Numbered, Shape
<1>10. Shape'
  BY <1>0, <1>1, <1>6, <1>7, <1>9 DEF Shape, IsWorkspace
<1>11. Off'
  BY <1>1 DEF Off
<1>12. Numbered'
  BY <1>0, <1>1, <1>2, <1>8, <1>9 DEF Numbered, Own
<1>13. InFlight'
  <2>1. \A i \in DOMAIN actors' : \A w \in DOMAIN actors'[i].tracked : FALSE
    BY <1>6 DEF Tracked
  <2>2. ASSUME NEW c \in Queued' PROVE IsCommand(c)'
    <3>1. c \in ToSet(commands)
      BY <1>6
    <3>2. c.kind \in Binding => Own(c.ws, c.runtime)
      BY <1>5, <1>9, <3>1
    <3>3. c.ws \in Issued \cup {None} /\ c.runtime \in Known \cup {None}
      BY <1>5, <1>9, <3>1
    <3> QED BY <1>8, <3>2, <3>3 DEF IsCommand, Own
  <2> QED BY <1>7, <2>1, <2>2 DEF InFlight
<1>14. Terminated'
  BY <1>5, <1>6, <1>7 DEF Terminated, Ending
<1>15. StocksAgree'
  BY <1>7 DEF StocksAgree
<1>16. Kept'
  <2> SUFFICES ASSUME NEW r \in Remembered'
               PROVE  /\ r \notin Bound(workspaces)'
                      /\ \A w \in DOMAIN workspaces' : ~Awaited(w, r)'
                      /\ r \in dismissed' \/ Gone(r)'
                      /\ r \notin Bound(saved.workspaces)' /\ (r \in saved'.dismissed \/ Gone(r)')
    BY DEF Kept
  <2>1. r \in Remembered /\ r \notin unsaved /\ r \notin saved.dismissed \ Loaded.dismissed /\ r # None
    BY <1>0, <1>1, <1>3, KnownNumbers DEF Remembered, Numbered
  <2>2. r \notin Bound(saved.workspaces) /\ (r \in saved.dismissed \/ Gone(r))
    BY <1>0, <2>1 DEF Kept
  <2>3. Gone(r) => Gone(r)'
    BY <1>1, <1>7 DEF Gone, Stocked
  <2>4. \A w \in DOMAIN ws : ws[w].runtime # r
    BY <1>2, <2>1, <2>2 DEF Bound
  <2>5. ASSUME NEW w \in DOMAIN workspaces' PROVE ~Awaited(w, r)'
    BY <1>1, <1>5, <1>6, <1>7, <2>4, AwaitedMeansNext
  <2> QED BY <1>1, <2>1, <2>2, <2>3, <2>4, <2>5 DEF Bound
<1> QED BY <1>10, <1>11, <1>12, <1>13, <1>14, <1>15, <1>16 DEF WindowInv

-----------------------------------------------------------------------------
(* What the user does are orders.                                           *)

\* A step that leaves the actors alone.
LEMMA ActorsStay ==
  ASSUME Actors, actors' = actors
  PROVE  Actors' /\ Queued' = Queued /\ \A w, r : Tracked(w, r)' => Tracked(w, r)
<1>1. Actors'
  BY DEF Actors
<1>2. Queued' = Queued
  BY DEF Queued
<1>3. \A w, r : Tracked(w, r)' => Tracked(w, r)
  BY DEF Tracked
<1> QED BY <1>1, <1>2, <1>3

\* One command is sent.
LEMMA SendsOne ==
  ASSUME Actors, NEW c, Send(<<c>>)
  PROVE  /\ Actors'
         /\ \A x \in Queued' : x \in Queued \/ x = c
         /\ \A w, r : Tracked(w, r)' => Tracked(w, r)
<1>1. IsSeq(<<c>>) /\ ToSet(<<c>>) = {c}
  BY ShortSeqs
<1> QED BY <1>1, SendAdds

\* No workspace comes or changes its runtime.
SameBindings ==
  \A w \in DOMAIN workspaces' : /\ w \in DOMAIN workspaces /\ IsWorkspace(workspaces'[w])
                                /\ workspaces'[w].runtime = workspaces[w].runtime

\* A step of the user that brings no workspace, takes none, and saves nothing.
LEMMA KeepingIsOrders ==
  ASSUME WindowInv, life = "up", SameBindings, Actors', minted'.terminals \in Nat,
         minted' = [minted EXCEPT !.terminals = minted'.terminals],
         UNCHANGED <<life, events, runtimes, dismissed, saved, fate>>, offer' \subseteq offer,
         \A c \in Queued' : c \in Queued \/ Given(c),
         \A w, r : Tracked(w, r)' => Tracked(w, r)
  PROVE  Orders
<1>1. /\ minted' \in [workspaces : minted.workspaces..MaxWorkspaces, runtimes : {minted.runtimes}, terminals : Nat]
      /\ Added = {}
  <2>1. minted \in [workspaces : 0..MaxWorkspaces, runtimes : 0..MaxRuntimes, terminals : Nat]
    BY DEF WindowInv, Shape
  <2>2. minted'.workspaces = minted.workspaces /\ minted'.runtimes = minted.runtimes
    BY <2>1
  <2> QED BY <2>1, <2>2, Numbers DEF Added
<1>2. closed' \subseteq Known /\ Remembered' = Remembered
  BY DEF fate, WindowInv, Numbered, Remembered
<1> QED BY <1>1, <1>2 DEF Orders, SameBindings, fate

\* A command for a workspace that stays names the runtime it is in.
LEMMA GivenBy ==
  ASSUME WindowInv, NEW c, NEW w \in DOMAIN workspaces \cup {None},
         c.ws = w, c.kind # "terminate",
         c.runtime = None \/ (w \in DOMAIN workspaces /\ c.runtime = workspaces[w].runtime),
         c.kind \in Binding => /\ w \in DOMAIN workspaces' /\ w \in DOMAIN workspaces
                               /\ workspaces'[w].runtime = workspaces[w].runtime
                               /\ c.runtime = workspaces[w].runtime,
         Issued \subseteq Issued'
  PROVE  Given(c)
BY DEF WindowInv, Numbered, Given

\* A step that changes no number but that of the terminals.
LEMMA SameNumbers ==
  ASSUME Shape, minted' = [minted EXCEPT !.terminals = minted'.terminals]
  PROVE  Known' = Known /\ Issued' = Issued
<1>1. minted'.workspaces = minted.workspaces /\ minted'.runtimes = minted.runtimes
  BY DEF Shape
<1> QED BY <1>1 DEF Known, Issued, Recovered

\* A terminal gets the next number.
LEMMA MintFacts ==
  ASSUME Shape
  PROVE  /\ Mint("terminals") => /\ minted'.terminals \in Nat
                                 /\ minted' = [minted EXCEPT !.terminals = minted'.terminals]
         /\ minted' = minted => /\ minted'.terminals \in Nat
                                /\ minted' = [minted EXCEPT !.terminals = minted'.terminals]
<1>1. minted \in [workspaces : 0..MaxWorkspaces, runtimes : 0..MaxRuntimes, terminals : Nat]
  BY DEF Shape
<1> QED BY <1>1 DEF Mint

\* split_terminal (window/terminal.rs:296): the daemon is asked for the pane if there is a runtime.
LEMMA SplitTerminalIsOrder ==
  ASSUME WindowInv, NEW w \in DOMAIN workspaces, NEW t, SplitTerminal(w, t)
  PROVE  Orders
<1> DEFINE new == Newest("terminals")
           ws == [workspaces EXCEPT ![w].zoom = None, ![w].layout = SplitLayout(@, t, new)]
           c == Command("split", w, ws[w].runtime, t, new)
<1>0. Shape /\ Actors
  BY DEF WindowInv, Shape
<1>1. /\ life = "up" /\ Mint("terminals") /\ workspaces' = ws
      /\ IF ws[w].runtime = None THEN UNCHANGED actors ELSE Send(<<c>>)
      /\ UNCHANGED <<life, events, runtimes, dismissed, offer, saved, fate>>
  BY DEF SplitTerminal, Asks, Draw, DrawWithout, aside, dialog, daemon
<1>2. SameBindings /\ w \in DOMAIN workspaces' /\ workspaces'[w].runtime = workspaces[w].runtime
  BY <1>0, <1>1 DEF Shape, IsWorkspace, SameBindings
<1>3. c.ws = w /\ c.kind = "split" /\ c.runtime = workspaces[w].runtime
  BY <1>1, <1>2 DEF Command
<1>4. minted'.terminals \in Nat /\ minted' = [minted EXCEPT !.terminals = minted'.terminals]
  BY <1>0, <1>1, MintFacts
<1>5. Given(c)
  BY <1>0, <1>2, <1>3, <1>4, GivenBy, SameNumbers
<1> HIDE DEF c, ws, new
<1>6. /\ Actors' /\ \A x \in Queued' : x \in Queued \/ x = c
      /\ \A v, r : Tracked(v, r)' => Tracked(v, r)
  <2>1. CASE actors' = actors
    BY <1>0, <2>1, ActorsStay
  <2>2. CASE Send(<<c>>)
    BY <1>0, <2>2, SendsOne
  <2> QED BY <1>1, <2>1, <2>2
<1> QED BY <1>1, <1>2, <1>4, <1>5, <1>6, KeepingIsOrders

\* close_terminal (window/terminal.rs:480) of one of several panes.
LEMMA ClosePaneOfIsOrder ==
  ASSUME WindowInv, NEW w \in DOMAIN workspaces, NEW t, ClosePaneOf(w, t)
  PROVE  Orders
<1> DEFINE unzoomed == [workspaces EXCEPT ![w].zoom = None]
           ws == IF unzoomed[w].runtime # None THEN unzoomed
                 ELSE [unzoomed EXCEPT ![w].layout = RemoveLeaf(@, t)]
           c == Command("close", w, ws[w].runtime, t, None)
<1>0. Shape /\ Actors
  BY DEF WindowInv, Shape
<1>1. /\ life = "up" /\ minted' = minted /\ workspaces' = ws
      /\ IF ws[w].runtime = None THEN UNCHANGED actors ELSE Send(<<c>>)
      /\ UNCHANGED <<life, events, runtimes, dismissed, offer, saved, fate>>
  BY DEF ClosePaneOf, Asks, Draw, DrawWithout, aside, dialog, daemon
<1>2. /\ DOMAIN unzoomed = DOMAIN workspaces
      /\ \A v \in DOMAIN workspaces : IsWorkspace(unzoomed[v]) /\ unzoomed[v].runtime = workspaces[v].runtime
  BY <1>0 DEF Shape, IsWorkspace
<1> HIDE DEF unzoomed
<1>3. SameBindings /\ w \in DOMAIN workspaces' /\ workspaces'[w].runtime = workspaces[w].runtime
  BY <1>1, <1>2 DEF IsWorkspace, SameBindings
<1>4. c.ws = w /\ c.kind = "close" /\ c.runtime = workspaces[w].runtime
  BY <1>1, <1>3 DEF Command
<1>5. minted'.terminals \in Nat /\ minted' = [minted EXCEPT !.terminals = minted'.terminals]
  BY <1>0, <1>1, MintFacts
<1>6. Given(c)
  BY <1>0, <1>3, <1>4, <1>5, GivenBy, SameNumbers DEF Binding
<1> HIDE DEF c, ws
<1>7. /\ Actors' /\ \A x \in Queued' : x \in Queued \/ x = c
      /\ \A v, r : Tracked(v, r)' => Tracked(v, r)
  <2>1. CASE actors' = actors
    BY <1>0, <2>1, ActorsStay
  <2>2. CASE Send(<<c>>)
    BY <1>0, <2>2, SendsOne
  <2> QED BY <1>1, <2>1, <2>2
<1> QED BY <1>1, <1>3, <1>5, <1>6, <1>7, KeepingIsOrders

\* detach_runtime (window/mod.rs:1042): the workspace goes and nothing is dismissed or closed.
LEMMA DetachRuntimeIsOrder ==
  ASSUME WindowInv, NEW w \in DOMAIN workspaces, DetachRuntime(w)
  PROVE  Orders
<1> DEFINE ws == Without(workspaces, {w})
           r == workspaces[w].runtime
           c == Command("detach", w, r, None, None)
           d == Command("forget", w, None, None, None)
<1>0. Shape /\ Actors
  BY DEF WindowInv, Shape
<1>1. /\ life = "up" /\ minted' = minted /\ workspaces' = ws
      /\ IF r = None THEN UNCHANGED actors ELSE Send(<<c, d>>)
      /\ UNCHANGED <<life, events, runtimes, dismissed, offer, saved, fate>>
  BY DEF DetachRuntime, Asks, DrawWithout, aside, dialog, daemon
<1>2. SameBindings
  BY <1>0, <1>1 DEF Shape, SameBindings, Without, Restrict
<1>3. c.ws = w /\ c.kind = "detach" /\ c.runtime = r /\ d.ws = w /\ d.kind = "forget" /\ d.runtime = None
  BY DEF Command
<1>4. minted'.terminals \in Nat /\ minted' = [minted EXCEPT !.terminals = minted'.terminals]
  BY <1>0, <1>1, MintFacts
<1>5. Given(c) /\ Given(d)
  <2>1. Issued \subseteq Issued'
    BY <1>0, <1>4, SameNumbers
  <2>2. Given(c)
    BY <1>3, <2>1, GivenBy DEF Binding
  <2>3. Given(d)
    BY <1>3, <2>1, GivenBy DEF Binding
  <2> QED BY <2>2, <2>3
<1> HIDE DEF c, d, r, ws
<1>6. /\ Actors' /\ \A x \in Queued' : x \in Queued \/ x \in {c, d}
      /\ \A v, q : Tracked(v, q)' => Tracked(v, q)
  <2>1. CASE actors' = actors
    BY <1>0, <2>1, ActorsStay
  <2>2. CASE Send(<<c, d>>)
    <3>1. IsSeq(<<c, d>>) /\ ToSet(<<c, d>>) = {c, d}
      BY ShortSeqs
    <3> QED BY <1>0, <2>2, <3>1, SendAdds
  <2> QED BY <1>1, <2>1, <2>2
<1> QED BY <1>1, <1>2, <1>4, <1>5, <1>6, KeepingIsOrders

\* toggle_pane_zoom_for (window/actions.rs:442) is no business of the daemon.
LEMMA TogglePaneZoomIsOrder ==
  ASSUME WindowInv, NEW w \in DOMAIN workspaces, NEW t, TogglePaneZoom(w, t)
  PROVE  Orders
<1> DEFINE ws == [workspaces EXCEPT ![w].zoom = IF @ = None THEN t ELSE None]
<1>0. Shape /\ Actors
  BY DEF WindowInv, Shape
<1>1. /\ life = "up" /\ workspaces' = ws /\ minted' = minted /\ actors' = actors
      /\ UNCHANGED <<life, events, runtimes, dismissed, offer, saved, fate>>
  BY DEF TogglePaneZoom, Asks, Draw, DrawWithout, aside, dialog, daemon
<1>2. SameBindings
  BY <1>0, <1>1 DEF Shape, IsWorkspace, SameBindings
<1> QED BY <1>0, <1>1, <1>2, ActorsStay, MintFacts, KeepingIsOrders

\* retry_workspace_connection (window/runtime.rs:551) of a workspace whose open was refused.
LEMMA RetryWorkspaceIsOrder ==
  ASSUME WindowInv, NEW w \in DOMAIN workspaces, RetryWorkspace(w)
  PROVE  Orders
<1> DEFINE c == Open(workspaces, w)
<1>0. Shape /\ Actors
  BY DEF WindowInv, Shape
<1>1. /\ life = "up" /\ minted' = minted /\ Send(<<c>>)
      /\ workspaces' = [workspaces EXCEPT ![w].status = "waiting"]
      /\ UNCHANGED <<life, events, runtimes, dismissed, offer, saved, fate>>
  BY DEF RetryWorkspace, Asks, aside, dialog, daemon
<1>2. SameBindings /\ w \in DOMAIN workspaces' /\ workspaces'[w].runtime = workspaces[w].runtime
  BY <1>0, <1>1 DEF Shape, IsWorkspace, SameBindings
<1>3. c.ws = w /\ c.kind = "open" /\ c.runtime = workspaces[w].runtime
  BY DEF Command, Open
<1>4. minted'.terminals \in Nat /\ minted' = [minted EXCEPT !.terminals = minted'.terminals]
  BY <1>0, <1>1, MintFacts
<1>5. Given(c)
  BY <1>0, <1>2, <1>3, <1>4, GivenBy, SameNumbers
<1> HIDE DEF c
<1>6. /\ Actors' /\ \A x \in Queued' : x \in Queued \/ x = c
      /\ \A v, r : Tracked(v, r)' => Tracked(v, r)
  BY <1>0, <1>1, SendsOne
<1> QED BY <1>1, <1>2, <1>4, <1>5, <1>6, KeepingIsOrders

\* retry_all_workspaces_for_endpoint (window/runtime.rs:623): the old actor gets a shutdown behind what it
\* has to do, the new one opens every workspace.
LEMMA RetryEndpointReplaces ==
  ASSUME Shape, DOMAIN workspaces \in SUBSET (Issued \cup {None}), NEW w, RetryEndpoint(w)
  PROVE  /\ Actors'
         /\ InUse'.queue = Opens(workspaces, DOMAIN workspaces)
         /\ InUse'.tracked = <<>> /\ InUse'.link = "none"
         /\ \A x \in Queued' : \/ x \in Queued \/ x = Command("shutdown", None, None, None, None)
                               \/ x \in ToSet(Opens(workspaces, DOMAIN workspaces))
         /\ \A v, r : Tracked(v, r)' => Tracked(v, r)
<1> DEFINE last == Len(actors)
           ids == Reconnected(workspaces, w)
           c == Command("shutdown", None, None, None, None)
           old == [actors[last] EXCEPT !.queue = Append(@, c)]
           new == [Fresh EXCEPT !.queue = Opens(workspaces, ids)]
           opens == Opens(workspaces, ids)
<1>0. Shape /\ Actors
  BY DEF Shape
<1>1. actors' = Append([actors EXCEPT ![last].queue = Append(@, c)], new)
  BY DEF RetryEndpoint
<1>4. ids = DOMAIN workspaces
  BY DEF Reconnected
<1>5. IsSeq(opens)
  BY <1>0, <1>4, OpensIsSeq
<1>6. DOMAIN actors = 1..last /\ last \in Nat /\ last > 0 /\ IsActor(actors[last])
  BY <1>0, SeqFacts DEF Actors
<1>7. new.queue = opens /\ new.tracked = <<>> /\ new.link = "none" /\ IsActor(new)
  BY <1>5 DEF Fresh, IsActor
<1>8. old.queue = actors[last].queue \o <<c>> /\ old.tracked = actors[last].tracked /\ DOMAIN old = DOMAIN actors[last]
  <2>1. actors[last].queue \in Seq(ToSet(actors[last].queue) \cup {c})
    BY <1>6, SeqMonotonic DEF IsActor, IsSeq
  <2>2. Append(actors[last].queue, c) = actors[last].queue \o <<c>>
    BY <2>1, AppendIsConcat, SMTT(30)
  <2> QED BY <1>6, <2>2 DEF IsActor
<1>9. IsActor(old) /\ ToSet(old.queue) = ToSet(actors[last].queue) \cup {c}
  <2>1. IsSeq(<<c>>) /\ ToSet(<<c>>) = {c}
    BY ShortSeqs
  <2>2. IsSeq(actors[last].queue) /\ {"queue", "tracked", "link"} \subseteq DOMAIN actors[last]
    BY <1>6 DEF IsActor
  <2> HIDE DEF old, c
  <2>3. IsSeq(old.queue) /\ ToSet(old.queue) = ToSet(actors[last].queue) \cup {c}
    BY <1>8, <2>1, <2>2, ConcatIsSeq
  <2> QED BY <1>8, <2>2, <2>3 DEF IsActor
<1>10. actors' = [actors EXCEPT ![last] = old] \o <<new>>
  <2> DEFINE before == [actors EXCEPT ![last] = old]
             S == ToSet(actors) \cup {old, new}
  <2>1. actors \in Seq(S)
    BY <1>0, SeqMonotonic DEF Actors, IsSeq
  <2>2. before \in Seq(S)
    BY <1>6, <2>1, ExceptSeq
  <2>3. actors' = Append(before, new)
    BY <1>1
  <2> HIDE DEF before, S
  <2>4. new \in S
    BY DEF S
  <2> QED BY <2>2, <2>3, <2>4, AppendIsConcat DEF before
<1> HIDE DEF old, new, c, opens, ids
<1>11. /\ IsSeq(actors') /\ Len(actors') = last + 1 /\ DOMAIN actors' = 1..(last + 1)
       /\ actors'[last + 1] = new /\ actors'[last] = old
       /\ \A n \in 1..(last - 1) : actors'[n] = actors[n]
  <2> DEFINE before == [actors EXCEPT ![last] = old]
  <2>1. IsSeq(before) /\ Len(before) = last
    <3>1. before = [n \in 1..last |-> before[n]]
      BY <1>6
    <3> QED BY <1>6, <3>1, ListIsSeq
  <2>2. \A n \in 1..last : before[n] = IF n = last THEN old ELSE actors[n]
    BY <1>6
  <2> HIDE DEF before
  <2>3. IsSeq(<<new>>) /\ Len(<<new>>) = 1 /\ <<new>>[1] = new
    BY ShortSeqs
  <2>4. actors' = before \o <<new>>
    BY <1>10 DEF before
  <2>5. /\ IsSeq(actors') /\ Len(actors') = last + 1
        /\ \A n \in 1..(last + 1) : actors'[n] = IF n <= last THEN before[n] ELSE <<new>>[n - last]
    BY <2>1, <2>3, <2>4, ConcatIsSeq
  <2> HIDE DEF last
  <2>6. DOMAIN actors' = 1..(last + 1)
    BY <2>5, SeqFacts
  <2> QED BY <1>6, <2>2, <2>3, <2>5, <2>6
<1>12. \A n \in DOMAIN actors' : IsActor(actors'[n])
  BY <1>0, <1>6, <1>7, <1>9, <1>11 DEF Actors
<1>13. Actors'
  <2>1. actors' # <<>>
    BY <1>6, <1>11
  <2> QED BY <1>11, <1>12, <2>1 DEF Actors
<1>14. ASSUME NEW x \in Queued' PROVE x \in Queued \/ x = c \/ x \in ToSet(opens)
  <2>1. PICK n \in DOMAIN actors' : x \in ToSet(actors'[n].queue)
    BY DEF Queued
  <2>2. CASE n = last + 1
    BY <1>7, <1>11, <2>1, <2>2
  <2>3. CASE n = last
    <3>1. x \in ToSet(actors[last].queue) \/ x = c
      BY <1>9, <1>11, <2>1, <2>3
    <3> QED BY <1>6, <3>1 DEF Queued
  <2>4. CASE n \in 1..(last - 1)
    <3>1. n \in DOMAIN actors /\ x \in ToSet(actors[n].queue)
      BY <1>6, <1>11, <2>1, <2>4
    <3> QED BY <3>1 DEF Queued
  <2> QED BY <1>6, <1>11, <2>2, <2>3, <2>4
<1>15. ASSUME NEW v, NEW r, Tracked(v, r)' PROVE Tracked(v, r)
  <2>1. PICK n \in DOMAIN actors' : v \in DOMAIN actors'[n].tracked /\ actors'[n].tracked[v] = r
    BY <1>15 DEF Tracked
  <2>2. n # last + 1
    <3>1. DOMAIN new.tracked = {}
      BY <1>7, ShortSeqs
    <3> QED BY <1>11, <2>1, <3>1
  <2>3. n \in DOMAIN actors /\ actors'[n].tracked = actors[n].tracked
    BY <1>6, <1>8, <1>11, <2>2
  <2> QED BY <2>1, <2>3 DEF Tracked
<1>16. InUse' = new
  BY <1>11 DEF InUse, Last
<1> QED BY <1>4, <1>7, <1>13, <1>14, <1>15, <1>16 DEF opens, c

\* So what is bound stays.
LEMMA RetryEndpointIsOrder ==
  ASSUME WindowInv, NEW w \in DOMAIN workspaces, RetryEndpoint(w)
  PROVE  Orders
<1> DEFINE opens == Opens(workspaces, DOMAIN workspaces)
           c == Command("shutdown", None, None, None, None)
<1>0. Shape /\ Actors /\ DOMAIN workspaces \in SUBSET (Issued \cup {None})
  BY DEF WindowInv, Shape, Numbered
<1>1. life = "up" /\ minted' = minted /\ UNCHANGED <<life, events, runtimes, dismissed, offer, saved, fate>>
  BY DEF RetryEndpoint, Asks, aside, dialog, daemon
<1>2. workspaces' = [v \in DOMAIN workspaces |->
                      IF v \in Reconnected(workspaces, w) THEN [workspaces[v] EXCEPT !.status = "waiting"]
                      ELSE workspaces[v]]
  BY DEF RetryEndpoint
<1>3. SameBindings /\ DOMAIN workspaces' = DOMAIN workspaces
      /\ \A v \in DOMAIN workspaces : workspaces'[v].runtime = workspaces[v].runtime
  BY <1>0, <1>2 DEF Shape, IsWorkspace, SameBindings
<1>4. \A x \in ToSet(opens) : /\ x.kind = "open" /\ x.ws \in DOMAIN workspaces
                              /\ x.runtime = workspaces[x.ws].runtime
  BY <1>0, OpensIsSeq
<1>5. c.ws = None /\ c.kind = "shutdown" /\ c.runtime = None
  BY DEF Command
<1>6. /\ Actors' /\ \A x \in Queued' : x \in Queued \/ x = c \/ x \in ToSet(opens)
      /\ \A v, r : Tracked(v, r)' => Tracked(v, r)
  BY <1>0, RetryEndpointReplaces
<1> HIDE DEF opens, c
<1>7. ASSUME NEW x \in ToSet(opens) PROVE Given(x)
  BY <1>0, <1>1, <1>3, <1>4, MintFacts, SameNumbers, GivenBy DEF Binding
<1>8. Given(c)
  BY <1>0, <1>1, <1>5, MintFacts, SameNumbers, GivenBy DEF Binding
<1> QED BY <1>0, <1>1, <1>3, <1>6, <1>7, <1>8, MintFacts, KeepingIsOrders

\* A workspace is added: without a runtime, or in one the dialog offers.
LEMMA AddingIsOrders ==
  ASSUME WindowInv, life = "up", NEW w, NEW t, NEW r \in offer \cup {None}, NEW c,
         w = minted.workspaces + 1, w <= MaxWorkspaces, t = minted.terminals + 1,
         minted' = [minted EXCEPT !.workspaces = w, !.terminals = t],
         workspaces' = With(workspaces, w, Workspace(<<t>>, r)),
         Send(<<c>>), c.kind = "open", c.ws = w, c.runtime = r,
         UNCHANGED <<life, events, runtimes, dismissed, saved, unsaved, crashed, forgiven>>,
         offer' \subseteq offer, closed' = closed \ {r}, DOMAIN owner' = DOMAIN owner
  PROVE  Orders
<1>0. Shape /\ Actors /\ Numbered
  BY DEF WindowInv, Shape
<1>1. minted \in [workspaces : 0..MaxWorkspaces, runtimes : 0..MaxRuntimes, terminals : Nat]
  BY <1>0 DEF Shape
<1>2. /\ minted' \in [workspaces : minted.workspaces..MaxWorkspaces, runtimes : {minted.runtimes}, terminals : Nat]
      /\ minted'.workspaces = w /\ Added = {w}
  <2>1. minted.workspaces \in Nat /\ minted.terminals \in Nat /\ minted.runtimes \in Nat
    BY <1>1
  <2>2. minted' \in [workspaces : {w}, runtimes : {minted.runtimes}, terminals : Nat]
    <3>1. w \in Nat /\ t \in Nat
      BY <2>1
    <3>2. minted' = [workspaces |-> w, runtimes |-> minted.runtimes, terminals |-> t]
      BY <1>1, <2>1, <3>1
    <3> QED BY <3>1, <3>2
  <2>3. minted'.workspaces = w
    BY <2>2
  <2>4. Added = {w}
    BY <2>1, <2>3 DEF Added
  <2>5. w \in minted.workspaces..MaxWorkspaces
    BY <2>1, Numbers
  <2> QED BY <2>2, <2>3, <2>4, <2>5
<1>3. Known' = Known
  BY <1>1 DEF Known
<1>4. w \in Issued'
  BY <1>1, <1>2 DEF Issued
<1>5. /\ DOMAIN workspaces' = DOMAIN workspaces \cup {w}
      /\ \A v \in DOMAIN workspaces' : v # w => workspaces'[v] = workspaces[v]
      /\ workspaces'[w].runtime = r /\ IsWorkspace(workspaces'[w])
  BY DEF With, Workspace, IsWorkspace
<1>6. /\ Actors' /\ \A x \in Queued' : x \in Queued \/ x = c
      /\ \A v, q : Tracked(v, q)' => Tracked(v, q)
  BY <1>0, SendsOne
<1>7. Given(c)
  BY <1>0, <1>4, <1>5 DEF Given, Numbered
<1>8. closed' \subseteq Known
  BY <1>0 DEF Numbered
<1>9. \A q \in Remembered' : q \in Remembered /\ q # r
  BY DEF Remembered
<1>10. \A v \in DOMAIN workspaces' : v # w => IsWorkspace(workspaces'[v])
  BY <1>0, <1>5 DEF Shape
<1> QED BY <1>2, <1>5, <1>6, <1>7, <1>8, <1>9, <1>10 DEF Orders

\* add_managed_session_at_with_policy (window/runtime.rs:335) adds a workspace without a runtime.
LEMMA AddWorkspaceIsOrder ==
  ASSUME WindowInv, AddWorkspace
  PROVE  Orders
<1> DEFINE w == Newest("workspaces")
           t == Newest("terminals")
           ws == With(workspaces, w, Workspace(<<t>>, None))
           c == Open(ws, w)
<1>1. /\ life = "up" /\ w <= MaxWorkspaces /\ workspaces' = ws /\ Send(<<c>>)
      /\ minted' = [minted EXCEPT !.workspaces = w, !.terminals = t]
      /\ UNCHANGED <<life, events, runtimes, dismissed, offer, saved, fate>>
  BY DEF AddWorkspace, Asks, Draw, DrawWithout, aside, dialog, daemon
<1>2. w = minted.workspaces + 1 /\ t = minted.terminals + 1
  BY DEF Newest
<1>3. c.kind = "open" /\ c.ws = w /\ c.runtime = None
  BY DEF Open, Command, With, Workspace
<1>4. closed' = closed \ {None}
  BY <1>1, KnownNumbers DEF WindowInv, Numbered, fate
<1>5. UNCHANGED <<unsaved, crashed, forgiven, owner>>
  BY <1>1 DEF fate
<1>6. workspaces' = With(workspaces, w, Workspace(<<t>>, None))
  BY <1>1
<1> HIDE DEF c, ws, w, t
<1> QED BY <1>1, <1>2, <1>3, <1>4, <1>5, <1>6, AddingIsOrders

\* attach_to_existing_runtime (window/runtime.rs:263) adds one in a runtime of the dialog, which the user
\* thereby takes back.
LEMMA AttachIsOrder ==
  ASSUME WindowInv, NEW r \in offer, AttachToExistingRuntime(r)
  PROVE  Orders
<1> DEFINE w == Newest("workspaces")
           t == Newest("terminals")
           ws == With(workspaces, w, Workspace(<<t>>, r))
           c == Open(ws, w)
<1>1. /\ life = "up" /\ w <= MaxWorkspaces /\ workspaces' = ws /\ Send(<<c>>)
      /\ minted' = [minted EXCEPT !.workspaces = w, !.terminals = t]
      /\ UNCHANGED <<life, events, runtimes, dismissed, saved, unsaved, crashed, forgiven>>
      /\ offer' = {} /\ closed' = closed \ {r} /\ owner' = [owner EXCEPT ![r] = w]
  BY DEF AttachToExistingRuntime, Asks, Draw, DrawWithout, daemon
<1>2. w = minted.workspaces + 1 /\ t = minted.terminals + 1
  BY DEF Newest
<1>3. c.kind = "open" /\ c.ws = w /\ c.runtime = r
  BY DEF Open, Command, With, Workspace
<1>4. DOMAIN owner' = DOMAIN owner
  BY <1>1
<1>5. workspaces' = With(workspaces, w, Workspace(<<t>>, r))
  BY <1>1
<1> HIDE DEF c, ws, w, t
<1> QED BY <1>1, <1>2, <1>3, <1>4, <1>5, AddingIsOrders

\* What save_state writes is what is shown.
LEMMA SaveWrites ==
  ASSUME NEW ws, NEW dir, NEW dis, Save(ws, dir, dis), dis = dismissed',
         DOMAIN ws = DOMAIN workspaces', \A w \in DOMAIN ws : ws[w].runtime = workspaces'[w].runtime
  PROVE  IF spent < MaxSpent THEN Wrote ELSE UNCHANGED <<saved, unsaved>>
<1>1. CASE spent < MaxSpent
  <2>1. saved' = Record(ws, dir, dis) /\ unsaved' = {}
    BY <1>1 DEF Save
  <2>2. /\ saved'.workspaces = [w \in DOMAIN ws |-> Workspace(ws[w].layout, ws[w].runtime)]
        /\ saved'.dismissed = dis
    BY <2>1 DEF Record
  <2>3. \A l, r : IsWorkspace(Workspace(l, r)) /\ Workspace(l, r).runtime = r
    BY DEF IsWorkspace, Workspace
  <2> QED BY <1>1, <2>1, <2>2, <2>3 DEF Wrote
<1>2. CASE ~(spent < MaxSpent)
  BY <1>2 DEF Save
<1> QED BY <1>1, <1>2

\* The timer and the end of the window write what is shown (setup_signals, window/mod.rs:610, 622).
LEMMA SavesIsOrder ==
  ASSUME WindowInv, AutoSave \/ Quit
  PROVE  Orders
<1>0. Shape /\ Actors
  BY DEF WindowInv, Shape
<1>1. /\ life = "up" /\ spent < MaxSpent /\ Save(workspaces, direct, dismissed)
      /\ (life' = "up" /\ events' = events) \/ (life' = "leaving" /\ events' = <<>>)
      /\ UNCHANGED <<workspaces, dismissed, offer, actors, runtimes, minted, owner, closed, crashed, forgiven>>
  BY DEF AutoSave, Quit, Asks, Spend, screen, aside, dialog, daemon
<1>2. Wrote
  <2>1. saved' = Record(workspaces, direct, dismissed) /\ unsaved' = {}
    BY <1>1 DEF Save
  <2>2. /\ saved'.workspaces = [w \in DOMAIN workspaces |-> Workspace(workspaces[w].layout, workspaces[w].runtime)]
        /\ saved'.dismissed = dismissed
    BY <2>1 DEF Record
  <2>3. \A l, r : IsWorkspace(Workspace(l, r)) /\ Workspace(l, r).runtime = r
    BY DEF IsWorkspace, Workspace
  <2> QED BY <1>1, <2>1, <2>2, <2>3 DEF Wrote
<1>3. Actors' /\ Queued' = Queued /\ \A w, r : Tracked(w, r)' => Tracked(w, r)
  BY <1>0, <1>1, ActorsStay
<1>4. minted' \in [workspaces : minted.workspaces..MaxWorkspaces, runtimes : {minted.runtimes}, terminals : Nat]
  <2>1. minted \in [workspaces : 0..MaxWorkspaces, runtimes : 0..MaxRuntimes, terminals : Nat]
    BY <1>0 DEF Shape
  <2> QED BY <1>1, <2>1, Numbers
<1>5. Added = {}
  <2>1. minted.workspaces \in Nat
    BY <1>0 DEF Shape
  <2> QED BY <1>1, <2>1 DEF Added
<1>6. Remembered' = Remembered /\ closed' \subseteq Known
  BY <1>1 DEF Remembered, WindowInv, Numbered
<1>7. \A w \in DOMAIN workspaces' :
        IsWorkspace(workspaces'[w]) /\ w \in DOMAIN workspaces /\ workspaces'[w].runtime = workspaces[w].runtime
  BY <1>0, <1>1 DEF Shape
<1> QED BY <1>1, <1>2, <1>3, <1>4, <1>5, <1>6, <1>7 DEF Orders

\* The commands for the workspaces that go: to terminate their runtimes and to forget them.
LEMMA FarewellIsSeq ==
  ASSUME WindowInv, NEW gone \in SUBSET DOMAIN workspaces
  PROVE  /\ IsSeq(Farewell(gone))
         /\ \A c \in ToSet(Farewell(gone)) :
              /\ c.ws \in gone /\ c.at = None /\ c.new = None
              /\ \/ c.kind = "terminate" /\ c.runtime = workspaces[c.ws].runtime /\ c.runtime # None
                 \/ c.kind = "forget" /\ c.runtime = None
         /\ \A w \in gone : \E c \in ToSet(Farewell(gone)) : c.kind = "forget" /\ c.ws = w
<1> DEFINE even == {2 * w : w \in {v \in gone : workspaces[v].runtime # None}}
           odd == {2 * w + 1 : w \in gone}
           turns == Ordered(even \cup odd)
           w(n) == n \div 2
           Turn(n) == IF n = 2 * w(n) THEN Command("terminate", w(n), workspaces[w(n)].runtime, None, None)
                      ELSE Command("forget", w(n), None, None, None)
           list == Farewell(gone)
           bound == 2 * (MaxWorkspaces + MaxRuntimes) + 1
<1>1. bound \in Nat
  BY Numbers
<1>2. \A v \in gone : v \in Nat /\ v <= MaxWorkspaces + MaxRuntimes
  BY KnownNumbers DEF WindowInv, Numbered
<1>3. even \cup odd \in SUBSET Nat /\ \A x \in even \cup odd : x <= bound
  <2>1. ASSUME NEW v \in gone
        PROVE  2 * v \in Nat /\ 2 * v + 1 \in Nat /\ 2 * v <= bound /\ 2 * v + 1 <= bound
    BY <1>2, Numbers
  <2> QED BY <2>1
<1> HIDE DEF bound
<1>4. ASSUME NEW x \in even \cup odd
      PROVE  /\ w(x) \in gone
             /\ x = 2 * w(x) => workspaces[w(x)].runtime # None
  <2>1. CASE x \in even
    <3>1. PICK v \in gone : x = 2 * v /\ workspaces[v].runtime # None
      BY <2>1
    <3>2. v \in Nat
      BY <1>2
    <3>3. w(x) = v
      BY <3>1, <3>2
    <3> QED BY <3>1, <3>3
  <2>2. CASE x \in odd
    <3>1. PICK v \in gone : x = 2 * v + 1
      BY <2>2
    <3>2. v \in Nat
      BY <1>2
    <3>3. w(x) = v /\ x # 2 * v
      BY <3>1, <3>2
    <3> QED BY <3>3
  <2> QED BY <2>1, <2>2
<1>5. /\ DOMAIN turns = 1..Len(turns) /\ Len(turns) \in Nat /\ \A n \in DOMAIN turns : turns[n] \in even \cup odd
      /\ \A x \in even \cup odd : \E n \in DOMAIN turns : turns[n] = x
  BY <1>1, <1>3, OrderedIsSeq
<1>6. list = [n \in DOMAIN turns |-> Turn(turns[n])]
  BY DEF Farewell
<1> HIDE DEF turns, even, odd, list
<1>7. ASSUME NEW n \in 1..Len(turns)
      PROVE  /\ list[n].ws \in gone /\ list[n].at = None /\ list[n].new = None
             /\ \/ /\ list[n].kind = "terminate" /\ list[n].runtime = workspaces[list[n].ws].runtime
                   /\ list[n].runtime # None
                \/ list[n].kind = "forget" /\ list[n].runtime = None
  <2>1. PICK x : x = turns[n] /\ x \in even \cup odd
    BY <1>5
  <2>2. list[n] = Turn(x)
    BY <1>5, <1>6, <2>1
  <2>3. w(x) \in gone /\ (x = 2 * w(x) => workspaces[w(x)].runtime # None)
    BY <1>4, <2>1
  <2>4. PICK v : v = w(x)
    OBVIOUS
  <2>5. CASE x = 2 * v
    <3>1. list[n] = Command("terminate", v, workspaces[v].runtime, None, None)
      BY <2>2, <2>4, <2>5
    <3> QED BY <2>3, <2>4, <2>5, <3>1 DEF Command
  <2>6. CASE x # 2 * v
    <3>1. list[n] = Command("forget", v, None, None, None)
      BY <2>2, <2>4, <2>6
    <3> QED BY <2>3, <2>4, <3>1 DEF Command
  <2> QED BY <2>5, <2>6
<1>8. list = [n \in 1..Len(turns) |-> list[n]]
  BY <1>5, <1>6
<1>9. IsSeq(list) /\ DOMAIN list = 1..Len(turns)
  BY <1>5, <1>8, ListIsSeq
<1>10. ASSUME NEW c \in ToSet(list) PROVE \E n \in 1..Len(turns) : c = list[n]
  BY <1>9 DEF ToSet
<1>11. ASSUME NEW v \in gone PROVE \E c \in ToSet(list) : c.kind = "forget" /\ c.ws = v
  <2>1. PICK n \in 1..Len(turns) : turns[n] = 2 * v + 1
    <3>1. 2 * v + 1 \in odd
      BY DEF odd
    <3> QED BY <1>5, <3>1
  <2>2. v \in Nat
    BY <1>2
  <2>3. w(turns[n]) = v /\ turns[n] # 2 * v
    BY <2>1, <2>2
  <2>4. list[n] = Command("forget", v, None, None, None)
    BY <1>5, <1>6, <2>3
  <2>5. list[n] \in ToSet(list)
    BY <1>9 DEF ToSet
  <2> QED BY <2>4, <2>5 DEF Command
<1> QED BY <1>7, <1>9, <1>10, <1>11 DEF list

\* Workspaces are closed, with what is saved of it now or later.
LEMMA EndsIsOrders ==
  ASSUME WindowInv, NEW gone \in SUBSET DOMAIN workspaces, EndWorkspaces(gone),
         life = "up", workspaces' = Without(workspaces, gone),
         UNCHANGED <<runtimes, minted, offer>>,
         \/ life' = "up" /\ events' = events /\ saved' = saved /\ unsaved' = unsaved \cup (closed' \ closed)
         \/ life' = "leaving" /\ events' = <<>> /\ Wrote
  PROVE  Orders
<1> DEFINE bound == {workspaces[w].runtime : w \in gone} \ {None}
           early == UNION {Made(w) : w \in {v \in gone : workspaces[v].runtime = None}}
           left == bound \ Bound(Without(workspaces, gone))
           list == Farewell(gone)
<1>0. Shape /\ Actors /\ Numbered
  BY DEF WindowInv, Shape
<1>1. /\ dismissed' = dismissed \cup bound
      /\ closed' = closed \cup early \cup left
      /\ forgiven' = forgiven \cup early \cup {r \in left : \E v \in DOMAIN workspaces \ gone : Awaited(v, r)}
      /\ Send(list) /\ UNCHANGED <<owner, crashed>>
  BY DEF EndWorkspaces
<1>2. bound \subseteq Bound(workspaces) /\ bound \subseteq Known
  BY <1>0 DEF Bound, Numbered
<1>3. early \subseteq DOMAIN owner /\ left \subseteq bound
  BY DEF Made
<1>4. \A w \in gone : workspaces[w].runtime # None => workspaces[w].runtime \in bound
  OBVIOUS
<1>5. left \cap Bound(workspaces)' = {}
  OBVIOUS
<1> HIDE DEF early, left, bound, list
<1>6. /\ DOMAIN workspaces' = DOMAIN workspaces \ gone
      /\ \A w \in DOMAIN workspaces' : workspaces'[w] = workspaces[w] /\ IsWorkspace(workspaces'[w])
  BY <1>0 DEF Without, Restrict, Shape
<1>7. minted' \in [workspaces : minted.workspaces..MaxWorkspaces, runtimes : {minted.runtimes}, terminals : Nat]
  <2>1. minted \in [workspaces : 0..MaxWorkspaces, runtimes : 0..MaxRuntimes, terminals : Nat]
    BY <1>0 DEF Shape
  <2> QED BY <2>1, Numbers
<1>8. Added = {} /\ Issued' = Issued
  <2>1. minted.workspaces \in Nat
    BY <1>0 DEF Shape
  <2> QED BY <2>1 DEF Added, Issued, Known, Recovered
<1>9. /\ Actors' /\ \A x \in Queued' : x \in Queued \/ x \in ToSet(list)
      /\ \A v, r : Tracked(v, r)' => Tracked(v, r)
  BY <1>0, <1>1, FarewellIsSeq, SendAdds DEF list
<1>10. ASSUME NEW c \in ToSet(list) PROVE Given(c)
  <2>1. /\ c.ws \in gone
        /\ \/ c.kind = "terminate" /\ c.runtime = workspaces[c.ws].runtime /\ c.runtime # None
           \/ c.kind = "forget" /\ c.runtime = None
    BY FarewellIsSeq DEF list
  <2>2. c.ws \in Issued' /\ c.runtime \in Known \cup {None} /\ c.kind \notin Binding
    BY <1>0, <1>8, <2>1 DEF Numbered, Binding
  <2>3. c.kind = "terminate" => /\ c.ws \in DOMAIN workspaces \ DOMAIN workspaces'
                                /\ workspaces[c.ws].runtime \in dismissed'
    BY <1>1, <1>4, <1>6, <2>1
  <2> QED BY <2>2, <2>3 DEF Given
<1>11. closed' \subseteq Known
  BY <1>0, <1>1, <1>2, <1>3 DEF Numbered
<1>12. ASSUME NEW r \in Remembered' PROVE r \in Remembered \/ LetGo(r)
  <2>1. r \in closed' /\ r \notin crashed /\ r \notin forgiven'
    BY <1>1 DEF Remembered
  <2>2. CASE r \in closed
    BY <1>1, <2>1, <2>2 DEF Remembered
  <2>3. CASE r \notin closed
    <3>1. r \in left /\ \A v \in DOMAIN workspaces \ gone : ~Awaited(v, r)
      BY <1>1, <2>1, <2>3
    <3>2. r \in dismissed' /\ r \notin Bound(workspaces)'
      BY <1>1, <1>3, <1>5, <3>1
    <3>3. r \in unsaved' \/ Wrote
      BY <2>1, <2>3
    <3> QED BY <1>6, <3>1, <3>2, <3>3 DEF LetGo
  <2> QED BY <2>2, <2>3
<1>13. Wrote \/ (saved' = saved /\ unsaved \subseteq unsaved')
  OBVIOUS
<1>14. dismissed \subseteq dismissed' /\ dismissed' \subseteq dismissed \cup Bound(workspaces)
  BY <1>1, <1>2
<1> QED BY <1>1, <1>6, <1>7, <1>8, <1>9, <1>10, <1>11, <1>12, <1>13, <1>14 DEF Orders

\* close_session (window/mod.rs:1182), of the last workspace too: then the window closes and saves.
LEMMA CloseSessionIsOrder ==
  ASSUME WindowInv, NEW w \in DOMAIN workspaces, CloseSession(w)
  PROVE  Orders
<1> DEFINE ws == Without(workspaces, {w})
<1>1. /\ life = "up" /\ spent < MaxSpent /\ EndWorkspaces({w}) /\ UNCHANGED <<runtimes, minted, offer>>
  BY DEF CloseSession, Asks, Spend, aside, dialog, daemon
<1>2. CASE Count > 1
  <2>1. /\ workspaces' = ws /\ unsaved' = unsaved \cup (closed' \ closed)
        /\ UNCHANGED <<life, events, saved>>
    BY <1>2 DEF CloseSession, DrawWithout
  <2> QED BY <1>1, <2>1, EndsIsOrders
<1>3. CASE ~(Count > 1)
  <2>1. workspaces' = ws /\ life' = "leaving" /\ events' = <<>> /\ Save(ws, direct, dismissed')
    BY <1>3 DEF CloseSession, Draw, DrawWithout
  <2>2. Wrote
    <3>1. saved' = Record(ws, direct, dismissed') /\ unsaved' = {}
      BY <1>1, <2>1 DEF Save
    <3>2. /\ saved'.workspaces = [v \in DOMAIN ws |-> Workspace(ws[v].layout, ws[v].runtime)]
          /\ saved'.dismissed = dismissed'
      BY <3>1 DEF Record
    <3>3. \A l, r : IsWorkspace(Workspace(l, r)) /\ Workspace(l, r).runtime = r
      BY DEF IsWorkspace, Workspace
    <3> HIDE DEF ws
    <3> QED BY <2>1, <3>1, <3>2, <3>3 DEF Wrote
  <2> QED BY <1>1, <2>1, <2>2, EndsIsOrders
<1> QED BY <1>2, <1>3

\* close_all_sessions (window/mod.rs:1111).
LEMMA CloseAllSessionsIsOrder ==
  ASSUME WindowInv, CloseAllSessions
  PROVE  Orders
<1>1. /\ life = "up" /\ EndWorkspaces(DOMAIN workspaces) /\ workspaces' = <<>>
      /\ unsaved' = unsaved \cup (closed' \ closed)
      /\ UNCHANGED <<life, events, saved, runtimes, minted, offer>>
  BY DEF CloseAllSessions, Asks, Draw, DrawWithout, aside, dialog, daemon
<1>2. workspaces' = Without(workspaces, DOMAIN workspaces)
  <2>1. Without(workspaces, DOMAIN workspaces) = [x \in {} |-> workspaces[x]]
    BY DEF Without, Restrict
  <2>2. [x \in {} |-> workspaces[x]] = <<>>
    OBVIOUS
  <2> QED BY <1>1, <2>1, <2>2
<1> QED BY <1>1, <1>2, EndsIsOrders

\* connect_existing (window/runtime.rs:222) asks for an inventory; a dialog or a direct workspace is closed.
LEMMA DialogIsOrder ==
  ASSUME WindowInv, ConnectExisting \/ DismissDialog \/ CloseDirect
  PROVE  Orders
<1> DEFINE c == Command("inventory", None, None, None, None)
<1>0. Shape /\ Actors
  BY DEF WindowInv, Shape
<1>1. /\ life = "up" /\ minted' = minted /\ workspaces' = workspaces /\ offer' \subseteq offer
      /\ UNCHANGED <<life, events, runtimes, dismissed, saved, fate>>
      /\ actors' = actors \/ Send(<<c>>)
  BY DEF ConnectExisting, DismissDialog, CloseDirect, Asks, screen, aside, dialog, daemon
<1>2. SameBindings
  BY <1>0, <1>1 DEF Shape, SameBindings
<1>3. c.ws = None /\ c.kind = "inventory" /\ c.runtime = None
  BY DEF Command
<1>4. minted'.terminals \in Nat /\ minted' = [minted EXCEPT !.terminals = minted'.terminals]
  BY <1>0, <1>1, MintFacts
<1>5. Given(c)
  BY <1>0, <1>3, <1>4, GivenBy, SameNumbers DEF Binding
<1> HIDE DEF c
<1>6. /\ Actors' /\ \A x \in Queued' : x \in Queued \/ x = c
      /\ \A v, r : Tracked(v, r)' => Tracked(v, r)
  <2>1. CASE actors' = actors
    BY <1>0, <2>1, ActorsStay
  <2>2. CASE Send(<<c>>)
    BY <1>0, <2>2, SendsOne
  <2> QED BY <1>1, <2>1, <2>2
<1> QED BY <1>1, <1>2, <1>4, <1>5, <1>6, KeepingIsOrders

\* Every step of the user, and every save, gives orders.
LEMMA UserActsAreOrders ==
  ASSUME WindowInv, UserActs \/ AutoSave \/ Quit
  PROVE  Orders
BY AddWorkspaceIsOrder, CloseAllSessionsIsOrder, DialogIsOrder, AttachIsOrder, CloseSessionIsOrder,
   DetachRuntimeIsOrder, RetryWorkspaceIsOrder, RetryEndpointIsOrder, SplitTerminalIsOrder,
   ClosePaneOfIsOrder, TogglePaneZoomIsOrder, SavesIsOrder
   DEF UserActs

-----------------------------------------------------------------------------
(* What the actors and the daemon do is carried out and told of.            *)

\* An event is a record, with these fields among others.
IsRecord(e) == {"kind", "from", "ws", "runtime", "pane", "stock"} \subseteq DOMAIN e

\* An event that binds no workspace, ends none and lists nothing.
Plain(e) ==
  /\ IsRecord(e) /\ e.runtime = None /\ e.stock = <<>>
  /\ e.kind \notin Answers \cup {"terminated", "inventory"}

\* The events the actors make.
LEMMA EventsAre ==
  /\ \A kind, w : LET e == Event(kind, w)
                  IN /\ IsRecord(e) /\ e.kind = kind /\ e.ws = w
                     /\ e.runtime = None /\ e.stock = <<>>
  /\ \A w, status : Plain(Changed(w, status)) /\ Changed(w, status).ws = w
  /\ \A p : Plain(Delta(p)) /\ Delta(p).ws = None
  /\ \A w, r, leaves, status : LET e == Opened(w, r, leaves, status)
                               IN /\ IsRecord(e) /\ e.kind = "opened" /\ e.ws = w
                                  /\ e.runtime = r /\ e.stock = <<>>
  /\ \A c, p : LET e == Created(c, p)
               IN /\ IsRecord(e) /\ e.kind = "created" /\ e.ws = c.ws
                  /\ e.runtime = c.runtime /\ e.pane = p /\ e.stock = <<>>
  /\ \A kind, w, status : LET e == [Event(kind, w) EXCEPT !.status = status]
                          IN /\ IsRecord(e) /\ e.kind = kind /\ e.ws = w
                             /\ e.runtime = None /\ e.stock = <<>>
  /\ \A stock : LET e == [Event("inventory", None) EXCEPT !.stock = stock]
                IN IsRecord(e) /\ e.kind = "inventory" /\ e.ws = None /\ e.runtime = None /\ e.stock = stock
BY DEF Event, Changed, Delta, Opened, Created, IsRecord, Plain, Answers

\* What a plain event tells of a workspace is no news of its runtime.
LEMMA PlainIsNews ==
  ASSUME NEW e, Plain(e), e.ws \in Issued \cup {None}
  PROVE  IsRecord(e) /\ News(e)
<1>1. DOMAIN <<>> = {}
  OBVIOUS
<1> QED BY <1>1 DEF Plain, News, Answers

\* What is emitted is stamped with the actor, and is told as it is.
LEMMA EmitsNews ==
  ASSUME Shape, NEW i, NEW list, IsSeq(list), Emit(i, list),
         \A e \in ToSet(list) : IsRecord(e) /\ News(e)
  PROVE  \E more : /\ IsSeq(more) /\ events' = events \o more
                   /\ life # "up" => more = <<>>
                   /\ \A e \in ToSet(more) : News(e)
<1>1. PICK more : /\ IsSeq(more) /\ events' = events \o more
                  /\ life # "up" => more = <<>>
                  /\ \A e \in ToSet(more) : \E n \in DOMAIN list : e = [list[n] EXCEPT !.from = i]
  BY EmitAdds DEF Shape
<1>2. ASSUME NEW e \in ToSet(more) PROVE News(e)
  <2>1. PICK n \in DOMAIN list : e = [list[n] EXCEPT !.from = i]
    BY <1>1
  <2>2. IsRecord(list[n]) /\ News(list[n])
    BY DEF ToSet
  <2>3. /\ e.kind = list[n].kind /\ e.ws = list[n].ws /\ e.runtime = list[n].runtime
        /\ e.pane = list[n].pane /\ e.stock = list[n].stock
    BY <2>1, <2>2 DEF IsRecord
  <2> QED BY <2>2, <2>3 DEF News
<1> QED BY <1>1, <1>2

\* One event is emitted.
LEMMA EmitsOne ==
  ASSUME Shape, NEW i, NEW e, Emit(i, <<e>>), IsRecord(e), News(e)
  PROVE  \E more : /\ IsSeq(more) /\ events' = events \o more
                   /\ life # "up" => more = <<>>
                   /\ \A x \in ToSet(more) : News(x)
<1>1. IsSeq(<<e>>) /\ ToSet(<<e>>) = {e}
  BY ShortSeqs
<1> QED BY <1>1, EmitsNews

\* The command an actor takes.
LEMMA TakenIsCommand ==
  ASSUME Shape, InFlight, NEW i \in DOMAIN actors, actors[i].queue # <<>>
  PROVE  LET c == Head(actors[i].queue)
         IN /\ c \in Queued /\ c.ws \in Issued \cup {None} /\ c.runtime \in Known \cup {None}
            /\ c.kind \in Binding => Own(c.ws, c.runtime) /\ Awaited(c.ws, c.runtime)
<1> DEFINE c == Head(actors[i].queue)
<1>1. c \in Queued
  BY HeadIsQueued DEF Shape
<1> HIDE DEF c
<1>2. c.kind \in Binding => Awaited(c.ws, c.runtime)
  BY <1>1, AwaitedMeans
<1>3. IsCommand(c)
  BY <1>1 DEF InFlight
<1> QED BY <1>1, <1>2, <1>3 DEF IsCommand, c

\* A step that creates no runtime.
LEMMA CarriesOut ==
  ASSUME Shape, life # "off" \/ actors' = actors, UNCHANGED <<untouched, fate>>,
         minted'.terminals \in Nat, minted' = [minted EXCEPT !.terminals = minted'.terminals],
         Actors', \A c \in Queued' : c \in Queued,
         \A w, r : Tracked(w, r)' => Tracked(w, r),
         \E more : /\ IsSeq(more) /\ events' = events \o more
                   /\ life # "up" => more = <<>>
                   /\ \A e \in ToSet(more) : News(e),
         DOMAIN runtimes' \subseteq DOMAIN runtimes
  PROVE  Spreads
<1>1. UNCHANGED <<life, workspaces, dismissed, offer, saved, unsaved, crashed, owner, closed, forgiven>>
  BY DEF untouched, screen, aside, dialog, fate
<1>2. minted' \in [workspaces : {minted.workspaces}, runtimes : minted.runtimes..MaxRuntimes, terminals : Nat]
  <2>1. minted \in [workspaces : 0..MaxWorkspaces, runtimes : 0..MaxRuntimes, terminals : Nat]
    BY DEF Shape
  <2> QED BY <2>1, Numbers
<1> QED BY <1>1, <1>2 DEF Spreads

\* An actor forgets a workspace, or none.
LEMMA TrackedLess ==
  ASSUME NEW i \in DOMAIN actors, NEW gone
  PROVE  LET less == Without(actors[i].tracked, gone)
         IN \A w \in DOMAIN less : w \in DOMAIN actors[i].tracked /\ less[w] = actors[i].tracked[w]
BY DEF Without, Restrict

\* An actor is done with a command, and tracks no more than before.
LEMMA DoneKeeps ==
  ASSUME Shape, NEW i \in DOMAIN actors, actors[i].queue # <<>>, NEW link, NEW tracked,
         \A w \in DOMAIN tracked : w \in DOMAIN actors[i].tracked /\ tracked[w] = actors[i].tracked[w],
         Done(i, link, tracked, <<>>)
  PROVE  /\ Actors' /\ \A c \in Queued' : c \in Queued
         /\ \A w, r : Tracked(w, r)' => Tracked(w, r)
<1>1. IsSeq(<<>>) /\ ToSet(<<>>) = {}
  BY ShortSeqs
<1>2. /\ Actors'
      /\ \A c \in Queued' : c \in Queued \/ c \in ToSet(<<>>)
      /\ \A w, r : Tracked(w, r)' => Tracked(w, r) \/ (w \in DOMAIN tracked /\ tracked[w] = r)
  BY <1>1, DoneAdds DEF Shape
<1>3. \A w, r : w \in DOMAIN tracked /\ tracked[w] = r => Tracked(w, r)
  BY DEF Tracked
<1> QED BY <1>1, <1>2, <1>3

\* ClosePane (daemon_bridge.rs:1033) tells of a pane that is gone.
LEMMA RemovePaneSpreads ==
  ASSUME WindowInv, NEW i \in DOMAIN actors, RemovePane(i)
  PROVE  Spreads
<1> DEFINE c == Head(actors[i].queue)
           e == [Event("closed", c.ws) EXCEPT !.runtime = c.runtime, !.at = c.at]
<1>0. Shape /\ InFlight
  BY DEF WindowInv
<1>1. /\ life # "off" /\ actors[i].queue # <<>> /\ Done(i, "up", actors[i].tracked, <<>>) /\ Emit(i, <<e>>)
      /\ UNCHANGED <<untouched, minted, fate>> /\ DOMAIN runtimes' = DOMAIN runtimes
  BY DEF RemovePane, Takes
<1>2. c.ws \in Issued \cup {None} /\ c.runtime \in Known \cup {None}
  BY <1>0, <1>1, TakenIsCommand
<1>3. Known' = Known
  BY <1>1 DEF Known
<1> HIDE DEF c
<1>4. IsRecord(e) /\ e.kind = "closed" /\ e.ws = c.ws /\ e.runtime = c.runtime /\ e.stock = <<>>
  BY DEF Event, IsRecord
<1> HIDE DEF e
<1>5. DOMAIN <<>> = {}
  OBVIOUS
<1>6. IsRecord(e) /\ News(e)
  BY <1>2, <1>3, <1>4, <1>5 DEF News, Answers
<1> QED BY <1>0, <1>1, <1>6, EmitsOne, DoneKeeps, MintFacts, CarriesOut

\* handle_command_error (daemon_bridge.rs:2096) tells that a workspace is blocked or missing.
LEMMA CommandRefusedSpreads ==
  ASSUME WindowInv, NEW i \in DOMAIN actors, CommandRefused(i)
  PROVE  Spreads
<1> DEFINE c == Head(actors[i].queue)
           e == Changed(c.ws, IF c.runtime \notin DOMAIN runtimes THEN "missing" ELSE "blocked")
<1>0. Shape /\ InFlight
  BY DEF WindowInv
<1>1. /\ life # "off" /\ actors[i].queue # <<>> /\ Done(i, "up", actors[i].tracked, <<>>) /\ Emit(i, <<e>>)
      /\ UNCHANGED <<untouched, minted, fate>> /\ DOMAIN runtimes' = DOMAIN runtimes
  BY DEF CommandRefused, Takes, daemon
<1>2. Plain(e) /\ e.ws = c.ws /\ c.ws \in Issued \cup {None}
  BY <1>0, <1>1, EventsAre, TakenIsCommand
<1> HIDE DEF e, c
<1>3. IsRecord(e) /\ News(e)
  BY <1>2, PlainIsNews
<1> QED BY <1>0, <1>1, <1>3, EmitsOne, DoneKeeps, MintFacts, CarriesOut

\* ensure_connected (daemon_bridge.rs:1541) drops the command and tells that the workspace waits.
LEMMA NoDaemonSpreads ==
  ASSUME WindowInv, NEW i \in DOMAIN actors, NoDaemon(i)
  PROVE  Spreads
<1> DEFINE c == Head(actors[i].queue)
           e == Changed(c.ws, "waiting")
<1>0. Shape /\ InFlight
  BY DEF WindowInv
<1>1. /\ life # "off" /\ actors[i].queue # <<>> /\ Done(i, "lost", actors[i].tracked, <<>>) /\ Emit(i, <<e>>)
      /\ UNCHANGED <<untouched, minted, fate>> /\ DOMAIN runtimes' = DOMAIN runtimes
  BY DEF NoDaemon, daemon
<1>2. Plain(e) /\ e.ws = c.ws /\ c.ws \in Issued \cup {None}
  BY <1>0, <1>1, EventsAre, TakenIsCommand
<1> HIDE DEF e, c
<1>3. IsRecord(e) /\ News(e)
  BY <1>2, PlainIsNews
<1> QED BY <1>0, <1>1, <1>3, EmitsOne, DoneKeeps, MintFacts, CarriesOut

\* RefreshInventory (daemon_bridge.rs:1301) lists what the daemon has.
LEMMA RefreshInventorySpreads ==
  ASSUME WindowInv, NEW i \in DOMAIN actors, RefreshInventory(i)
  PROVE  Spreads
<1> DEFINE e == [Event("inventory", None) EXCEPT !.stock = runtimes]
<1>0. Shape /\ Numbered
  BY DEF WindowInv
<1>1. /\ life # "off" /\ actors[i].queue # <<>> /\ Done(i, "up", actors[i].tracked, <<>>) /\ Emit(i, <<e>>)
      /\ UNCHANGED <<untouched, minted, fate>> /\ runtimes' = runtimes
  BY DEF RefreshInventory, Takes, daemon
<1>2. IsRecord(e) /\ e.kind = "inventory" /\ e.ws = None /\ e.runtime = None /\ e.stock = runtimes
  BY EventsAre
<1> HIDE DEF e
<1>3. News(e)
  BY <1>0, <1>1, <1>2 DEF News, Answers, Numbered
<1> QED BY <1>0, <1>1, <1>2, <1>3, EmitsOne, DoneKeeps, MintFacts, CarriesOut

\* DetachWorkspace and TerminateWorkspace (daemon_bridge.rs:1122) untrack the workspace; the end of a
\* runtime is told because it was ordered.
LEMMA LeaveRuntimeSpreads ==
  ASSUME WindowInv, NEW i \in DOMAIN actors, LeaveRuntime(i)
  PROVE  Spreads
<1> DEFINE c == Head(actors[i].queue)
           Parting(kind) == [Event(IF kind = "detach" THEN "detached" ELSE "terminated", c.ws)
                            EXCEPT !.status = "waiting"]
           less == Without(actors[i].tracked, {c.ws})
<1>0. Shape /\ InFlight
  BY DEF WindowInv
<1>1. PICK kind \in {"detach", "terminate"} :
        /\ life # "off" /\ actors[i].queue # <<>> /\ c.kind = kind
        /\ Done(i, "up", less, <<>>) /\ Emit(i, <<Parting(kind)>>)
        /\ runtimes' = IF kind = "detach" THEN runtimes ELSE Restrict(runtimes, DOMAIN runtimes \ {c.runtime})
        /\ UNCHANGED <<untouched, minted, fate>>
  BY DEF LeaveRuntime, Takes
<1> DEFINE e == Parting(kind)
<1>2. DOMAIN runtimes' \subseteq DOMAIN runtimes
  BY <1>1 DEF Restrict
<1>3. /\ IsRecord(e) /\ e.ws = c.ws /\ e.runtime = None /\ e.stock = <<>>
      /\ e.kind = IF kind = "detach" THEN "detached" ELSE "terminated"
  BY DEF Event, IsRecord
<1>4. c \in Queued /\ c.ws \in Issued \cup {None}
  BY <1>0, <1>1, TakenIsCommand
<1>5. \A w \in DOMAIN less : w \in DOMAIN actors[i].tracked /\ less[w] = actors[i].tracked[w]
  BY TrackedLess
<1>6. Emit(i, <<e>>) /\ Done(i, "up", less, <<>>)
  BY <1>1
<1> HIDE DEF e, Parting, c, less
<1>7. News(e)
  <2>1. DOMAIN <<>> = {}
    OBVIOUS
  <2> QED BY <1>1, <1>3, <1>4, <2>1 DEF News, Answers
<1>8. \E more : /\ IsSeq(more) /\ events' = events \o more
                /\ life # "up" => more = <<>>
                /\ \A x \in ToSet(more) : News(x)
  BY <1>0, <1>3, <1>6, <1>7, EmitsOne
<1>9. /\ Actors' /\ \A x \in Queued' : x \in Queued
      /\ \A w, r : Tracked(w, r)' => Tracked(w, r)
  BY <1>0, <1>1, <1>5, <1>6, DoneKeeps
<1>10. life # "off" /\ UNCHANGED <<untouched, fate>> /\ minted' = minted
  BY <1>1
<1> QED BY <1>0, <1>2, <1>8, <1>9, <1>10, MintFacts, CarriesOut

\* Nothing is told.
LEMMA NoNews ==
  ASSUME Shape, events' = events
  PROVE  \E more : /\ IsSeq(more) /\ events' = events \o more
                   /\ life # "up" => more = <<>>
                   /\ \A e \in ToSet(more) : News(e)
<1>1. events \in Seq(ToSet(events))
  BY DEF Shape, IsSeq
<1>2. events' = events \o <<>>
  BY <1>1, ConcatEmptySeq
<1> QED BY <1>2, ShortSeqs

\* An actor changes its link, or ends.
LEMMA LinkKeeps ==
  ASSUME Shape, NEW i \in DOMAIN actors, NEW a, actors' = [actors EXCEPT ![i] = a], IsActor(a),
         ToSet(a.queue) \subseteq ToSet(actors[i].queue),
         \A w \in DOMAIN a.tracked : w \in DOMAIN actors[i].tracked /\ a.tracked[w] = actors[i].tracked[w]
  PROVE  /\ Actors' /\ \A c \in Queued' : c \in Queued
         /\ \A w, r : Tracked(w, r)' => Tracked(w, r)
<1>1. /\ Actors' /\ Len(actors') = Len(actors)
      /\ \A c \in Queued' : c \in Queued \/ c \in {}
      /\ \A w, r : Tracked(w, r)' => \/ Tracked(w, r)
                                     \/ w \in DOMAIN a.tracked /\ a.tracked[w] = r
  <2>1. ToSet(a.queue) \subseteq ToSet(actors[i].queue) \cup {} /\ Actors
    BY DEF Shape
  <2> QED BY ONLY <2>1, ActorChanges, IsActor(a), i \in DOMAIN actors, actors' = [actors EXCEPT ![i] = a]
<1>2. \A w, r : w \in DOMAIN a.tracked /\ a.tracked[w] = r => Tracked(w, r)
  BY DEF Tracked
<1> QED BY <1>1, <1>2

\* ForgetWorkspace and the end of the actor's loop (daemon_bridge.rs:1534, 644) untrack and tell nothing.
LEMMA ForgetOrShutdownSpreads ==
  ASSUME WindowInv, NEW i \in DOMAIN actors, ForgetOrShutdown(i)
  PROVE  Spreads
<1> DEFINE c == Head(actors[i].queue)
           less == Without(actors[i].tracked, {c.ws})
<1>0. Shape
  BY DEF WindowInv
<1>1. /\ life # "off" /\ actors[i].queue # <<>>
      /\ actors' = [actors EXCEPT ![i] = Ended] \/ Done(i, actors[i].link, less, <<>>)
      /\ UNCHANGED <<untouched, minted, fate>> /\ runtimes' = runtimes /\ events' = events
  BY DEF ForgetOrShutdown, Takes, daemon
<1>2. \A w \in DOMAIN less : w \in DOMAIN actors[i].tracked /\ less[w] = actors[i].tracked[w]
  BY TrackedLess
<1>3. IsActor(Ended) /\ ToSet(Ended.queue) = {} /\ DOMAIN Ended.tracked = {}
  <2>1. Ended.queue = <<>> /\ Ended.tracked = <<>> /\ DOMAIN Ended = {"queue", "tracked", "link"}
    BY DEF Ended
  <2>2. DOMAIN <<>> = {}
    OBVIOUS
  <2> QED BY <2>1, <2>2, ShortSeqs DEF IsActor
<1> HIDE DEF less
<1>4. /\ Actors' /\ \A x \in Queued' : x \in Queued
      /\ \A w, r : Tracked(w, r)' => Tracked(w, r)
  <2>1. CASE actors' = [actors EXCEPT ![i] = Ended]
    BY <1>0, <1>3, <2>1, LinkKeeps
  <2>2. CASE Done(i, actors[i].link, less, <<>>)
    BY <1>0, <1>1, <1>2, <2>2, DoneKeeps
  <2> QED BY <1>1, <2>1, <2>2
<1> QED BY <1>0, <1>1, <1>4, NoNews, MintFacts, CarriesOut

\* What a pane prints goes to each connection that is attached (server.rs:2263).
LEMMA DeltasAre ==
  ASSUME Actors, NEW r, NEW p
  PROVE  /\ IsSeq(Deltas(r, p)) /\ \A n \in DOMAIN Deltas(r, p) : Deltas(r, p)[n] = Delta(p)
         /\ \A x \in ToSet(Deltas(r, p)) : x = Delta(p)
         /\ Viewers(r) # {} => \E n \in DOMAIN Deltas(r, p) : TRUE
<1> DEFINE N == Cardinality(Viewers(r))
           list == Deltas(r, p)
<1>1. IsFiniteSet(Viewers(r))
  <2>1. DOMAIN actors = 1..Len(actors) /\ Len(actors) \in Nat
    BY SeqFacts DEF Actors
  <2>2. IsFiniteSet(DOMAIN actors) /\ Viewers(r) \subseteq DOMAIN actors
    BY <2>1, FS_Interval DEF Viewers
  <2> QED BY <2>2, FS_Subset
<1>2. N \in Nat /\ (Viewers(r) # {} => N # 0)
  BY <1>1, FS_CardinalityType, FS_EmptySet
<1>3. list = [n \in 1..N |-> Delta(p)]
  BY DEF Deltas
<1> HIDE DEF N, list
<1>4. list = [n \in 1..N |-> list[n]] /\ \A n \in 1..N : list[n] = Delta(p)
  BY <1>3
<1>5. IsSeq(list) /\ DOMAIN list = 1..N
  BY <1>2, <1>4, ListIsSeq
<1>6. \A x \in ToSet(list) : x = Delta(p)
  BY <1>4, <1>5 DEF ToSet
<1>7. Viewers(r) # {} => 1 \in DOMAIN list
  BY <1>2, <1>5
<1> QED BY <1>4, <1>5, <1>6, <1>7 DEF list

\* CreatePane and SplitPane (daemon_bridge.rs:869): the answer is for the workspace that asked.
LEMMA AddPaneSpreads ==
  ASSUME WindowInv, NEW i \in DOMAIN actors, AddPane(i)
  PROVE  Spreads
<1> DEFINE c == Head(actors[i].queue)
           p == Newest("terminals")
           e == Created(c, p)
           d == Delta(p)
           deltas == Deltas(c.runtime, p)
<1>0. Shape /\ InFlight
  BY DEF WindowInv
<1>1. PICK kind \in {"create", "split"}, early \in BOOLEAN :
        /\ life # "off" /\ actors[i].queue # <<>> /\ c.kind = kind
        /\ Mint("terminals") /\ Done(i, "up", actors[i].tracked, <<>>)
        /\ Emit(IF c.ws \in DOMAIN actors[i].tracked THEN i ELSE None, (IF early THEN deltas ELSE <<>>) \o <<e>>)
        /\ DOMAIN runtimes' = DOMAIN runtimes /\ UNCHANGED <<untouched, fate>>
  BY DEF AddPane, Takes
<1> DEFINE list == (IF early THEN deltas ELSE <<>>) \o <<e>>
           from == IF c.ws \in DOMAIN actors[i].tracked THEN i ELSE None
<1>2. Emit(from, list)
  BY <1>1
<1>3. p = minted.terminals + 1 /\ p # None
  <2>1. minted.terminals \in Nat
    BY <1>0 DEF Shape
  <2> QED BY <2>1 DEF Newest, None
<1>4. c.ws \in Issued \cup {None} /\ c.runtime \in Known \cup {None} /\ Awaited(c.ws, c.runtime)
  BY <1>0, <1>1, TakenIsCommand DEF Binding
<1>5. /\ IsRecord(e) /\ e.kind = "created" /\ e.ws = c.ws
      /\ e.runtime = c.runtime /\ e.pane = p /\ e.stock = <<>>
  BY EventsAre
<1>6. Plain(d) /\ d.ws = None
  BY EventsAre
<1>7. minted'.terminals \in Nat /\ minted' = [minted EXCEPT !.terminals = minted'.terminals]
  BY <1>0, <1>1, MintFacts
<1>8. DOMAIN runtimes' = DOMAIN runtimes /\ UNCHANGED <<untouched, fate>> /\ life # "off"
  BY <1>1
<1>9. /\ Actors' /\ \A x \in Queued' : x \in Queued
      /\ \A w, r : Tracked(w, r)' => Tracked(w, r)
  BY <1>0, <1>1, DoneKeeps
<1>deltas. IsSeq(deltas) /\ \A x \in ToSet(deltas) : x = d
  BY <1>0, DeltasAre DEF Shape
<1> HIDE DEF d, e, from, p, c, deltas
<1>10. IsSeq(list) /\ \A x \in ToSet(list) : x = d \/ x = e
  <2>1. /\ IsSeq(<<>>) /\ IsSeq(<<e>>)
        /\ ToSet(<<>>) = {} /\ ToSet(<<e>>) = {e}
    BY ShortSeqs
  <2>2. CASE early
    BY <1>deltas, <2>1, <2>2, ConcatIsSeq
  <2>3. CASE ~early
    BY <2>1, <2>3, ConcatIsSeq
  <2> QED BY <2>2, <2>3
<1> HIDE DEF list
<1>11. IsRecord(d) /\ News(d)
  BY <1>6, PlainIsNews
<1>12. Known \subseteq Known'
  BY <1>0, <1>7, SameNumbers
<1>13. News(e)
  <2>1. DOMAIN <<>> = {}
    OBVIOUS
  <2> QED BY <1>3, <1>4, <1>5, <1>12, <2>1 DEF News, Bindable
<1>14. \E more : /\ IsSeq(more) /\ events' = events \o more
                 /\ life # "up" => more = <<>>
                 /\ \A x \in ToSet(more) : News(x)
  BY <1>0, <1>2, <1>5, <1>10, <1>11, <1>13, EmitsNews
<1> QED BY <1>0, <1>7, <1>8, <1>9, <1>14, CarriesOut

\* A pane prints: a delta names no workspace.
LEMMA DaemonPrintsSpreads ==
  ASSUME WindowInv, NEW r, NEW p, DaemonPrints(r, p)
  PROVE  Spreads
<1> DEFINE list == Deltas(r, p)
<1>0. Shape
  BY DEF WindowInv
<1>1. /\ Emit(None, list) /\ actors' = actors /\ runtimes' = runtimes
      /\ UNCHANGED <<untouched, minted, fate>>
  BY DEF DaemonPrints
<1>2. IsSeq(list) /\ \A x \in ToSet(list) : x = Delta(p)
  BY <1>0, DeltasAre DEF Shape
<1> HIDE DEF list
<1>3. Plain(Delta(p)) /\ Delta(p).ws = None
  BY EventsAre
<1>4. \A x \in ToSet(list) : IsRecord(x) /\ News(x)
  BY <1>2, <1>3, PlainIsNews
<1>5. /\ Actors' /\ \A x \in Queued' : x \in Queued
      /\ \A w, q : Tracked(w, q)' => Tracked(w, q)
  BY <1>0, <1>1, ActorsStay DEF Shape
<1>6. \E more : /\ IsSeq(more) /\ events' = events \o more
                /\ life # "up" => more = <<>>
                /\ \A x \in ToSet(more) : News(x)
  BY <1>0, <1>1, <1>2, <1>4, EmitsNews
<1> QED BY <1>0, <1>1, <1>5, <1>6, MintFacts, CarriesOut

\* What an actor tracks, or part of it, is listed in the order of the numbers of the workspaces.
LEMMA TrackedInOrder ==
  ASSUME Shape, InFlight, NEW i \in DOMAIN actors, NEW ws \in SUBSET DOMAIN actors[i].tracked
  PROVE  LET order == Ordered(ws)
         IN /\ Len(order) \in Nat /\ DOMAIN order = 1..Len(order)
            /\ \A n \in DOMAIN order : order[n] \in ws
            /\ \A w \in ws : \E n \in DOMAIN order : order[n] = w
<1> DEFINE bound == MaxWorkspaces + MaxRuntimes
<1>1. bound \in Nat
  BY Numbers
<1>2. ws \subseteq Issued \cup {None}
  BY DEF InFlight
<1>3. ws \in SUBSET Nat /\ \A w \in ws : w <= bound
  BY <1>2, KnownNumbers
<1> HIDE DEF bound
<1>4. /\ DOMAIN Ordered(ws) = 1..Len(Ordered(ws)) /\ Len(Ordered(ws)) \in Nat
      /\ \A n \in DOMAIN Ordered(ws) : Ordered(ws)[n] \in ws
      /\ \A w \in ws : \E n \in DOMAIN Ordered(ws) : Ordered(ws)[n] = w
  BY <1>1, <1>3, OrderedIsSeq
<1> QED BY <1>4

\* handle_disconnect (daemon_bridge.rs:1993) tells every tracked workspace that it waits.
LEMMA LostAre ==
  ASSUME Shape, InFlight, NEW i \in DOMAIN actors
  PROVE  /\ IsSeq(Lost(i))
         /\ \A n \in DOMAIN Lost(i) : \E w \in DOMAIN actors[i].tracked : Lost(i)[n] = Changed(w, "waiting")
<1> DEFINE order == Ordered(DOMAIN actors[i].tracked)
           list == Lost(i)
<1>1. /\ Len(order) \in Nat /\ DOMAIN order = 1..Len(order)
      /\ \A n \in DOMAIN order : order[n] \in DOMAIN actors[i].tracked
  BY TrackedInOrder
<1>2. list = [n \in DOMAIN order |-> Changed(order[n], "waiting")]
  BY DEF Lost
<1> HIDE DEF order, list
<1>3. list = [n \in 1..Len(order) |-> list[n]] /\ \A n \in 1..Len(order) : list[n] = Changed(order[n], "waiting")
  BY <1>1, <1>2
<1>4. IsSeq(list) /\ DOMAIN list = 1..Len(order)
  BY <1>1, <1>3, ListIsSeq
<1>5. \A n \in DOMAIN list : \E w \in DOMAIN actors[i].tracked : list[n] = Changed(w, "waiting")
  BY <1>1, <1>3, <1>4
<1> QED BY <1>4, <1>5 DEF list

\* The answer to the attach of a workspace that is tracked in r (daemon_bridge.rs:1397).
IsReply(e, w, r, refused) ==
  IF r \in DOMAIN runtimes /\ w \notin refused THEN e = Opened(w, r, runtimes[r], "live")
  ELSE e \in {Changed(w, "missing"), Changed(w, "blocked")}

\* Each workspace gets its answer, and there is no other.
LEMMA RepliesAre ==
  ASSUME Shape, InFlight, NEW i \in DOMAIN actors, NEW ws \in SUBSET DOMAIN actors[i].tracked, NEW refused
  PROVE  LET list == Replies(i, ws, refused)
             tracked == actors[i].tracked
         IN /\ IsSeq(list)
            /\ \A n \in DOMAIN list : \E w \in ws : IsReply(list[n], w, tracked[w], refused)
            /\ \A w \in ws : \E n \in DOMAIN list : IsReply(list[n], w, tracked[w], refused)
<1> DEFINE tracked == actors[i].tracked
           order == Ordered(ws)
           Answer(w) == IF tracked[w] \notin DOMAIN runtimes THEN Changed(w, "missing")
                        ELSE IF w \in refused THEN Changed(w, "blocked")
                             ELSE Opened(w, tracked[w], runtimes[tracked[w]], "live")
           list == Replies(i, ws, refused)
<1>1. /\ Len(order) \in Nat /\ DOMAIN order = 1..Len(order)
      /\ \A n \in DOMAIN order : order[n] \in ws
      /\ \A w \in ws : \E n \in DOMAIN order : order[n] = w
  BY TrackedInOrder
<1>2. list = [n \in DOMAIN order |-> Answer(order[n])]
  BY DEF Replies
<1>3. ASSUME NEW w PROVE IsReply(Answer(w), w, tracked[w], refused)
  BY DEF IsReply
<1> HIDE DEF order, list, Answer, tracked
<1>4. list = [n \in 1..Len(order) |-> list[n]] /\ \A n \in 1..Len(order) : list[n] = Answer(order[n])
  BY <1>1, <1>2
<1>5. IsSeq(list) /\ DOMAIN list = 1..Len(order)
  BY <1>1, <1>4, ListIsSeq
<1>6. ASSUME NEW n \in DOMAIN list PROVE order[n] \in ws /\ IsReply(list[n], order[n], tracked[order[n]], refused)
  BY <1>1, <1>3, <1>4, <1>5
<1>7. ASSUME NEW w \in ws PROVE \E n \in DOMAIN list : IsReply(list[n], w, tracked[w], refused)
  BY <1>1, <1>5, <1>6
<1> QED BY <1>5, <1>6, <1>7 DEF list, tracked

\* An answer tells of the runtime the workspace is tracked in.
LEMMA RepliesAreNews ==
  ASSUME Shape, InFlight, NEW i \in DOMAIN actors, NEW ws \in SUBSET DOMAIN actors[i].tracked, NEW refused,
         minted' = minted
  PROVE  /\ IsSeq(Replies(i, ws, refused))
         /\ \A x \in ToSet(Replies(i, ws, refused)) : IsRecord(x) /\ News(x)
<1> DEFINE tracked == actors[i].tracked
           list == Replies(i, ws, refused)
<1>1. IsSeq(list) /\ \A n \in DOMAIN list : \E w \in ws : IsReply(list[n], w, tracked[w], refused)
  BY RepliesAre
<1> HIDE DEF list
<1>2. ASSUME NEW x, NEW w \in ws, IsReply(x, w, tracked[w], refused) PROVE IsRecord(x) /\ News(x)
  <2>1. w \in Issued \cup {None} /\ tracked[w] \in Known
    BY DEF InFlight
  <2>2. Awaited(w, tracked[w])
    BY AwaitedMeans DEF Tracked
  <2>3. CASE x = Opened(w, tracked[w], runtimes[tracked[w]], "live")
    <3>1. IsRecord(x) /\ x.kind = "opened" /\ x.ws = w /\ x.runtime = tracked[w] /\ x.stock = <<>>
      BY <2>3, EventsAre
    <3>2. DOMAIN <<>> = {} /\ Known' = Known
      BY MintFacts, SameNumbers
    <3> QED BY <2>1, <2>2, <3>1, <3>2 DEF News, Bindable
  <2>4. CASE x \in {Changed(w, "missing"), Changed(w, "blocked")}
    <3>1. Plain(x) /\ x.ws = w
      BY <2>4, EventsAre
    <3> QED BY <2>1, <3>1, PlainIsNews
  <2> QED BY <1>2, <2>3, <2>4 DEF IsReply
<1>3. \A x \in ToSet(list) : IsRecord(x) /\ News(x)
  <2> SUFFICES ASSUME NEW x \in ToSet(list) PROVE IsRecord(x) /\ News(x)
    OBVIOUS
  <2>1. PICK n \in DOMAIN list : list[n] = x
    BY <1>1, SeqFacts
  <2> QED BY <1>1, <1>2, <2>1
<1> QED BY <1>1, <1>3 DEF list

\* An actor with another link has what it had.
LEMMA LinkChanges ==
  ASSUME Shape, NEW i \in DOMAIN actors, NEW link, actors' = [actors EXCEPT ![i].link = link]
  PROVE  /\ Actors' /\ \A c \in Queued' : c \in Queued
         /\ \A w, r : Tracked(w, r)' => Tracked(w, r)
<1> DEFINE a == [actors[i] EXCEPT !.link = link]
<1>1. IsActor(actors[i])
  BY DEF Shape, Actors
<1>2. a.queue = actors[i].queue /\ a.tracked = actors[i].tracked /\ DOMAIN a = DOMAIN actors[i]
  BY <1>1 DEF IsActor
<1>3. IsActor(a) /\ actors' = [actors EXCEPT ![i] = a]
  BY <1>1, <1>2 DEF IsActor
<1> HIDE DEF a
<1> QED BY <1>2, <1>3, LinkKeeps

\* That a workspace waits is no news of its runtime.
LEMMA LostAreNews ==
  ASSUME Shape, InFlight, NEW i \in DOMAIN actors
  PROVE  IsSeq(Lost(i)) /\ \A x \in ToSet(Lost(i)) : IsRecord(x) /\ News(x)
<1> DEFINE list == Lost(i)
<1>1. /\ IsSeq(list)
      /\ \A n \in DOMAIN list : \E w \in DOMAIN actors[i].tracked : list[n] = Changed(w, "waiting")
  BY LostAre
<1> HIDE DEF list
<1>2. ASSUME NEW x \in ToSet(list) PROVE IsRecord(x) /\ News(x)
  <2>1. PICK w \in DOMAIN actors[i].tracked : x = Changed(w, "waiting")
    BY <1>1, SeqFacts
  <2>2. Plain(x) /\ x.ws = w
    BY <2>1, EventsAre
  <2>3. w \in Issued \cup {None}
    BY DEF InFlight
  <2> QED BY <2>2, <2>3, PlainIsNews
<1> QED BY <1>1, <1>2 DEF list

\* handle_disconnect (daemon_bridge.rs:1993): nothing is told but that.
LEMMA LinkLostSpreads ==
  ASSUME WindowInv, NEW i \in DOMAIN actors, LinkLost(i)
  PROVE  Spreads
<1>0. Shape /\ InFlight
  BY DEF WindowInv
<1>1. PICK link : /\ life # "off" /\ actors' = [actors EXCEPT ![i].link = link] /\ Emit(i, Lost(i))
                  /\ UNCHANGED <<untouched, minted, fate>> /\ runtimes' = runtimes
  BY DEF LinkLost
<1>2. /\ Actors' /\ \A x \in Queued' : x \in Queued
      /\ \A w, q : Tracked(w, q)' => Tracked(w, q)
  BY <1>0, <1>1, LinkChanges
<1>3. \E more : /\ IsSeq(more) /\ events' = events \o more
                /\ life # "up" => more = <<>>
                /\ \A x \in ToSet(more) : News(x)
  BY <1>0, <1>1, LostAreNews, EmitsNews
<1> QED BY <1>0, <1>1, <1>2, <1>3, MintFacts, CarriesOut

\* A reattach (daemon_bridge.rs:1383) answers every tracked workspace with the runtime it is tracked in.
LEMMA ReattachSpreads ==
  ASSUME WindowInv, NEW i \in DOMAIN actors, Reattach(i)
  PROVE  Spreads
<1> DEFINE tracked == DOMAIN actors[i].tracked
<1>0. Shape /\ InFlight
  BY DEF WindowInv
<1>1. PICK refused : /\ life # "off" /\ actors' = [actors EXCEPT ![i].link = "up"]
                     /\ Emit(i, Replies(i, tracked, refused))
                     /\ UNCHANGED <<untouched, minted, fate>> /\ runtimes' = runtimes
  BY DEF Reattach
<1>2. /\ Actors' /\ \A x \in Queued' : x \in Queued
      /\ \A w, q : Tracked(w, q)' => Tracked(w, q)
  BY <1>0, <1>1, LinkChanges
<1>3. \E more : /\ IsSeq(more) /\ events' = events \o more
                /\ life # "up" => more = <<>>
                /\ \A x \in ToSet(more) : News(x)
  BY <1>0, <1>1, RepliesAreNews, EmitsNews
<1> QED BY <1>0, <1>1, <1>2, <1>3, MintFacts, CarriesOut

\* A reattach that fails (daemon_bridge.rs:1429) has answered some, and tells all that they wait.
LEMMA ReattachFailsSpreads ==
  ASSUME WindowInv, NEW i \in DOMAIN actors, ReattachFails(i)
  PROVE  Spreads
<1> DEFINE lost == Lost(i)
<1>0. Shape /\ InFlight
  BY DEF WindowInv
<1>1. PICK answered \in SUBSET DOMAIN actors[i].tracked, refused \in SUBSET There(i) :
        /\ Emit(i, Replies(i, answered, refused) \o lost)
        /\ UNCHANGED <<untouched, actors, minted, fate>> /\ runtimes' = runtimes
  BY DEF ReattachFails
<1> DEFINE replies == Replies(i, answered, refused)
           list == replies \o lost
<1>2. /\ IsSeq(replies) /\ \A x \in ToSet(replies) : IsRecord(x) /\ News(x)
      /\ IsSeq(lost) /\ \A x \in ToSet(lost) : IsRecord(x) /\ News(x)
  BY <1>0, <1>1, RepliesAreNews, LostAreNews
<1>3. Emit(i, list)
  BY <1>1
<1> HIDE DEF replies, lost
<1>4. IsSeq(list) /\ ToSet(list) = ToSet(replies) \cup ToSet(lost)
  BY <1>2, ConcatIsSeq
<1> HIDE DEF list
<1>5. /\ Actors' /\ \A x \in Queued' : x \in Queued
      /\ \A w, q : Tracked(w, q)' => Tracked(w, q)
  BY <1>0, <1>1, ActorsStay DEF Shape
<1>6. \E more : /\ IsSeq(more) /\ events' = events \o more
                /\ life # "up" => more = <<>>
                /\ \A x \in ToSet(more) : News(x)
  BY <1>0, <1>2, <1>3, <1>4, EmitsNews
<1> QED BY <1>0, <1>1, <1>5, <1>6, MintFacts, CarriesOut

\* A runtime is opened, or created and opened, and gets its first pane if it has none.
LEMMA OpensOne ==
  ASSUME Shape, InFlight, NEW i \in DOMAIN actors, actors[i].queue # <<>>, NEW c, NEW r, NEW leaves, NEW status,
         c = Head(actors[i].queue), Bindable(c.ws, r), r # None, r \in Known',
         NEW first, first = <<>> \/ first = <<Command("create", c.ws, r, None, c.at)>>,
         Done(i, "up", With(actors[i].tracked, c.ws, r), first),
         Emit(i, <<Opened(c.ws, r, leaves, status)>>)
  PROVE  /\ Actors'
         /\ \A x \in Queued' : x \in Queued \/ (x.kind = "create" /\ Bindable(x.ws, x.runtime))
         /\ \A w, q : Tracked(w, q)' => Tracked(w, q) \/ (q # None /\ Bindable(w, q))
         /\ \E more : /\ IsSeq(more) /\ events' = events \o more
                      /\ life # "up" => more = <<>>
                      /\ \A x \in ToSet(more) : News(x)
<1> DEFINE follow == Command("create", c.ws, r, None, c.at)
           tracked == With(actors[i].tracked, c.ws, r)
           e == Opened(c.ws, r, leaves, status)
<1>1. follow.kind = "create" /\ follow.ws = c.ws /\ follow.runtime = r
  BY DEF Command
<1>2. ASSUME NEW w \in DOMAIN tracked
      PROVE  \/ w = c.ws /\ tracked[w] = r
             \/ w \in DOMAIN actors[i].tracked /\ tracked[w] = actors[i].tracked[w]
  <2> DEFINE f == actors[i].tracked
             x == c.ws
  <2>1. tracked = [z \in DOMAIN f \cup {x} |-> IF z = x THEN r ELSE f[z]]
    BY DEF With
  <2> HIDE DEF tracked, f, x
  <2>2. w \in DOMAIN f \cup {x} /\ tracked[w] = IF w = x THEN r ELSE f[w]
    BY <2>1
  <2>3. \/ w = x /\ tracked[w] = r
        \/ w \in DOMAIN f /\ tracked[w] = f[w]
    BY <2>2
  <2> QED BY <2>3 DEF f, x
<1>3. IsRecord(e) /\ e.kind = "opened" /\ e.ws = c.ws /\ e.runtime = r /\ e.stock = <<>>
  BY EventsAre
<1>4. c.ws \in Issued \cup {None}
  BY TakenIsCommand
<1> HIDE DEF follow, tracked, e
<1>5. IsSeq(first) /\ \A x \in ToSet(first) : x = follow
  BY ShortSeqs DEF follow
<1>6. /\ Actors'
      /\ \A x \in Queued' : x \in Queued \/ x \in ToSet(first)
      /\ \A w, q : Tracked(w, q)' => Tracked(w, q) \/ (w \in DOMAIN tracked /\ tracked[w] = q)
  <2>1. Done(i, "up", tracked, first)
    BY DEF tracked
  <2> QED BY <1>5, <2>1, DoneAdds DEF Shape
<1>7. ASSUME NEW w, NEW q, w \in DOMAIN tracked, tracked[w] = q
      PROVE  Tracked(w, q) \/ (q # None /\ Bindable(w, q))
  <2>1. CASE w = c.ws /\ r = q
    BY <2>1
  <2>2. CASE w \in DOMAIN actors[i].tracked /\ tracked[w] = actors[i].tracked[w]
    BY <1>7, <2>2 DEF Tracked
  <2> QED BY <1>2, <1>7, <2>1, <2>2
<1>8. News(e)
  <2>1. DOMAIN <<>> = {}
    OBVIOUS
  <2> QED BY <1>3, <1>4, <2>1 DEF News
<1>9. \E more : /\ IsSeq(more) /\ events' = events \o more
                /\ life # "up" => more = <<>>
                /\ \A x \in ToSet(more) : News(x)
  BY <1>3, <1>8, EmitsOne DEF e
<1> QED BY <1>1, <1>5, <1>6, <1>7, <1>9

\* OpenWorkspace (daemon_bridge.rs:776): a runtime that is created has a new number, and if its workspace was
\* closed meanwhile, the client could not dismiss it (forgiven).
LEMMA OpenRuntimeSpreads ==
  ASSUME WindowInv, NEW i \in DOMAIN actors, OpenRuntime(i)
  PROVE  Spreads
<1> DEFINE c == Head(actors[i].queue)
           created == c.runtime = None
           r == IF created THEN Newest("runtimes") ELSE c.runtime
           leaves == IF created THEN <<>> ELSE runtimes[r]
           first == IF leaves = <<>> THEN <<Command("create", c.ws, r, None, c.at)>> ELSE <<>>
           status == IF leaves # <<>> \/ actors[i].link = "none" THEN "live" ELSE ""
           mine == IF c.ws \in ended THEN {r} ELSE {}
<1>0. Shape /\ InFlight
  BY DEF WindowInv
<1>1. /\ life # "off" /\ actors[i].queue # <<>> /\ c.kind = "open"
      /\ Done(i, "up", With(actors[i].tracked, c.ws, r), first)
      /\ Emit(i, <<Opened(c.ws, r, leaves, status)>>)
      /\ UNCHANGED untouched
  BY DEF OpenRuntime, Takes
<1>2. /\ c.ws \in Issued \cup {None} /\ c.runtime \in Known \cup {None}
      /\ Own(c.ws, c.runtime) /\ Awaited(c.ws, c.runtime)
  BY <1>0, <1>1, TakenIsCommand DEF Binding
<1>3. first = <<>> \/ first = <<Command("create", c.ws, r, None, c.at)>>
  OBVIOUS
<1>4. UNCHANGED <<life, workspaces, dismissed, offer, saved>>
  BY <1>1 DEF untouched, screen, aside, dialog
<1>5. minted \in [workspaces : 0..MaxWorkspaces, runtimes : 0..MaxRuntimes, terminals : Nat]
  BY <1>0 DEF Shape
<1>6. /\ UNCHANGED <<unsaved, crashed>> /\ r # None /\ r \in Known' /\ Bindable(c.ws, r)
      /\ minted' \in [workspaces : {minted.workspaces}, runtimes : minted.runtimes..MaxRuntimes, terminals : Nat]
      /\ DOMAIN runtimes' \subseteq DOMAIN runtimes \cup New
      /\ DOMAIN owner' \subseteq DOMAIN owner \cup New
      /\ closed' \subseteq closed \cup (New \cap forgiven') /\ forgiven \subseteq forgiven'
  <2>1. CASE created
    <3>1. r = minted.runtimes + 1
      BY <2>1 DEF Newest
    <3>2. /\ Mint("runtimes") /\ runtimes' = With(runtimes, r, <<>>) /\ owner' = With(owner, r, c.ws)
          /\ closed' = closed \cup mine /\ forgiven' = forgiven \cup mine
          /\ UNCHANGED <<unsaved, crashed>>
      BY <2>1 DEF OpenRuntime
    <3> HIDE DEF c, leaves, r
    <3>3. minted.runtimes < MaxRuntimes /\ minted' = [minted EXCEPT !["runtimes"] = @ + 1]
      BY <3>2 DEF Mint
    <3>4. /\ minted' \in [workspaces : {minted.workspaces}, runtimes : minted.runtimes..MaxRuntimes, terminals : Nat]
          /\ minted'.runtimes = r
      BY <1>5, <3>1, <3>3, Numbers
    <3>5. r \in New /\ r \in Known' /\ r # None
      BY <1>5, <3>1, <3>4 DEF New, Known, None
    <3>6. Own(c.ws, r)
      <4>1. c.ws \in Nat /\ MaxWorkspaces \in Nat
        BY <1>0, <1>2, KnownNumbers, Numbers
      <4>2. ~(c.ws > MaxWorkspaces)
        BY <1>2, <2>1, <4>1 DEF Own, None
      <4> QED BY <4>2 DEF Own
    <3>7. Bindable(c.ws, r)
      BY <1>2, <3>5, <3>6 DEF Bindable
    <3>8. DOMAIN runtimes' \subseteq DOMAIN runtimes \cup New /\ DOMAIN owner' \subseteq DOMAIN owner \cup New
      BY <3>2, <3>5 DEF With
    <3>9. mine \subseteq New
      BY <3>5
    <3> HIDE DEF mine
    <3> QED BY <3>2, <3>4, <3>5, <3>7, <3>8, <3>9
  <2>2. CASE ~created
    <3>1. UNCHANGED <<minted, runtimes, fate>> /\ r = c.runtime
      BY <2>2 DEF OpenRuntime
    <3> HIDE DEF c, leaves, r
    <3>2. minted' \in [workspaces : {minted.workspaces}, runtimes : minted.runtimes..MaxRuntimes, terminals : Nat]
      BY <1>5, <3>1, Numbers
    <3>3. Known' = Known
      BY <3>1 DEF Known
    <3>4. Bindable(c.ws, r) /\ r # None /\ r \in Known'
      BY <1>2, <2>2, <3>1, <3>3 DEF Bindable
    <3> QED BY <3>1, <3>2, <3>4 DEF fate
  <2> QED BY <2>1, <2>2
<1> DEFINE d == c
<1>7. d = Head(actors[i].queue)
  OBVIOUS
<1> HIDE DEF c, r, first, leaves, status, mine
<1>8. /\ Actors'
      /\ \A x \in Queued' : x \in Queued \/ (x.kind = "create" /\ Bindable(x.ws, x.runtime))
      /\ \A w, q : Tracked(w, q)' => Tracked(w, q) \/ (q # None /\ Bindable(w, q))
      /\ \E more : /\ IsSeq(more) /\ events' = events \o more
                   /\ life # "up" => more = <<>>
                   /\ \A x \in ToSet(more) : News(x)
  BY <1>0, <1>1, <1>3, <1>6, <1>7, OpensOne
<1> QED BY <1>1, <1>4, <1>6, <1>8 DEF Spreads

\* Every step of an actor or of the daemon is one of those.
LEMMA EndpointActsSpread ==
  ASSUME WindowInv, EndpointActs
  PROVE  Spreads
BY OpenRuntimeSpreads, AddPaneSpreads, RemovePaneSpreads, LeaveRuntimeSpreads, CommandRefusedSpreads,
   ForgetOrShutdownSpreads, RefreshInventorySpreads, NoDaemonSpreads, LinkLostSpreads, ReattachSpreads,
   ReattachFailsSpreads, DaemonPrintsSpreads
   DEF EndpointActs

-----------------------------------------------------------------------------
(* What the poller does is reading.                                         *)

\* The poller takes an event: it is gone, and nothing else of the daemon or the history is touched.
LEMMA PollFacts ==
  ASSUME Shape, NEW kind, Polls(kind)
  PROVE  /\ life = "up" /\ events # <<>> /\ events' = Tail(events)
         /\ Polling = Head(events) /\ Polling.kind = kind /\ Polling \in Sent
BY PollsTakes DEF Shape

\* A change of status leaves a workspace where it is.
LEMMA ToldKeeps ==
  ASSUME NEW ws, NEW e, \A w \in DOMAIN ws : IsWorkspace(ws[w])
  PROVE  /\ DOMAIN Told(ws, e) = DOMAIN ws
         /\ \A w \in DOMAIN ws : /\ IsWorkspace(Told(ws, e)[w])
                                 /\ Told(ws, e)[w].runtime = ws[w].runtime
                                 /\ Told(ws, e)[w].layout = ws[w].layout
                                 /\ Told(ws, e)[w].zoom = ws[w].zoom
BY DEF Told, IsWorkspace

\* A step of the poller that recovers nothing.
LEMMA ReadsOf ==
  ASSUME Shape, NEW kind, Polls(kind), NEW e, e = Polling,
         UNCHANGED <<life, dismissed, offer, actors, daemon, minted, owner, closed, crashed, forgiven>>,
         \A w \in DOMAIN workspaces' :
           /\ w \in DOMAIN workspaces /\ IsWorkspace(workspaces'[w])
           /\ \/ workspaces'[w].runtime = workspaces[w].runtime
              \/ w = e.ws /\ kind \in Answers /\ workspaces'[w].runtime = e.runtime
              \/ w = e.ws /\ kind = "terminated" /\ workspaces'[w].runtime = None,
         Wrote \/ UNCHANGED <<saved, unsaved>>
  PROVE  Reads
<1>1. /\ life = "up" /\ events # <<>> /\ events' = Tail(events) /\ e = Head(events) /\ e.kind = kind
  BY PollFacts
<1>2. Actors' /\ Queued' = Queued /\ \A w, r : Tracked(w, r)' => Tracked(w, r)
  BY ActorsStay DEF Shape
<1>3. minted' \in [workspaces : {minted.workspaces}, runtimes : {minted.runtimes}, terminals : Nat]
  BY DEF Shape
<1>4. \A w \in DOMAIN workspaces' : Binds(e, w)
  BY <1>1 DEF Binds
<1> QED BY <1>1, <1>2, <1>3, <1>4 DEF Reads, daemon

\* apply_managed_workspace_opened (workspace_state.rs:469) binds the workspace the answer names.
LEMMA WorkspaceOpenedReads ==
  ASSUME WindowInv, WorkspaceOpened
  PROVE  Reads
<1> DEFINE e == Polling
           ws == [workspaces EXCEPT ![e.ws] = Adopted(@, e)]
<1>0. Shape
  BY DEF WindowInv
<1>1. /\ Polls("opened")
      /\ UNCHANGED <<life, dismissed, offer, actors, daemon, minted, owner, closed, crashed, forgiven>>
  BY DEF WorkspaceOpened, dialog
<1>2. CASE e.ws \in DOMAIN workspaces
  <2>1. workspaces' = Told(ws, e) /\ Save(ws, direct, dismissed)
    BY <1>2 DEF WorkspaceOpened
  <2>2. /\ DOMAIN ws = DOMAIN workspaces
        /\ \A w \in DOMAIN ws : IsWorkspace(ws[w])
        /\ ws[e.ws].runtime = e.runtime
        /\ \A w \in DOMAIN ws : w # e.ws => ws[w] = workspaces[w]
    BY <1>0, <1>2 DEF Shape, IsWorkspace, Adopted
  <2> HIDE DEF ws, e
  <2>3. /\ DOMAIN workspaces' = DOMAIN ws
        /\ \A w \in DOMAIN ws : IsWorkspace(workspaces'[w]) /\ workspaces'[w].runtime = ws[w].runtime
    BY <2>1, <2>2, ToldKeeps
  <2>4. Wrote \/ UNCHANGED <<saved, unsaved>>
    BY <1>1, <2>1, <2>3, SaveWrites
  <2> QED BY <1>0, <1>1, <2>2, <2>3, <2>4, ReadsOf DEF Answers, e
<1>3. CASE e.ws \notin DOMAIN workspaces
  <2>1. UNCHANGED <<workspaces, saved, unsaved>>
    BY <1>3 DEF WorkspaceOpened
  <2> QED BY <1>0, <1>1, <2>1, ReadsOf DEF Shape
<1> QED BY <1>2, <1>3

\* apply_managed_pane_created (workspace_state.rs:423) binds it too.
LEMMA PaneCreatedReads ==
  ASSUME WindowInv, PaneCreated
  PROVE  Reads
<1> DEFINE e == Polling
           known == e.ws \in DOMAIN workspaces /\ e.at \in ToSet(workspaces[e.ws].layout)
           Renamed(t) == IF t = e.at THEN e.pane ELSE t
           ws == [workspaces EXCEPT ![e.ws].runtime = e.runtime, ![e.ws].zoom = Renamed(@),
                                    ![e.ws].layout = RenameLeaf(@, e.at, e.pane)]
<1>0. Shape
  BY DEF WindowInv
<1>1. /\ Polls("created")
      /\ UNCHANGED <<life, dismissed, offer, saved, unsaved, actors, daemon, minted, owner, closed, crashed, forgiven>>
  BY DEF PaneCreated, dialog, fate
<1>2. CASE known
  <2>1. workspaces' = Told(ws, e)
    BY <1>2 DEF PaneCreated, DrawWithout
  <2>2. /\ DOMAIN ws = DOMAIN workspaces
        /\ \A w \in DOMAIN ws : IsWorkspace(ws[w])
        /\ ws[e.ws].runtime = e.runtime
        /\ \A w \in DOMAIN ws : w # e.ws => ws[w] = workspaces[w]
    BY <1>0, <1>2 DEF Shape, IsWorkspace
  <2> HIDE DEF ws, e
  <2>3. /\ DOMAIN workspaces' = DOMAIN ws
        /\ \A w \in DOMAIN ws : IsWorkspace(workspaces'[w]) /\ workspaces'[w].runtime = ws[w].runtime
    BY <2>1, <2>2, ToldKeeps
  <2> QED BY <1>0, <1>1, <2>2, <2>3, ReadsOf DEF Answers, e
<1>3. CASE ~known
  <2>1. workspaces' = Told(workspaces, e)
    BY <1>3 DEF PaneCreated
  <2>2. \A w \in DOMAIN workspaces : IsWorkspace(workspaces[w])
    BY <1>0 DEF Shape
  <2> HIDE DEF e
  <2>3. /\ DOMAIN workspaces' = DOMAIN workspaces
        /\ \A w \in DOMAIN workspaces : IsWorkspace(workspaces'[w]) /\ workspaces'[w].runtime = workspaces[w].runtime
    BY <2>1, <2>2, ToldKeeps
  <2> QED BY <1>0, <1>1, <2>3, ReadsOf
<1> QED BY <1>2, <1>3

\* apply_managed_pane_closed changes a layout.
LEMMA PaneClosedReads ==
  ASSUME WindowInv, PaneClosed
  PROVE  Reads
<1> DEFINE e == Polling
           ws == [workspaces EXCEPT ![e.ws].layout = RemoveLeaf(@, e.at)]
<1>0. Shape
  BY DEF WindowInv
<1>1. /\ Polls("closed")
      /\ UNCHANGED <<life, dismissed, offer, saved, unsaved, actors, daemon, minted, owner, closed, crashed, forgiven>>
      /\ workspaces' = ws \/ workspaces' = workspaces
  BY DEF PaneClosed, DrawWithout, aside, dialog, fate
<1>2. /\ DOMAIN ws = DOMAIN workspaces
      /\ \A w \in DOMAIN ws : IsWorkspace(ws[w]) /\ ws[w].runtime = workspaces[w].runtime
  BY <1>0 DEF Shape, IsWorkspace
<1>3. \A w \in DOMAIN workspaces : IsWorkspace(workspaces[w])
  BY <1>0 DEF Shape
<1> HIDE DEF ws
<1> QED BY <1>0, <1>1, <1>2, <1>3, ReadsOf

\* set_workspace_connection_status (window/runtime.rs:1126); the end of a runtime unbinds its workspace.
LEMMA StatusChangedReads ==
  ASSUME WindowInv, StatusChanged
  PROVE  Reads
<1> DEFINE e == Polling
           ws == [workspaces EXCEPT ![e.ws].runtime = None, ![e.ws].status = e.status]
<1>0. Shape
  BY DEF WindowInv
<1>1. PICK kind \in {"status", "detached", "terminated"} :
        /\ Polls(kind)
        /\ UNCHANGED <<life, dismissed, offer, saved, unsaved, actors, daemon, minted, owner, closed, crashed, forgiven>>
        /\ workspaces' = IF kind = "terminated" /\ e.ws \in DOMAIN workspaces THEN ws ELSE Told(workspaces, e)
  BY DEF StatusChanged, dialog, fate
<1>2. \A w \in DOMAIN workspaces : IsWorkspace(workspaces[w])
  BY <1>0 DEF Shape
<1>3. CASE kind = "terminated" /\ e.ws \in DOMAIN workspaces
  <2>1. /\ DOMAIN ws = DOMAIN workspaces /\ ws[e.ws].runtime = None
        /\ \A w \in DOMAIN ws : IsWorkspace(ws[w]) /\ (w # e.ws => ws[w].runtime = workspaces[w].runtime)
    BY <1>2, <1>3 DEF IsWorkspace
  <2>2. workspaces' = ws
    BY <1>1, <1>3
  <2> HIDE DEF ws
  <2> QED BY <1>0, <1>1, <1>3, <2>1, <2>2, ReadsOf
<1>4. CASE ~(kind = "terminated" /\ e.ws \in DOMAIN workspaces)
  <2>1. workspaces' = Told(workspaces, e)
    BY <1>1, <1>4
  <2> HIDE DEF e
  <2>2. /\ DOMAIN workspaces' = DOMAIN workspaces
        /\ \A w \in DOMAIN workspaces : IsWorkspace(workspaces'[w]) /\ workspaces'[w].runtime = workspaces[w].runtime
    BY <1>2, <2>1, ToldKeeps
  <2> QED BY <1>0, <1>1, <2>2, ReadsOf
<1> QED BY <1>3, <1>4

\* feed_coalesced_deltas (window/runtime.rs:804) changes no workspace.
LEMMA OutputDeltaReads ==
  ASSUME WindowInv, OutputDelta
  PROVE  Reads
<1>0. Shape
  BY DEF WindowInv
<1>1. /\ Polls("delta") /\ workspaces' = workspaces
      /\ UNCHANGED <<life, dismissed, offer, saved, unsaved, actors, daemon, minted, owner, closed, crashed, forgiven>>
  BY DEF OutputDelta, aside, dialog, fate
<1> QED BY <1>0, <1>1, ReadsOf DEF Shape

\* recover_managed_workspaces_from_inventory (workspace_state.rs:302): a workspace for every runtime that is
\* neither shown nor dismissed, and what is dismissed and not listed is dropped.
LEMMA InventoryLoadedReads ==
  ASSUME WindowInv, InventoryLoaded
  PROVE  Reads
<1> DEFINE e == Polling
           kept == dismissed \cap DOMAIN e.stock
           found == Recoverable(workspaces, e.stock, kept)
           treeless == {r \in found : e.stock[r] = <<>>}
           n == Cardinality(treeless)
           Leaf(r) == minted.terminals + Cardinality({q \in treeless : q <= r})
           Layout(r) == IF r \in treeless THEN <<Leaf(r)>> ELSE e.stock[r]
           back == {Recovered(r) : r \in found}
           ws == [w \in back \cup DOMAIN workspaces |->
                    IF w \in back THEN Workspace(Layout(w - MaxWorkspaces), w - MaxWorkspaces) ELSE workspaces[w]]
<1>0. Shape /\ InFlight
  BY DEF WindowInv
<1>1. /\ life = "up" /\ events # <<>> /\ events' = Tail(events)
      /\ e = Head(events) /\ e.kind = "inventory" /\ e \in Sent
  BY <1>0, PollFacts DEF InventoryLoaded
<1>2. /\ life' = life /\ UNCHANGED <<runtimes, crashed, closed, forgiven, owner>>
  BY DEF InventoryLoaded, daemon
<1>3. DOMAIN e.stock \subseteq Known /\ Known \subseteq Runtimes
  BY <1>0, <1>1, KnownNumbers DEF InFlight, IsEvent
<1>4. minted \in [workspaces : 0..MaxWorkspaces, runtimes : 0..MaxRuntimes, terminals : Nat]
  BY <1>0 DEF Shape
<1>5. CASE connecting
  <2>1. /\ offer' = DOMAIN e.stock \ Bound(workspaces)
        /\ UNCHANGED <<workspaces, dismissed, saved, unsaved, actors, minted>>
    BY <1>5 DEF InventoryLoaded, screen
  <2>2. Actors' /\ Queued' = Queued /\ \A w, r : Tracked(w, r)' => Tracked(w, r)
    BY <1>0, <2>1, ActorsStay DEF Shape
  <2>3. minted' \in [workspaces : {minted.workspaces}, runtimes : {minted.runtimes}, terminals : Nat]
    BY <1>4, <2>1
  <2>4. \A w \in DOMAIN workspaces' : IsWorkspace(workspaces'[w]) /\ Binds(e, w)
    BY <1>0, <2>1 DEF Shape, Binds
  <2> HIDE DEF e
  <2> QED BY <1>1, <1>2, <2>1, <2>2, <2>3, <2>4 DEF Reads
<1>6. CASE ~connecting
  <2>1. /\ minted' = [minted EXCEPT !.terminals = @ + n] /\ dismissed' = kept /\ workspaces' = ws
        /\ \/ found = {} /\ UNCHANGED <<actors, saved, unsaved>>
           \/ Send(Opens(ws, back)) /\ Save(ws, direct, kept)
        /\ offer' = offer
    BY <1>6 DEF InventoryLoaded, Draw, DrawWithout, dialog
  <2>2. found \subseteq DOMAIN e.stock /\ \A r \in found : Found(e, r)
    BY <1>1 DEF Recoverable, Found
  <2>3. n \in Nat
    <3>1. IsFiniteSet(Known)
      BY <1>4, FS_Interval DEF Known
    <3>2. treeless \subseteq Known
      BY <1>3, <2>2
    <3> HIDE DEF treeless
    <3> QED BY <3>1, <3>2, FS_Subset, FS_CardinalityType
  <2> HIDE DEF n, treeless
  <2>4. minted' \in [workspaces : {minted.workspaces}, runtimes : {minted.runtimes}, terminals : Nat]
    BY <1>4, <2>1, <2>3
  <2>5. \A w \in back : \E r \in found : w = Recovered(r) /\ w - MaxWorkspaces = r
    BY <1>3, <2>2, Numbers
  <2>6. DOMAIN ws = back \cup DOMAIN workspaces
    OBVIOUS
  <2>7. \A l, r : IsWorkspace(Workspace(l, r)) /\ Workspace(l, r).runtime = r
    BY DEF IsWorkspace, Workspace
  <2>8. ASSUME NEW w \in back PROVE IsWorkspace(ws[w]) /\ ws[w].runtime = w - MaxWorkspaces
    <3>1. ws[w] = Workspace(Layout(w - MaxWorkspaces), w - MaxWorkspaces)
      OBVIOUS
    <3> HIDE DEF ws, Layout
    <3> QED BY <2>7, <3>1
  <2>9. ASSUME NEW w \in DOMAIN workspaces, w \notin back PROVE ws[w] = workspaces[w] /\ IsWorkspace(ws[w])
    BY <1>0, <2>9 DEF Shape
  <2> HIDE DEF ws
  <2>10. back \subseteq Issued \cup {None}
    BY <1>3, <2>2 DEF Issued
  <2>11. \A w \in DOMAIN workspaces' : IsWorkspace(workspaces'[w]) /\ Binds(e, w)
    <3> SUFFICES ASSUME NEW w \in DOMAIN ws PROVE IsWorkspace(ws[w]) /\ Binds(e, w)
      BY <2>1
    <3>1. CASE w \in back
      <4>1. PICK r \in found : w = Recovered(r) /\ w - MaxWorkspaces = r
        BY <2>5, <3>1
      <4>2. r \in DOMAIN e.stock /\ Found(e, r) /\ workspaces'[w].runtime = r
        BY <2>1, <2>2, <2>8, <3>1, <4>1
      <4> QED BY <2>8, <3>1, <4>1, <4>2 DEF Binds
    <3>2. CASE w \notin back
      <4>1. w \in DOMAIN workspaces /\ workspaces'[w] = workspaces[w]
        BY <2>1, <2>6, <2>9, <3>2
      <4> QED BY <2>9, <3>2, <4>1 DEF Binds
    <3> QED BY <3>1, <3>2
  <2>12. /\ Actors'
         /\ \A c \in Queued' :
              c \in Queued \/ (c.kind = "open" /\ c.ws \in DOMAIN workspaces' /\ c.runtime = workspaces'[c.ws].runtime)
         /\ \A w, r : Tracked(w, r)' => Tracked(w, r)
    <3>1. CASE actors' = actors
      BY <1>0, <3>1, ActorsStay DEF Shape
    <3>2. CASE Send(Opens(ws, back))
      <4> DEFINE list == Opens(ws, back)
      <4>1. IsSeq(list) /\ \A c \in ToSet(list) : c.kind = "open" /\ c.ws \in back /\ c.runtime = ws[c.ws].runtime
        BY <1>0, <2>10, OpensIsSeq
      <4>2. Send(list)
        BY <3>2
      <4> HIDE DEF list, back
      <4>3. /\ Actors' /\ \A c \in Queued' : c \in Queued \/ c \in ToSet(list)
            /\ \A w, r : Tracked(w, r)' => Tracked(w, r)
        BY <1>0, <4>1, <4>2, SendAdds DEF Shape
      <4> QED BY <2>1, <2>6, <4>1, <4>3
    <3> QED BY <2>1, <3>1, <3>2
  <2>13. Wrote \/ UNCHANGED <<saved, unsaved>>
    BY <2>1, SaveWrites
  <2>14. dismissed' \subseteq dismissed /\ \A r \in dismissed \ dismissed' : r \notin DOMAIN e.stock
    BY <2>1
  <2> HIDE DEF e, kept, found, back
  <2> QED BY <1>1, <1>2, <2>1, <2>4, <2>11, <2>12, <2>13, <2>14 DEF Reads
<1> QED BY <1>5, <1>6

\* Every step of the poller is reading.
LEMMA ReconcilesReads ==
  ASSUME WindowInv, Reconciles
  PROVE  Reads
BY WorkspaceOpenedReads, PaneCreatedReads, PaneClosedReads, StatusChangedReads, InventoryLoadedReads,
   OutputDeltaReads
   DEF Reconciles

-----------------------------------------------------------------------------
(* The invariant.                                                           *)

\* The window starts with one runtime nobody closed, shown or detached.
LEMMA InitEstablishesInv ==
  ASSUME Init
  PROVE  WindowInv
<1>1. PICK open \in {0, 1, 2} :
        LET ws == [w \in 1..open |-> [Workspace(<<1, 2>>, 1) EXCEPT !.status = "live"]]
            settled == open > 0
        IN /\ open <= MaxWorkspaces
           /\ life = "up" /\ workspaces = ws /\ dismissed = {} /\ offer = {}
           /\ saved = Record(ws, ~settled, {})
           /\ actors = <<IF settled THEN [queue |-> <<>>, tracked |-> [w \in 1..open |-> 1], link |-> "up"]
                         ELSE Fresh>>
           /\ events = <<>> /\ runtimes = Only(1, <<1, 2>>)
           /\ minted = [workspaces |-> IF settled THEN open ELSE 1, runtimes |-> 1, terminals |-> 2]
           /\ owner = Only(1, IF settled THEN open ELSE 1)
           /\ closed = {} /\ unsaved = {} /\ crashed = {} /\ forgiven = {}
  BY DEF Init
<1> DEFINE settled == open > 0
           ws == [w \in 1..open |-> [Workspace(<<1, 2>>, 1) EXCEPT !.status = "live"]]
           a == IF settled THEN [queue |-> <<>>, tracked |-> [w \in 1..open |-> 1], link |-> "up"] ELSE Fresh
           number == IF settled THEN open ELSE 1
<1>2. /\ DOMAIN ws \subseteq 1..number
      /\ \A w \in DOMAIN ws : IsWorkspace(ws[w]) /\ ws[w].runtime = 1
  BY DEF Workspace, IsWorkspace
<1>3. /\ IsActor(a) /\ a.queue = <<>> /\ ToSet(a.queue) = {}
      /\ \A w \in DOMAIN a.tracked : w \in 1..number /\ a.tracked[w] = 1
  <2>1. DOMAIN <<>> = {} /\ IsSeq(<<>>) /\ ToSet(<<>>) = {}
    BY ShortSeqs
  <2>2. CASE settled
    BY <2>1, <2>2 DEF IsActor
  <2>3. CASE ~settled
    BY <2>1, <2>3 DEF Fresh, IsActor
  <2> QED BY <2>2, <2>3
<1>4. /\ workspaces = ws /\ saved = Record(ws, ~settled, {}) /\ actors = <<a>>
  BY <1>1
<1>number. number \in 1..MaxWorkspaces
  BY <1>1, Numbers
<1> HIDE DEF ws, a, number, settled
<1>5. /\ DOMAIN saved.workspaces = DOMAIN ws /\ saved.dismissed = {}
      /\ \A w \in DOMAIN ws : IsWorkspace(saved.workspaces[w]) /\ saved.workspaces[w].runtime = ws[w].runtime
  BY <1>4 DEF Record, Workspace, IsWorkspace
<1>6. /\ IsSeq(actors) /\ DOMAIN actors = {1} /\ actors[1] = a /\ actors # <<>>
  BY <1>4, ShortSeqs
<1>7. minted.workspaces = number /\ minted.runtimes = 1 /\ minted.terminals = 2 /\ Known = {1}
  BY <1>1 DEF Known, number, settled
<1>8. \A w \in 1..number : w \in Issued /\ Own(w, 1)
  BY <1>7, <1>number, Numbers DEF Issued, Own
<1>9. Queued = {} /\ Sent = {} /\ DOMAIN events = {} /\ IsSeq(events)
  BY <1>1, <1>3, <1>6, ShortSeqs DEF Queued, Sent
<1>10. Shape
  <2>1. Actors
    BY <1>3, <1>6 DEF Actors
  <2>2. minted \in [workspaces : 0..MaxWorkspaces, runtimes : 0..MaxRuntimes, terminals : Nat]
    BY <1>1, <1>number, Numbers DEF number, settled
  <2> QED BY <1>2, <1>4, <1>5, <1>9, <2>1, <2>2 DEF Shape
<1>11. Off
  BY <1>1 DEF Off
<1>12. Numbered
  <2>1. DOMAIN runtimes = {1} /\ DOMAIN owner = {1}
    BY <1>1 DEF Only
  <2> QED BY <1>1, <1>2, <1>4, <1>5, <1>7, <1>8, <2>1 DEF Numbered
<1>13. InFlight
  BY <1>3, <1>6, <1>7, <1>8, <1>9 DEF InFlight
<1>14. Terminated /\ StocksAgree
  BY <1>9 DEF Terminated, Ending, StocksAgree
<1>15. Kept
  BY <1>1 DEF Kept, Remembered
<1> QED BY <1>10, <1>11, <1>12, <1>13, <1>14, <1>15 DEF WindowInv

\* Nothing happens.
LEMMA StutterKeepsInv ==
  ASSUME WindowInv, UNCHANGED vars
  PROVE  WindowInv'
<1> USE DEF vars, screen, aside, dialog, daemon, fate
<1>1. Shape'
  BY DEF WindowInv, Shape, Actors
<1>2. Off' /\ Numbered'
  BY DEF WindowInv, Off, Numbered, Known, Issued, Recovered
<1>3. InFlight'
  BY DEF WindowInv, InFlight, IsCommand, IsEvent, Queued, Sent, Known, Issued, Recovered
<1>4. Terminated'
  BY DEF WindowInv, Terminated, Ending, Queued, Sent, Gone, Stocked, Recovered
<1>5. StocksAgree'
  BY DEF WindowInv, StocksAgree, HeardBy, Heard, Mentions, Bound
<1>6. Kept'
  BY DEF WindowInv, Kept, Remembered, Bound, Awaited, Gone, Stocked, Sent
<1> QED BY <1>1, <1>2, <1>3, <1>4, <1>5, <1>6 DEF WindowInv

\* Every step is of one of the three kinds, or is the end or the start of the client.
LEMMA StepKeepsInv ==
  ASSUME WindowInv, [Next]_vars
  PROVE  WindowInv'
<1>1. CASE UserActs \/ AutoSave \/ Quit
  BY <1>1, UserActsAreOrders, OrdersKeepsInv
<1>2. CASE EndpointActs
  BY <1>2, EndpointActsSpread, SpreadsKeepsInv
<1>3. CASE Reconciles
  BY <1>3, ReconcilesReads, ReadsKeepsInv
<1>4. CASE Exit
  BY <1>4, ExitKeepsInv
<1>5. CASE Start
  BY <1>5, StartKeepsInv
<1>6. CASE UNCHANGED vars
  BY <1>6, StutterKeepsInv
<1> QED BY <1>1, <1>2, <1>3, <1>4, <1>5, <1>6 DEF Next

\* The invariant holds in every state of every behaviour of the window.
THEOREM WindowIsInductive == Spec => []WindowInv
<1>1. Init => WindowInv
  BY InitEstablishesInv
<1>2. WindowInv /\ [Next]_vars => WindowInv'
  BY StepKeepsInv
<1> QED BY <1>1, <1>2, PTL DEF Spec

\* OnlyForgottenReturn: a runtime the user closed is not the runtime of a workspace, unless the client
\* forgot or never knew that it was closed (dismissed_runtime_ids, workspace_state.rs:322).
THEOREM ClosedStaysForgotten == Spec => []OnlyForgottenReturn
<1>1. WindowInv => OnlyForgottenReturn
  BY DEF WindowInv, Kept, Remembered, OnlyForgottenReturn
<1> QED BY <1>1, WindowIsInductive, PTL

-----------------------------------------------------------------------------
(* What is drawn.                                                           *)

\* The layouts are shown as they are, with a widget or without.
Follows ==
  /\ \A w \in DOMAIN workspaces : workspaces[w].zoom = None => Leaves(w) \subseteq widgets \cup bare
  /\ widgets \subseteq Shown(workspaces)

\* A terminal is shown if a layout has it.
LEMMA ShownMeans ==
  ASSUME NEW ws, NEW t
  PROVE  t \in Shown(ws) <=> \E w \in DOMAIN ws : t \in ToSet(ws[w].layout)
BY DEF Shown

\* The layouts of a step are those of ws.
Lays(ws) ==
  /\ DOMAIN workspaces' = DOMAIN ws
  /\ \A w \in DOMAIN ws : workspaces'[w].layout = ws[w].layout /\ workspaces'[w].zoom = ws[w].zoom

\* The widgets that are left are of leaves; the leaves that lose theirs are remembered
\* (DrawWithout).
LEMMA DrawnFollows ==
  ASSUME NEW ws, NEW kept, NEW removed, Lays(ws),
         widgets' = kept, bare' = ((bare \cup removed) \cap Shown(ws)) \ kept,
         kept \subseteq Shown(ws),
         \A w \in DOMAIN ws : ws[w].zoom = None => ToSet(ws[w].layout) \subseteq kept \cup bare \cup removed
  PROVE  Follows'
<1>1. ASSUME NEW t PROVE t \in Shown(workspaces)' <=> t \in Shown(ws)
  BY DEF Shown, Lays
<1>2. ASSUME NEW w \in DOMAIN workspaces', workspaces'[w].zoom = None, NEW t \in ToSet(workspaces'[w].layout)
      PROVE  t \in widgets' \cup bare'
  <2>1. w \in DOMAIN ws /\ ws[w].zoom = None /\ t \in ToSet(ws[w].layout)
    BY <1>2 DEF Lays
  <2>2. t \in Shown(ws)
    BY <2>1, ShownMeans
  <2> QED BY <2>1, <2>2
<1> QED BY <1>1, <1>2 DEF Follows, Leaves

\* The layout of one workspace changes, which is drawn again (rebuild_session_content).
LEMMA RebuiltFollows ==
  ASSUME Follows, NEW ws, NEW w \in DOMAIN ws, NEW removed, Lays(ws), DOMAIN ws = DOMAIN workspaces,
         \A v \in DOMAIN ws : v # w => ws[v] = workspaces[v],
         widgets' = Rebuilt(ws, w, widgets \ removed),
         bare' = ((bare \cup removed) \cap Shown(ws)) \ Rebuilt(ws, w, widgets \ removed)
  PROVE  Follows'
<1> DEFINE kept == Rebuilt(ws, w, widgets \ removed)
<1>1. kept = ((widgets \ removed) \cup Built(ws[w])) \cap Shown(ws)
  BY DEF Rebuilt
<1>2. widgets' = kept /\ bare' = ((bare \cup removed) \cap Shown(ws)) \ kept
  OBVIOUS
<1> HIDE DEF kept
<1>3. ASSUME NEW v \in DOMAIN ws, ws[v].zoom = None, NEW t \in ToSet(ws[v].layout)
      PROVE  t \in kept \cup bare \cup removed
  <2>1. t \in Shown(ws)
    BY ShownMeans
  <2>2. CASE v = w
    <3>1. t \in Built(ws[w])
      BY <1>3, <2>2 DEF Built
    <3> QED BY <1>1, <2>1, <3>1
  <2>3. CASE v # w
    <3>1. t \in widgets \cup bare
      BY <1>3, <2>3 DEF Follows, Leaves
    <3> QED BY <1>1, <2>1, <3>1
  <2> QED BY <2>2, <2>3
<1>4. kept \subseteq Shown(ws)
  BY <1>1
<1> QED BY <1>2, <1>3, <1>4, DrawnFollows

\* Nothing is drawn.
LEMMA UndrawnFollows ==
  ASSUME Follows, Lays(workspaces), UNCHANGED <<widgets, bare>>
  PROVE  Follows'
<1>1. ASSUME NEW t PROVE t \in Shown(workspaces)' <=> t \in Shown(workspaces)
  BY DEF Shown, Lays
<1> QED BY <1>1 DEF Follows, Leaves, Lays

\* Workspaces go, with the widgets of their leaves.
LEMMA GoneFollows ==
  ASSUME Follows, NEW w \in DOMAIN workspaces, workspaces' = Without(workspaces, {w}),
         DrawWithout(ToSet(workspaces[w].layout), Without(workspaces, {w}), widgets \ ToSet(workspaces[w].layout))
  PROVE  Follows'
<1> DEFINE ws == Without(workspaces, {w})
           removed == ToSet(workspaces[w].layout)
           kept == widgets \ removed
<1>1. DOMAIN ws = DOMAIN workspaces \ {w} /\ \A v \in DOMAIN ws : ws[v] = workspaces[v]
  BY DEF Without, Restrict
<1>2. workspaces' = ws /\ widgets' = kept /\ bare' = ((bare \cup removed) \cap Shown(ws)) \ kept
  BY DEF DrawWithout
<1> HIDE DEF ws
<1>3. Lays(ws)
  BY <1>2 DEF Lays
<1>4. ASSUME NEW t \in kept PROVE t \in Shown(ws)
  <2>1. t \in Shown(workspaces)
    BY DEF Follows
  <2>2. PICK v \in DOMAIN workspaces : t \in ToSet(workspaces[v].layout)
    BY <2>1, ShownMeans
  <2>3. v # w
    BY <2>2
  <2> QED BY <1>1, <2>2, <2>3, ShownMeans
<1>5. \A v \in DOMAIN ws : ws[v].zoom = None => ToSet(ws[v].layout) \subseteq kept \cup bare \cup removed
  BY <1>1 DEF Follows, Leaves
<1> HIDE DEF kept, removed
<1> QED BY <1>2, <1>3, <1>4, <1>5, DrawnFollows

\* A workspace comes, with a widget for its placeholder (add_workspace).
LEMMA AddedFollows ==
  ASSUME WindowInv, Follows, NEW w, NEW t, NEW r, w = minted.workspaces + 1, w <= MaxWorkspaces,
         Draw(With(workspaces, w, Workspace(<<t>>, r)), widgets \cup {t})
  PROVE  Follows'
<1> DEFINE ws == With(workspaces, w, Workspace(<<t>>, r))
           kept == widgets \cup {t}
<1>1. w \notin DOMAIN workspaces
  BY KnownNumbers DEF WindowInv, Numbered
<1>2. /\ DOMAIN ws = DOMAIN workspaces \cup {w} /\ \A v \in DOMAIN workspaces : ws[v] = workspaces[v]
      /\ ws[w].layout = <<t>>
  BY <1>1 DEF With, Workspace
<1>3. workspaces' = ws /\ widgets' = kept /\ bare' = ((bare \cup {}) \cap Shown(ws)) \ kept
  BY DEF Draw, DrawWithout
<1> HIDE DEF ws
<1>4. Lays(ws)
  BY <1>3 DEF Lays
<1>5. ToSet(<<t>>) = {t}
  BY ShortSeqs
<1>6. ASSUME NEW x \in kept PROVE x \in Shown(ws)
  <2>1. CASE x = t
    BY <1>2, <1>5, <2>1, ShownMeans
  <2>2. CASE x \in widgets
    <3>1. PICK v \in DOMAIN workspaces : x \in ToSet(workspaces[v].layout)
      BY <2>2, ShownMeans DEF Follows
    <3> QED BY <1>2, <3>1, ShownMeans
  <2> QED BY <2>1, <2>2
<1>7. \A v \in DOMAIN ws : ws[v].zoom = None => ToSet(ws[v].layout) \subseteq kept \cup bare \cup {}
  BY <1>2, <1>5 DEF Follows, Leaves
<1> HIDE DEF kept
<1> QED BY <1>3, <1>4, <1>6, <1>7, DrawnFollows

\* The same when no widget was removed before.
LEMMA RedrawnFollows ==
  ASSUME Follows, NEW ws, NEW w \in DOMAIN ws, Draw(ws, Rebuilt(ws, w, widgets)), DOMAIN ws = DOMAIN workspaces,
         \A v \in DOMAIN ws : v # w => ws[v] = workspaces[v]
  PROVE  Follows'
<1> DEFINE removed == {}
<1>1. widgets \ removed = widgets
  OBVIOUS
<1>2. /\ workspaces' = ws /\ widgets' = Rebuilt(ws, w, widgets)
      /\ bare' = ((bare \cup removed) \cap Shown(ws)) \ Rebuilt(ws, w, widgets)
  BY DEF Draw, DrawWithout
<1>3. Lays(ws)
  BY <1>2 DEF Lays
<1> HIDE DEF removed
<1> QED BY <1>1, <1>2, <1>3, RebuiltFollows

\* A pane is created: its terminal is renamed in the layout and in the table of the widgets.
LEMMA PaneCreatedFollows ==
  ASSUME WindowInv, Follows, PaneCreated
  PROVE  Follows'
<1> DEFINE e == Polling
           known == e.ws \in DOMAIN workspaces /\ e.at \in ToSet(workspaces[e.ws].layout)
           Renamed(t) == IF t = e.at THEN e.pane ELSE t
           ws == [workspaces EXCEPT ![e.ws].runtime = e.runtime, ![e.ws].zoom = Renamed(@),
                                    ![e.ws].layout = RenameLeaf(@, e.at, e.pane)]
           kept == {Renamed(t) : t \in widgets}
           removed == {e.at} \cup {Renamed(t) : t \in bare}
<1>0. Shape /\ InFlight
  BY DEF WindowInv
<1>1. \A w \in DOMAIN workspaces : IsWorkspace(workspaces[w])
  BY <1>0 DEF Shape
<1>2. e.pane # None
  <2>1. e \in Sent /\ e.kind = "created"
    BY <1>0, PollFacts DEF PaneCreated
  <2> QED BY <1>0, <2>1 DEF InFlight, IsEvent
<1>3. CASE known
  <2>1. /\ workspaces' = Told(ws, e) /\ widgets' = kept
        /\ bare' = ((bare \cup removed) \cap Shown(Told(ws, e))) \ kept
    BY <1>3 DEF PaneCreated, DrawWithout
  <2> DEFINE w == e.ws
             old == workspaces[w].layout
             new == RenameLeaf(old, e.at, e.pane)
  <2>2. /\ DOMAIN ws = DOMAIN workspaces /\ w \in DOMAIN ws
        /\ \A v \in DOMAIN ws : IsWorkspace(ws[v]) /\ (v # w => ws[v] = workspaces[v])
        /\ ws[w].zoom = Renamed(workspaces[w].zoom) /\ ws[w].layout = new
    BY <1>1, <1>3 DEF IsWorkspace
  <2>3. /\ \A t \in ToSet(old) : Renamed(t) \in ToSet(new)
        /\ \A x \in ToSet(new) : \E t \in ToSet(old) : x = Renamed(t)
    <3>1. DOMAIN new = DOMAIN old /\ \A n \in DOMAIN old : new[n] = Renamed(old[n])
      BY DEF RenameLeaf
    <3> HIDE DEF new, old, Renamed
    <3> QED BY <3>1 DEF ToSet
  <2>4. e.at \in ToSet(old) /\ Renamed(e.at) = e.pane /\ \A t : t # e.at => Renamed(t) = t
    BY <1>3
  <2> HIDE DEF ws
  <2>5. Lays(Told(ws, e))
    BY <2>1 DEF Lays
  <2>6. \A t : t \in Shown(Told(ws, e)) <=> t \in Shown(ws)
    <3> HIDE DEF e
    <3> QED BY <2>2, ToldKeeps DEF Shown
  <2>7. ASSUME NEW t \in widgets PROVE Renamed(t) \in Shown(ws)
    <3>1. PICK v \in DOMAIN workspaces : t \in ToSet(workspaces[v].layout)
      BY ShownMeans DEF Follows
    <3>2. CASE v = w \/ t = e.at
      <4>1. Renamed(t) \in ToSet(ws[w].layout)
        BY <2>2, <2>3, <2>4, <3>1, <3>2
      <4> QED BY <2>2, <4>1, ShownMeans
    <3>3. CASE v # w /\ t # e.at
      <4>1. Renamed(t) = t /\ v \in DOMAIN ws /\ t \in ToSet(ws[v].layout)
        BY <2>2, <2>4, <3>1, <3>3
      <4> QED BY <4>1, ShownMeans
    <3> QED BY <3>2, <3>3
  <2>8. ASSUME NEW v \in DOMAIN ws, ws[v].zoom = None, NEW x \in ToSet(ws[v].layout)
        PROVE  x \in kept \cup bare \cup removed
    <3>1. CASE v = w
      <4>1. workspaces[w].zoom = None
        BY <1>2, <2>2, <2>8, <3>1
      <4>2. PICK t \in ToSet(old) : x = Renamed(t)
        BY <2>2, <2>3, <3>1
      <4>3. t \in widgets \cup bare
        BY <2>2, <4>1 DEF Follows, Leaves
      <4> QED BY <4>2, <4>3
    <3>2. CASE v # w
      <4>1. x \in widgets \cup bare
        BY <2>2, <2>8, <3>2 DEF Follows, Leaves
      <4>2. x \in widgets /\ x # e.at => x \in kept
        BY <2>4
      <4> QED BY <4>1, <4>2
    <3> QED BY <3>1, <3>2
  <2> DEFINE told == Told(ws, e)
  <2>9. /\ DOMAIN told = DOMAIN ws
        /\ \A v \in DOMAIN ws : told[v].layout = ws[v].layout /\ told[v].zoom = ws[v].zoom
    <3> HIDE DEF e
    <3> QED BY <2>2, ToldKeeps
  <2>10. kept \subseteq Shown(told)
    BY <2>6, <2>7
  <2>11. \A v \in DOMAIN told : told[v].zoom = None => ToSet(told[v].layout) \subseteq kept \cup bare \cup removed
    BY <2>8, <2>9
  <2>12. Lays(told) /\ widgets' = kept /\ bare' = ((bare \cup removed) \cap Shown(told)) \ kept
    BY <2>1, <2>5
  <2> HIDE DEF told, kept, removed
  <2> QED BY <2>10, <2>11, <2>12, DrawnFollows
<1>4. CASE ~known
  <2>1. workspaces' = Told(workspaces, e) /\ UNCHANGED <<widgets, bare>>
    BY <1>4 DEF PaneCreated
  <2> HIDE DEF e
  <2>2. Lays(workspaces)
    BY <1>1, <2>1, ToldKeeps DEF Lays
  <2> QED BY <2>1, <2>2, UndrawnFollows
<1> QED BY <1>3, <1>4

\* Workspaces are recovered, each with the panes of its runtime; none of them was shown, for a shown
\* workspace of that number would be in that runtime.
LEMMA InventoryLoadedFollows ==
  ASSUME WindowInv, Follows, InventoryLoaded
  PROVE  Follows'
<1> DEFINE e == Polling
           hidden == dismissed \cap DOMAIN e.stock
           found == Recoverable(workspaces, e.stock, hidden)
           treeless == {r \in found : e.stock[r] = <<>>}
           Leaf(r) == minted.terminals + Cardinality({q \in treeless : q <= r})
           Layout(r) == IF r \in treeless THEN <<Leaf(r)>> ELSE e.stock[r]
           back == {Recovered(r) : r \in found}
           ws == [w \in back \cup DOMAIN workspaces |->
                    IF w \in back THEN Workspace(Layout(w - MaxWorkspaces), w - MaxWorkspaces) ELSE workspaces[w]]
           kept == widgets \cup UNION {ToSet(Layout(r)) : r \in found}
<1>0. Shape /\ InFlight /\ Numbered
  BY DEF WindowInv
<1>1. CASE connecting
  <2>1. UNCHANGED <<workspaces, widgets, bare>>
    BY <1>1 DEF InventoryLoaded, screen
  <2> QED BY <2>1, UndrawnFollows DEF Lays
<1>2. CASE ~connecting
  <2>1. workspaces' = ws /\ widgets' = kept /\ bare' = ((bare \cup {}) \cap Shown(ws)) \ kept
    BY <1>2 DEF InventoryLoaded, Draw, DrawWithout
  <2>2. found \subseteq Runtimes /\ found \cap Bound(workspaces) = {}
    <3>1. e \in Sent
      BY <1>0, PollFacts DEF InventoryLoaded
    <3> QED BY <1>0, <3>1, KnownNumbers DEF InFlight, IsEvent, Recoverable
  <2>3. \A r \in found : Recovered(r) \in back /\ Recovered(r) - MaxWorkspaces = r
    BY <2>2, Numbers
  <2>4. \A w \in back : \E r \in found : w = Recovered(r)
    OBVIOUS
  <2>5. ASSUME NEW w \in back PROVE w \notin DOMAIN workspaces
    <3>1. PICK r \in found : w = Recovered(r)
      BY <2>4
    <3>2. r \in Runtimes /\ w > MaxWorkspaces /\ w - MaxWorkspaces = r /\ r # None
      BY <2>2, <3>1, Numbers
    <3>3. w \in DOMAIN workspaces => workspaces[w].runtime = r
      BY <1>0, <3>2 DEF Numbered, Own
    <3>4. w \in DOMAIN workspaces => r \in Bound(workspaces)
      BY <3>2, <3>3 DEF Bound
    <3> QED BY <2>2, <3>4
  <2>6. DOMAIN ws = back \cup DOMAIN workspaces
    OBVIOUS
  <2>7. ASSUME NEW w \in DOMAIN workspaces PROVE ws[w] = workspaces[w]
    BY <2>5
  <2>8. ASSUME NEW r \in found PROVE ws[Recovered(r)].layout = Layout(r)
    <3> DEFINE w == Recovered(r)
    <3>1. w \in back /\ w - MaxWorkspaces = r
      BY <2>3
    <3>2. ws[w] = Workspace(Layout(w - MaxWorkspaces), w - MaxWorkspaces)
      BY <3>1
    <3> HIDE DEF ws, w, Layout
    <3>3. ws[w].layout = Layout(w - MaxWorkspaces)
      BY <3>2 DEF Workspace
    <3> QED BY <3>1, <3>3 DEF w
  <2> HIDE DEF ws, Layout
  <2>9. ASSUME NEW t \in kept PROVE t \in Shown(ws)
    <3>1. CASE t \in widgets
      <4>1. PICK v \in DOMAIN workspaces : t \in ToSet(workspaces[v].layout)
        BY <3>1, ShownMeans DEF Follows
      <4> QED BY <2>6, <2>7, <4>1, ShownMeans
    <3>2. CASE t \notin widgets
      <4>1. PICK r \in found : t \in ToSet(Layout(r))
        BY <3>2
      <4>2. Recovered(r) \in DOMAIN ws /\ t \in ToSet(ws[Recovered(r)].layout)
        BY <2>3, <2>6, <2>8, <4>1
      <4> QED BY <4>2, ShownMeans
    <3> QED BY <3>1, <3>2
  <2>10. ASSUME NEW w \in DOMAIN ws, ws[w].zoom = None, NEW t \in ToSet(ws[w].layout)
         PROVE  t \in kept \cup bare \cup {}
    <3>1. CASE w \in back
      <4>1. PICK r \in found : w = Recovered(r)
        BY <2>4, <3>1
      <4> QED BY <2>8, <2>10, <4>1
    <3>2. CASE w \notin back
      BY <2>6, <2>7, <2>10, <3>2 DEF Follows, Leaves
    <3> QED BY <3>1, <3>2
  <2>11. Lays(ws)
    BY <2>1 DEF Lays
  <2> HIDE DEF kept
  <2> QED BY <2>1, <2>9, <2>10, <2>11, DrawnFollows
<1> QED BY <1>1, <1>2

\* The user's operations draw what they change.
LEMMA UserActsFollow ==
  ASSUME WindowInv, Follows, UserActs, life' = "up"
  PROVE  Follows'
<1>0. Shape
  BY DEF WindowInv
<1>1. ASSUME AddWorkspace PROVE Follows'
  <2> DEFINE w == Newest("workspaces")
             t == Newest("terminals")
  <2>1. w <= MaxWorkspaces /\ Draw(With(workspaces, w, Workspace(<<t>>, None)), widgets \cup {t})
    BY <1>1 DEF AddWorkspace
  <2>2. w = minted.workspaces + 1
    BY DEF Newest
  <2> HIDE DEF w, t
  <2> QED BY <2>1, <2>2, AddedFollows
<1>2. ASSUME NEW r \in offer, AttachToExistingRuntime(r) PROVE Follows'
  <2> DEFINE w == Newest("workspaces")
             t == Newest("terminals")
  <2>1. w <= MaxWorkspaces /\ Draw(With(workspaces, w, Workspace(<<t>>, r)), widgets \cup {t})
    BY <1>2 DEF AttachToExistingRuntime
  <2>2. w = minted.workspaces + 1
    BY DEF Newest
  <2> HIDE DEF w, t
  <2> QED BY <2>1, <2>2, AddedFollows
<1>3. ASSUME CloseAllSessions PROVE Follows'
  <2>1. workspaces' = <<>> /\ widgets' = {}
    BY <1>3 DEF CloseAllSessions, Draw, DrawWithout
  <2>2. DOMAIN workspaces' = {}
    BY <2>1
  <2> QED BY <2>1, <2>2 DEF Follows
<1>4. ASSUME ConnectExisting \/ DismissDialog \/ CloseDirect PROVE Follows'
  <2>1. UNCHANGED <<workspaces, widgets, bare>>
    BY <1>4 DEF ConnectExisting, DismissDialog, CloseDirect, screen, panes
  <2> QED BY <2>1, UndrawnFollows DEF Lays
<1>5. ASSUME NEW w \in DOMAIN workspaces, CloseSession(w) PROVE Follows'
  <2>1. CASE Count > 1
    <3>1. DrawWithout(ToSet(workspaces[w].layout), Without(workspaces, {w}), widgets \ ToSet(workspaces[w].layout))
      BY <1>5, <2>1 DEF CloseSession
    <3>2. workspaces' = Without(workspaces, {w})
      BY <3>1 DEF DrawWithout
    <3> QED BY <3>1, <3>2, GoneFollows
  <2>2. CASE ~(Count > 1)
    <3>1. life' = "leaving"
      BY <1>5, <2>2 DEF CloseSession
    <3> QED BY <3>1
  <2> QED BY <2>1, <2>2
<1>6. ASSUME NEW w \in DOMAIN workspaces, DetachRuntime(w) PROVE Follows'
  <2>1. DrawWithout(ToSet(workspaces[w].layout), Without(workspaces, {w}), widgets \ ToSet(workspaces[w].layout))
    BY <1>6 DEF DetachRuntime
  <2>2. workspaces' = Without(workspaces, {w})
    BY <2>1 DEF DrawWithout
  <2> QED BY <2>1, <2>2, GoneFollows
<1>7. ASSUME NEW w \in DOMAIN workspaces, RetryWorkspace(w) \/ RetryEndpoint(w) PROVE Follows'
  <2>1. UNCHANGED <<widgets, bare>>
    BY <1>7 DEF RetryWorkspace, RetryEndpoint, panes
  <2>2. CASE RetryWorkspace(w)
    <3>1. workspaces' = [workspaces EXCEPT ![w].status = "waiting"]
      BY <2>2 DEF RetryWorkspace
    <3>2. Lays(workspaces)
      BY <1>0, <3>1 DEF Lays, Shape, IsWorkspace
    <3> QED BY <2>1, <3>2, UndrawnFollows
  <2>3. CASE RetryEndpoint(w)
    <3>1. workspaces' = [v \in DOMAIN workspaces |->
                           IF v \in Reconnected(workspaces, w) THEN [workspaces[v] EXCEPT !.status = "waiting"]
                           ELSE workspaces[v]]
      BY <2>3 DEF RetryEndpoint
    <3>2. Lays(workspaces)
      BY <1>0, <3>1 DEF Lays, Shape, IsWorkspace
    <3> QED BY <2>1, <3>2, UndrawnFollows
  <2> QED BY <1>7, <2>2, <2>3
<1>8. ASSUME NEW w \in DOMAIN workspaces, NEW t, SplitTerminal(w, t) PROVE Follows'
  <2> DEFINE new == Newest("terminals")
             ws == [workspaces EXCEPT ![w].zoom = None, ![w].layout = SplitLayout(@, t, new)]
  <2>1. Draw(ws, Rebuilt(ws, w, widgets))
    BY <1>8 DEF SplitTerminal
  <2>2. DOMAIN ws = DOMAIN workspaces /\ w \in DOMAIN ws /\ \A v \in DOMAIN ws : v # w => ws[v] = workspaces[v]
    OBVIOUS
  <2> HIDE DEF ws
  <2> QED BY <2>1, <2>2, RedrawnFollows
<1>9. ASSUME NEW w \in DOMAIN workspaces, NEW t, ClosePaneOf(w, t) PROVE Follows'
  <2> DEFINE unzoomed == [workspaces EXCEPT ![w].zoom = None]
             ws == IF unzoomed[w].runtime # None THEN unzoomed
                   ELSE [unzoomed EXCEPT ![w].layout = RemoveLeaf(@, t)]
  <2>1. Draw(ws, IF ws = workspaces THEN widgets ELSE Rebuilt(ws, w, widgets))
    BY <1>9 DEF ClosePaneOf
  <2>2. DOMAIN ws = DOMAIN workspaces /\ w \in DOMAIN ws /\ \A v \in DOMAIN ws : v # w => ws[v] = workspaces[v]
    OBVIOUS
  <2> HIDE DEF ws
  <2>3. CASE ws = workspaces
    <3>1. workspaces' = workspaces /\ widgets' = widgets /\ bare' = ((bare \cup {}) \cap Shown(workspaces)) \ widgets
      BY <2>1, <2>3 DEF Draw, DrawWithout
    <3>2. Lays(workspaces)
      BY <3>1 DEF Lays
    <3>3. /\ widgets \subseteq Shown(workspaces)
          /\ \A v \in DOMAIN workspaces :
               workspaces[v].zoom = None => ToSet(workspaces[v].layout) \subseteq widgets \cup bare \cup {}
      BY DEF Follows, Leaves
    <3> QED BY <3>1, <3>2, <3>3, DrawnFollows
  <2>4. CASE ws # workspaces
    BY <2>1, <2>2, <2>4, RedrawnFollows
  <2> QED BY <2>3, <2>4
<1>10. ASSUME NEW w \in DOMAIN workspaces, NEW t, TogglePaneZoom(w, t) PROVE Follows'
  <2> DEFINE ws == [workspaces EXCEPT ![w].zoom = IF @ = None THEN t ELSE None]
  <2>1. Draw(ws, Rebuilt(ws, w, widgets))
    BY <1>10 DEF TogglePaneZoom
  <2>2. DOMAIN ws = DOMAIN workspaces /\ w \in DOMAIN ws /\ \A v \in DOMAIN ws : v # w => ws[v] = workspaces[v]
    OBVIOUS
  <2> HIDE DEF ws
  <2> QED BY <2>1, <2>2, RedrawnFollows
<1> QED BY <1>1, <1>2, <1>3, <1>4, <1>5, <1>6, <1>7, <1>8, <1>9, <1>10 DEF UserActs

\* The actors and the daemon draw nothing.
LEMMA EndpointActsFollow ==
  ASSUME Follows, EndpointActs
  PROVE  Follows'
<1>1. ASSUME UNCHANGED <<untouched, panes>> PROVE Follows'
  BY <1>1, UndrawnFollows DEF untouched, screen, panes, Lays
<1>2. ASSUME NEW i, OpenRuntime(i) \/ AddPane(i) \/ RemovePane(i) \/ LeaveRuntime(i) PROVE UNCHANGED <<untouched, panes>>
  BY <1>2 DEF OpenRuntime, AddPane, RemovePane, LeaveRuntime
<1>3. ASSUME NEW i, CommandRefused(i) \/ ForgetOrShutdown(i) \/ RefreshInventory(i) \/ NoDaemon(i)
      PROVE  UNCHANGED <<untouched, panes>>
  BY <1>3 DEF CommandRefused, ForgetOrShutdown, RefreshInventory, NoDaemon
<1>4. ASSUME NEW i, LinkLost(i) \/ Reattach(i) \/ ReattachFails(i) PROVE UNCHANGED <<untouched, panes>>
  BY <1>4 DEF LinkLost, Reattach, ReattachFails
<1>5. ASSUME NEW r, NEW p, DaemonPrints(r, p) PROVE UNCHANGED <<untouched, panes>>
  BY <1>5 DEF DaemonPrints
<1> QED BY <1>1, <1>2, <1>3, <1>4, <1>5 DEF EndpointActs

\* The events are drawn as they are taken in (apply_endpoint_event_transition).
LEMMA ReconcilesFollow ==
  ASSUME WindowInv, Follows, Reconciles
  PROVE  Follows'
<1> DEFINE e == Polling
<1>0. Shape /\ InFlight /\ Numbered
  BY DEF WindowInv
<1>1. \A w \in DOMAIN workspaces : IsWorkspace(workspaces[w])
  BY <1>0 DEF Shape
<1>2. ASSUME WorkspaceOpened PROVE Follows'
  <2> DEFINE ws == [workspaces EXCEPT ![e.ws] = Adopted(@, e)]
             removed == ToSet(workspaces[e.ws].layout) \ ToSet(ws[e.ws].layout)
  <2>1. CASE e.ws \in DOMAIN workspaces
    <3> DEFINE w == e.ws
    <3>1. /\ workspaces' = Told(ws, e) /\ widgets' = Rebuilt(ws, w, widgets \ removed)
          /\ bare' = ((bare \cup removed) \cap Shown(ws)) \ Rebuilt(ws, w, widgets \ removed)
      BY <1>2, <2>1 DEF WorkspaceOpened
    <3>2. /\ DOMAIN ws = DOMAIN workspaces /\ w \in DOMAIN ws
          /\ \A v \in DOMAIN ws : IsWorkspace(ws[v]) /\ (v # w => ws[v] = workspaces[v])
      BY <1>1, <2>1 DEF Adopted, IsWorkspace
    <3> HIDE DEF ws, e, removed, w
    <3>3. Lays(ws)
      BY <3>1, <3>2, ToldKeeps DEF Lays
    <3> QED BY <3>1, <3>2, <3>3, RebuiltFollows
  <2>2. CASE e.ws \notin DOMAIN workspaces
    <3>1. UNCHANGED <<workspaces, widgets, bare>>
      BY <1>2, <2>2 DEF WorkspaceOpened, panes
    <3> QED BY <3>1, UndrawnFollows DEF Lays
  <2> QED BY <2>1, <2>2
<1>3. ASSUME PaneCreated PROVE Follows'
  BY <1>3, PaneCreatedFollows
<1>4. ASSUME PaneClosed PROVE Follows'
  <2> DEFINE w == e.ws
             open == w \in DOMAIN workspaces
             last == open /\ workspaces[w].layout = <<e.at>>
             ws == [workspaces EXCEPT ![w].layout = RemoveLeaf(@, e.at)]
             removed == {e.at}
  <2>1. CASE open /\ ~last
    <3>1. DrawWithout(removed, ws, Rebuilt(ws, w, widgets \ removed))
      BY <1>4, <2>1 DEF PaneClosed
    <3>2. DOMAIN ws = DOMAIN workspaces /\ w \in DOMAIN ws /\ \A v \in DOMAIN ws : v # w => ws[v] = workspaces[v]
      BY <2>1
    <3> HIDE DEF ws, removed, w
    <3>3. /\ workspaces' = ws /\ widgets' = Rebuilt(ws, w, widgets \ removed)
          /\ bare' = ((bare \cup removed) \cap Shown(ws)) \ Rebuilt(ws, w, widgets \ removed)
      BY <3>1 DEF DrawWithout
    <3>4. Lays(ws)
      BY <3>3 DEF Lays
    <3> QED BY <3>2, <3>3, <3>4, RebuiltFollows
  <2>2. CASE ~(open /\ ~last)
    <3> DEFINE kept == widgets \ removed
    <3>1. /\ workspaces' = workspaces /\ widgets' = kept
          /\ bare' = ((bare \cup removed) \cap Shown(workspaces)) \ kept
      BY <1>4, <2>2 DEF PaneClosed, DrawWithout
    <3>2. Lays(workspaces)
      BY <3>1 DEF Lays
    <3>3. /\ kept \subseteq Shown(workspaces)
          /\ \A v \in DOMAIN workspaces :
               workspaces[v].zoom = None => ToSet(workspaces[v].layout) \subseteq kept \cup bare \cup removed
      BY DEF Follows, Leaves
    <3> HIDE DEF kept, removed
    <3> QED BY <3>1, <3>2, <3>3, DrawnFollows
  <2> QED BY <2>1, <2>2
<1>5. ASSUME StatusChanged PROVE Follows'
  <2> DEFINE ws == [workspaces EXCEPT ![e.ws].runtime = None, ![e.ws].status = e.status]
  <2>1. UNCHANGED <<widgets, bare>> /\ (workspaces' = ws \/ workspaces' = Told(workspaces, e))
    BY <1>5 DEF StatusChanged, panes
  <2>2. /\ DOMAIN ws = DOMAIN workspaces
        /\ \A w \in DOMAIN ws : ws[w].layout = workspaces[w].layout /\ ws[w].zoom = workspaces[w].zoom
    BY <1>1 DEF IsWorkspace
  <2> HIDE DEF ws, e
  <2>3. Lays(workspaces)
    BY <1>1, <2>1, <2>2, ToldKeeps DEF Lays
  <2> QED BY <2>1, <2>3, UndrawnFollows
<1>6. ASSUME InventoryLoaded PROVE Follows'
  BY <1>6, InventoryLoadedFollows
<1>7. ASSUME OutputDelta PROVE Follows'
  <2>1. UNCHANGED <<workspaces, widgets, bare>>
    BY <1>7 DEF OutputDelta
  <2> QED BY <2>1, UndrawnFollows DEF Lays
<1> QED BY <1>2, <1>3, <1>4, <1>5, <1>6, <1>7 DEF Reconciles

\* The window has a widget for every leaf, but for the ones the code leaves without.
LEMMA StepFollows ==
  ASSUME WindowInv, WidgetsFollowLayout, [Next]_vars
  PROVE  WidgetsFollowLayout'
<1> SUFFICES ASSUME life' = "up" PROVE Follows'
  BY DEF WidgetsFollowLayout, Follows, Leaves
<1>1. CASE Start
  <2> DEFINE ws == Loaded.workspaces
  <2>1. workspaces' = ws /\ widgets' = Shown(ws)
    BY <1>1 DEF Start
  <2> HIDE DEF ws
  <2> QED BY <2>1 DEF Follows, Leaves, Shown
<1>2. CASE Exit \/ Quit
  BY <1>2 DEF Exit, Quit
<1>3. ASSUME life = "up" PROVE Follows
  BY <1>3 DEF WidgetsFollowLayout, Follows
<1>4. CASE UserActs
  <2>1. life = "up"
    BY <1>4, UserActsAreOrders DEF Orders
  <2> QED BY <1>3, <1>4, <2>1, UserActsFollow
<1>5. CASE EndpointActs
  <2>1. life' = life
    BY <1>5, EndpointActsSpread DEF Spreads
  <2> QED BY <1>3, <1>5, <2>1, EndpointActsFollow
<1>6. CASE Reconciles
  <2>1. life = "up"
    BY <1>6, ReconcilesReads DEF Reads
  <2> QED BY <1>3, <1>6, <2>1, ReconcilesFollow
<1>7. CASE AutoSave
  <2>1. life = "up" /\ UNCHANGED <<workspaces, widgets, bare>>
    BY <1>7 DEF AutoSave, screen, panes
  <2> QED BY <1>3, <2>1, UndrawnFollows DEF Lays
<1>8. CASE UNCHANGED vars
  <2>1. life' = life /\ UNCHANGED <<workspaces, widgets, bare>>
    BY <1>8 DEF vars, screen, panes
  <2> QED BY <1>3, <2>1, UndrawnFollows DEF Lays
<1> QED BY <1>1, <1>2, <1>4, <1>5, <1>6, <1>7, <1>8 DEF Next

\* WidgetsFollowLayout: a workspace that is not zoomed has a widget for every leaf of its layout but the
\* ones the code takes it from, and no widget outlives its leaf (rebuild_session_content,
\* window/terminal.rs:709, rekey_terminal_widgets, :20).
THEOREM WidgetsAlwaysFollow == Spec => []WidgetsFollowLayout
<1>1. Init => WidgetsFollowLayout
  <2> SUFFICES ASSUME Init PROVE Follows
    BY DEF WidgetsFollowLayout, Follows
  <2>1. widgets = Shown(workspaces)
    BY DEF Init
  <2> QED BY <2>1 DEF Follows, Leaves, Shown
<1>2. WindowInv /\ WidgetsFollowLayout /\ [Next]_vars => WidgetsFollowLayout'
  BY StepFollows
<1> QED BY <1>1, <1>2, WindowIsInductive, PTL DEF Spec

-----------------------------------------------------------------------------
(* Who says Connected.                                                      *)

\* An event that says something of the status of w, and a command that opens it.
Word(e, w) == e.ws = w /\ e.status # ""
Opening(c, w) == c.kind = "open" /\ c.ws = w

\* The word of position n of the channel, position 0 being what is shown now, is that w is
\* connected, and it comes from the actor in use.
Claims(n, w) ==
  IF n = 0 THEN workspaces[w].status = "live" /\ w \notin late
           ELSE events[n].ws = w /\ events[n].status = "live" /\ events[n].from = Len(actors)
Later(n, w) == \E m \in DOMAIN events : m > n /\ Word(events[m], w)

\* The actor tracks w, or is going to open it.
BackedBy(a, w) == w \in DOMAIN a.tracked \/ \E c \in ToSet(a.queue) : Opening(c, w)
Backed(w) == BackedBy(InUse, w)

\* Who is said to be connected is, unless there is a later word (handle_command, daemon_bridge.rs:776).
Credible ==
  life = "up" =>
    \A w \in DOMAIN workspaces : \A n \in DOMAIN events \cup {0} : Claims(n, w) => Backed(w) \/ Later(n, w)

\* Events come from actors there are, and some kinds say nothing of the status.
Stamped(e) == /\ e.from \in 0..Len(actors)
              /\ e.kind \in {"closed", "inventory", "delta"} => e.status = ""
Senders == \A e \in Sent : Stamped(e)

\* The actor in use is not told to stop, and opens again what it is told to forget and is shown
\* (forget_workspace before a recovery, daemon_bridge.rs:1534).
Orderly(q, shownIds) ==
  \A n \in DOMAIN q :
    /\ q[n].kind # "shutdown"
    /\ q[n].kind = "forget" /\ q[n].ws \in shownIds => \E m \in DOMAIN q : m > n /\ Opening(q[m], q[n].ws)
Reopened == Orderly(InUse.queue, DOMAIN workspaces)

Tracking == Credible /\ Senders /\ Reopened

\* The actor in use is the last one.
LEMMA InUseIs ==
  ASSUME Actors
  PROVE  /\ Len(actors) \in DOMAIN actors /\ InUse = actors[Len(actors)] /\ IsActor(InUse)
         /\ Len(actors) \in Nat \ {0} /\ DOMAIN actors = 1..Len(actors)
<1>1. DOMAIN actors = 1..Len(actors) /\ Len(actors) \in Nat /\ Len(actors) > 0
  BY SeqFacts DEF Actors
<1>2. InUse = actors[Len(actors)]
  BY DEF InUse, Last
<1> QED BY <1>1, <1>2 DEF Actors

\* The positions of the channel are numbers.
LEMMA Positions ==
  ASSUME Shape
  PROVE  DOMAIN events = 1..Len(events) /\ Len(events) \in Nat /\ \A n \in DOMAIN events : events[n] \in Sent
BY SeqFacts DEF Shape, Sent

\* A queue of which the head is taken and that gets more.
LEMMA OrderlyTail ==
  ASSUME NEW q, IsSeq(q), q # <<>>, NEW W, Orderly(q, W), NEW more, IsSeq(more),
         \A c \in ToSet(more) : c.kind \notin {"shutdown", "forget"}
  PROVE  Orderly(Tail(q) \o more, W)
<1> DEFINE t == Tail(q)
           u == t \o more
<1>1. /\ Len(q) \in Nat /\ DOMAIN q = 1..Len(q) /\ Len(q) > 0
      /\ IsSeq(t) /\ Len(t) = Len(q) - 1 /\ \A n \in 1..(Len(q) - 1) : t[n] = q[n + 1]
  BY SeqFacts, TailIsSeq
<1> HIDE DEF t
<1>2. /\ IsSeq(u) /\ Len(u) = Len(t) + Len(more)
      /\ \A n \in 1..(Len(t) + Len(more)) : u[n] = IF n <= Len(t) THEN t[n] ELSE more[n - Len(t)]
  BY <1>1, ConcatIsSeq
<1>3. Len(more) \in Nat /\ DOMAIN more = 1..Len(more) /\ \A n \in DOMAIN more : more[n] \in ToSet(more)
  BY SeqFacts
<1> HIDE DEF u
<1>4. DOMAIN u = 1..(Len(t) + Len(more))
  BY <1>2, SeqFacts
<1>5. ASSUME NEW n \in DOMAIN u
      PROVE  /\ u[n].kind # "shutdown"
             /\ u[n].kind = "forget" /\ u[n].ws \in W => \E m \in DOMAIN u : m > n /\ Opening(u[m], u[n].ws)
  <2>1. CASE n <= Len(t)
    <3>1. u[n] = q[n + 1] /\ n + 1 \in DOMAIN q
      <4>1. n \in 1..(Len(t) + Len(more)) /\ n \in 1..(Len(q) - 1) /\ n + 1 \in 1..Len(q)
        BY <1>1, <1>3, <1>4, <2>1
      <4>2. u[n] = t[n]
        BY <1>2, <2>1, <4>1
      <4>3. t[n] = q[n + 1]
        BY <1>1, <4>1
      <4> QED BY <1>1, <4>1, <4>2, <4>3
    <3>2. q[n + 1].kind # "shutdown"
      BY <3>1 DEF Orderly
    <3>3. ASSUME u[n].kind = "forget", u[n].ws \in W PROVE \E m \in DOMAIN u : m > n /\ Opening(u[m], u[n].ws)
      <4>1. PICK m \in DOMAIN q : m > n + 1 /\ Opening(q[m], u[n].ws)
        BY <3>1, <3>3 DEF Orderly
      <4>2. m - 1 \in 1..Len(t) /\ m - 1 \in DOMAIN u /\ m - 1 > n /\ (m - 1) + 1 = m
        BY <1>1, <1>3, <1>4, <4>1
      <4>3. u[m - 1] = q[m]
        <5>1. u[m - 1] = t[m - 1]
          BY <1>1, <1>2, <1>3, <4>2
        <5>2. t[m - 1] = q[(m - 1) + 1]
          BY <1>1, <4>2
        <5> QED BY <4>2, <5>1, <5>2
      <4> QED BY <4>1, <4>2, <4>3
    <3> QED BY <3>1, <3>2, <3>3
  <2>2. CASE n > Len(t)
    <3>1. u[n] \in ToSet(more)
      <4>1. n - Len(t) \in DOMAIN more /\ u[n] = more[n - Len(t)]
        BY <1>1, <1>2, <1>3, <1>4, <2>2, SMTT(30)
      <4> QED BY <1>3, <4>1
    <3> QED BY <3>1
  <2> QED BY <1>1, <1>4, <2>1, <2>2
<1>6. Orderly(u, W)
  BY <1>5 DEF Orderly
<1> QED BY <1>6 DEF u, t

\* A queue that gets the commands of the window: what comes to be shown is opened, what is forgotten
\* is not shown.
LEMMA OrderlyAppends ==
  ASSUME NEW q, IsSeq(q), NEW W, Orderly(q, W), NEW more, IsSeq(more), NEW V,
         \A c \in ToSet(more) : c.kind # "shutdown" /\ (c.kind = "forget" => c.ws \notin V),
         \A w \in V \ W : \E c \in ToSet(more) : Opening(c, w)
  PROVE  Orderly(q \o more, V)
<1> DEFINE u == q \o more
<1>1. Len(q) \in Nat /\ DOMAIN q = 1..Len(q)
  BY SeqFacts
<1>2. /\ IsSeq(u) /\ Len(u) = Len(q) + Len(more)
      /\ \A n \in 1..(Len(q) + Len(more)) : u[n] = IF n <= Len(q) THEN q[n] ELSE more[n - Len(q)]
  BY ConcatIsSeq
<1>3. /\ Len(more) \in Nat /\ DOMAIN more = 1..Len(more) /\ \A n \in DOMAIN more : more[n] \in ToSet(more)
      /\ \A c \in ToSet(more) : \E n \in DOMAIN more : more[n] = c
  BY SeqFacts
<1> HIDE DEF u
<1>4. DOMAIN u = 1..(Len(q) + Len(more))
  BY <1>2, SeqFacts
<1>5. ASSUME NEW n \in DOMAIN u
      PROVE  /\ u[n].kind # "shutdown"
             /\ u[n].kind = "forget" /\ u[n].ws \in V => \E m \in DOMAIN u : m > n /\ Opening(u[m], u[n].ws)
  <2>1. CASE n <= Len(q)
    <3>1. u[n] = q[n] /\ n \in DOMAIN q
      BY <1>1, <1>2, <1>3, <1>4, <2>1
    <3>2. q[n].kind # "shutdown"
      BY <3>1 DEF Orderly
    <3>3. ASSUME u[n].kind = "forget", u[n].ws \in V PROVE \E m \in DOMAIN u : m > n /\ Opening(u[m], u[n].ws)
      <4>1. CASE u[n].ws \in W
        <5>1. PICK m \in DOMAIN q : m > n /\ Opening(q[m], u[n].ws)
          BY <3>1, <3>3, <4>1 DEF Orderly
        <5>2. m \in DOMAIN u /\ u[m] = q[m]
          BY <1>1, <1>2, <1>3, <1>4, <5>1
        <5> QED BY <5>1, <5>2
      <4>2. CASE u[n].ws \notin W
        <5>1. PICK c \in ToSet(more) : Opening(c, u[n].ws)
          BY <3>3, <4>2
        <5>2. PICK m \in DOMAIN more : more[m] = c
          BY <1>3
        <5>3. m + Len(q) \in DOMAIN u /\ m + Len(q) > n /\ u[m + Len(q)] = c
          BY <1>1, <1>2, <1>3, <1>4, <2>1, <5>2
        <5> QED BY <5>1, <5>3
      <4> QED BY <4>1, <4>2
    <3> QED BY <3>1, <3>2, <3>3
  <2>2. CASE n > Len(q)
    <3>1. u[n] \in ToSet(more)
      <4>1. n - Len(q) \in DOMAIN more /\ u[n] = more[n - Len(q)]
        BY <1>1, <1>2, <1>3, <1>4, <2>2
      <4> QED BY <1>3, <4>1
    <3> QED BY <3>1
  <2> QED BY <1>1, <1>4, <2>1, <2>2
<1> QED BY <1>5 DEF Orderly, u

-----------------------------------------------------------------------------
(* What the window asks.                                                    *)

\* The actor in use gets commands, and is otherwise as it was.
Asked(list) ==
  /\ Actors' /\ Len(actors') = Len(actors)
  /\ InUse'.queue = InUse.queue \o list /\ InUse'.tracked = InUse.tracked /\ InUse'.link = InUse.link

\* Commands go to the actor in use (send_to_endpoint).
LEMMA SendAsks ==
  ASSUME Actors, NEW list, IsSeq(list), Send(list) \/ (list = <<>> /\ actors' = actors)
  PROVE  Asked(list)
<1>1. /\ Len(actors) \in DOMAIN actors /\ InUse = actors[Len(actors)] /\ IsActor(InUse)
      /\ Len(actors) \in Nat \ {0} /\ DOMAIN actors = 1..Len(actors)
  BY InUseIs
<1>2. CASE Send(list)
  <2>1. Actors'
    BY <1>2, SendAdds
  <2>2. actors' = [actors EXCEPT ![Len(actors)].queue = @ \o list]
    BY <1>2 DEF Send
  <2>3. DOMAIN actors' = DOMAIN actors
    BY <2>2
  <2>4. Len(actors') = Len(actors)
    <3>1. DOMAIN actors' = 1..Len(actors') /\ Len(actors') \in Nat
      BY <2>1, SeqFacts DEF Actors
    <3> QED BY <1>1, <2>3, <3>1
  <2>5. InUse' = actors'[Len(actors)]
    BY <2>4 DEF InUse, Last
  <2> QED BY <1>1, <2>1, <2>2, <2>4, <2>5 DEF Asked, IsActor
<1>3. CASE list = <<>> /\ actors' = actors
  <2>1. Actors' /\ InUse' = InUse
    BY <1>3, ActorsStay DEF InUse
  <2>2. InUse.queue \in Seq(ToSet(InUse.queue))
    BY <1>1 DEF IsActor, IsSeq
  <2>3. InUse.queue \o <<>> = InUse.queue
    BY <2>2, ConcatEmptySeq
  <2> QED BY <1>3, <2>1, <2>3 DEF Asked
<1> QED BY <1>2, <1>3

\* Who was backed stays so, and who is opened becomes so.
LEMMA AskedBacks ==
  ASSUME Actors, NEW list, IsSeq(list), Asked(list)
  PROVE  /\ \A w : Backed(w) => Backed(w)'
         /\ \A w : (\E c \in ToSet(list) : Opening(c, w)) => Backed(w)'
<1>1. IsSeq(InUse.queue)
  BY InUseIs DEF IsActor
<1>2. ToSet(InUse'.queue) = ToSet(InUse.queue) \cup ToSet(list)
  BY <1>1, ConcatIsSeq DEF Asked
<1> QED BY <1>2 DEF Backed, BackedBy, Asked

\* What the window asks keeps its queue in order.
LEMMA AskedKeepsOrder ==
  ASSUME Actors, Reopened, NEW list, IsSeq(list), Asked(list),
         \A c \in ToSet(list) : c.kind # "shutdown" /\ (c.kind = "forget" => c.ws \notin DOMAIN workspaces'),
         \A w \in DOMAIN workspaces' : w \in DOMAIN workspaces \/ \E c \in ToSet(list) : Opening(c, w)
  PROVE  Reopened'
<1> DEFINE q == InUse.queue
           W == DOMAIN workspaces
           V == DOMAIN workspaces'
<1>1. IsSeq(q) /\ Orderly(q, W)
  BY InUseIs DEF IsActor, Reopened
<1>2. /\ \A c \in ToSet(list) : c.kind # "shutdown" /\ (c.kind = "forget" => c.ws \notin V)
      /\ \A w \in V \ W : \E c \in ToSet(list) : Opening(c, w)
  OBVIOUS
<1>3. InUse'.queue = q \o list
  BY DEF Asked
<1>4. Reopened' = Orderly(InUse'.queue, V)
  BY DEF Reopened
<1> HIDE DEF q, W, V
<1>5. Orderly(q \o list, V)
  BY <1>1, <1>2, OrderlyAppends
<1> QED BY <1>3, <1>4, <1>5

\* A step of the window that tells nothing: a workspace keeps its status, waits, or is opened.
LEMMA AskedTracks ==
  ASSUME WindowInv, Tracking, NEW list, IsSeq(list), Asked(list), UNCHANGED <<events, late>>, life = "up",
         \A c \in ToSet(list) : c.kind # "shutdown" /\ (c.kind = "forget" => c.ws \notin DOMAIN workspaces'),
         \A w \in DOMAIN workspaces' :
           \/ \E c \in ToSet(list) : Opening(c, w)
           \/ /\ w \in DOMAIN workspaces
              /\ workspaces'[w].status = workspaces[w].status \/ workspaces'[w].status = "waiting"
  PROVE  Tracking'
<1>0. Actors /\ Shape
  BY DEF WindowInv, Shape
<1>1. Reopened'
  BY <1>0, AskedKeepsOrder DEF Tracking
<1>2. Senders'
  BY DEF Tracking, Senders, Sent, Stamped, Asked
<1>3. ASSUME NEW w \in DOMAIN workspaces', NEW n \in DOMAIN events' \cup {0}, Claims(n, w)'
      PROVE  Backed(w)' \/ Later(n, w)'
  <2>1. CASE \E c \in ToSet(list) : Opening(c, w)
    BY <1>0, <2>1, AskedBacks
  <2>2. CASE ~\E c \in ToSet(list) : Opening(c, w)
    <3>1. w \in DOMAIN workspaces /\ Claims(n, w)
      BY <1>3, <2>2 DEF Claims, Asked
    <3>2. Backed(w) \/ Later(n, w)
      BY <1>3, <3>1 DEF Tracking, Credible
    <3>3. Later(n, w) => Later(n, w)'
      BY DEF Later
    <3> QED BY <1>0, <3>2, <3>3, AskedBacks
  <2> QED BY <2>1, <2>2
<1> QED BY <1>1, <1>2, <1>3 DEF Tracking, Credible

\* One command is sent, or none, that forgets nothing and stops nobody; no workspace comes.
LEMMA OneAskedTracks ==
  ASSUME WindowInv, Tracking, NEW c, Send(<<c>>) \/ actors' = actors, c.kind \notin {"shutdown", "forget"},
         UNCHANGED <<events, late>>, life = "up",
         \A w \in DOMAIN workspaces' :
           \/ Send(<<c>>) /\ Opening(c, w)
           \/ /\ w \in DOMAIN workspaces
              /\ workspaces'[w].status = workspaces[w].status \/ workspaces'[w].status = "waiting"
  PROVE  Tracking'
<1>0. Actors
  BY DEF WindowInv, Shape
<1>1. CASE Send(<<c>>)
  <2>1. IsSeq(<<c>>) /\ ToSet(<<c>>) = {c}
    BY ShortSeqs
  <2>2. Asked(<<c>>)
    BY <1>0, <1>1, <2>1, SendAsks
  <2> QED BY <2>1, <2>2, AskedTracks
<1>2. CASE ~Send(<<c>>)
  <2>1. IsSeq(<<>>) /\ ToSet(<<>>) = {}
    BY ShortSeqs
  <2>2. Asked(<<>>)
    BY <1>0, <1>2, <2>1, SendAsks
  <2> QED BY <1>2, <2>1, <2>2, AskedTracks
<1> QED BY <1>1, <1>2

\* A workspace is added: it is opened (window/runtime.rs:263, 335).
LEMMA AddedTracks ==
  ASSUME WindowInv, Tracking, life = "up", NEW w, NEW t, NEW r, NEW c,
         workspaces' = With(workspaces, w, Workspace(<<t>>, r)), Send(<<c>>), c.kind = "open", c.ws = w,
         UNCHANGED <<events, late>>
  PROVE  Tracking'
<1>1. /\ DOMAIN workspaces' = DOMAIN workspaces \cup {w}
      /\ \A v \in DOMAIN workspaces' : v # w => v \in DOMAIN workspaces /\ workspaces'[v] = workspaces[v]
  BY DEF With
<1> QED BY <1>1, OneAskedTracks DEF Opening

\* The statuses are left as they are.
SameStatuses ==
  /\ DOMAIN workspaces' = DOMAIN workspaces
  /\ \A w \in DOMAIN workspaces : workspaces'[w].status = workspaces[w].status

\* Workspaces are closed: they are forgotten and shown no more (window/mod.rs:1111, 1182).
LEMMA EndsTrack ==
  ASSUME WindowInv, Tracking, NEW gone \in SUBSET DOMAIN workspaces, EndWorkspaces(gone), life = "up",
         workspaces' = Without(workspaces, gone), late' = late,
         (life' = "up" /\ events' = events) \/ (life' = "leaving" /\ events' = <<>>)
  PROVE  Tracking'
<1> DEFINE list == Farewell(gone)
<1>0. Actors
  BY DEF WindowInv, Shape
<1>1. /\ DOMAIN workspaces' = DOMAIN workspaces \ gone
      /\ \A w \in DOMAIN workspaces' : workspaces'[w] = workspaces[w]
  BY DEF Without, Restrict
<1>2. /\ IsSeq(list)
      /\ \A c \in ToSet(list) : c.kind # "shutdown" /\ (c.kind = "forget" => c.ws \notin DOMAIN workspaces')
  BY <1>1, FarewellIsSeq
<1>3. Send(list)
  BY DEF EndWorkspaces
<1> HIDE DEF list
<1>4. Asked(list)
  BY <1>0, <1>2, <1>3, SendAsks
<1>5. CASE events' = events
  BY <1>1, <1>2, <1>4, <1>5, AskedTracks
<1>6. CASE life' = "leaving" /\ events' = <<>>
  <2>1. Reopened'
    BY <1>0, <1>1, <1>2, <1>4, AskedKeepsOrder DEF Tracking
  <2>2. Sent' = {}
    BY <1>6, ShortSeqs DEF Sent
  <2> QED BY <1>6, <2>1, <2>2 DEF Tracking, Credible, Senders
<1> QED BY <1>5, <1>6

\* A workspace is detached: forgotten too (window/mod.rs:1042).
LEMMA DetachRuntimeTracks ==
  ASSUME WindowInv, Tracking, NEW w \in DOMAIN workspaces, DetachRuntime(w)
  PROVE  Tracking'
<1> DEFINE r == workspaces[w].runtime
           a == Command("detach", w, r, None, None)
           b == Command("forget", w, None, None, None)
<1>0. Actors
  BY DEF WindowInv, Shape
<1>1. /\ life = "up" /\ workspaces' = Without(workspaces, {w}) /\ UNCHANGED <<events, late>>
      /\ actors' = actors \/ Send(<<a, b>>)
  BY DEF DetachRuntime, DrawWithout, Asks, aside
<1>2. a.kind = "detach" /\ b.kind = "forget" /\ b.ws = w
  BY DEF Command
<1> HIDE DEF a, b
<1>3. /\ DOMAIN workspaces' = DOMAIN workspaces \ {w}
      /\ \A v \in DOMAIN workspaces' : workspaces'[v] = workspaces[v]
  BY <1>1 DEF Without, Restrict
<1>4. CASE Send(<<a, b>>)
  <2>1. IsSeq(<<a, b>>) /\ ToSet(<<a, b>>) = {a, b}
    BY ShortSeqs
  <2>2. Asked(<<a, b>>)
    BY <1>0, <1>4, <2>1, SendAsks
  <2> QED BY <1>1, <1>2, <1>3, <2>1, <2>2, AskedTracks
<1>5. CASE actors' = actors
  <2>1. IsSeq(<<>>) /\ ToSet(<<>>) = {}
    BY ShortSeqs
  <2>2. Asked(<<>>)
    BY <1>0, <1>5, <2>1, SendAsks
  <2> QED BY <1>1, <1>3, <2>1, <2>2, AskedTracks
<1> QED BY <1>1, <1>4, <1>5

\* The commands that open workspaces, each of them.
LEMMA OpensAll ==
  ASSUME Shape, NEW ws, NEW ids \in SUBSET (Issued \cup {None})
  PROVE  /\ IsSeq(Opens(ws, ids))
         /\ \A c \in ToSet(Opens(ws, ids)) : c.kind = "open"
         /\ \A w \in ids : \E c \in ToSet(Opens(ws, ids)) : Opening(c, w)
<1> DEFINE order == Ordered(ids)
           list == Opens(ws, ids)
           bound == MaxWorkspaces + MaxRuntimes
<1>1. bound \in Nat /\ ids \in SUBSET Nat /\ \A w \in ids : w <= bound
  BY Numbers, KnownNumbers
<1> HIDE DEF bound
<1>2. \A w \in ids : \E n \in DOMAIN order : order[n] = w
  BY <1>1, OrderedIsSeq
<1>3. DOMAIN list = DOMAIN order /\ \A n \in DOMAIN list : list[n] = Open(ws, order[n])
  BY DEF Opens
<1> HIDE DEF order, list
<1>4. ASSUME NEW w \in ids PROVE \E c \in ToSet(list) : Opening(c, w)
  <2>1. PICK n \in DOMAIN order : order[n] = w
    BY <1>2
  <2>2. list[n] \in ToSet(list) /\ list[n] = Open(ws, w)
    BY <1>3, <2>1 DEF ToSet
  <2> QED BY <2>2 DEF Opening, Open, Command
<1>5. IsSeq(Opens(ws, ids)) /\ \A c \in ToSet(Opens(ws, ids)) : c.kind = "open"
  BY OpensIsSeq
<1> QED BY <1>4, <1>5 DEF list

\* The actor is replaced: what the old one has told is the word of another actor now, and every
\* workspace is opened by the new one (retry_all_workspaces_for_endpoint, window/runtime.rs:623).
LEMMA RetryEndpointTracks ==
  ASSUME WindowInv, Tracking, NEW w \in DOMAIN workspaces, RetryEndpoint(w)
  PROVE  Tracking'
<1> DEFINE last == Len(actors)
           ids == Reconnected(workspaces, w)
           opens == Opens(workspaces, ids)
           before == [actors EXCEPT ![last].queue = Append(@, Command("shutdown", None, None, None, None))]
           new == [Fresh EXCEPT !.queue = opens]
<1>0. Shape /\ Actors /\ DOMAIN workspaces \in SUBSET (Issued \cup {None})
  BY DEF WindowInv, Shape, Numbered
<1>1. actors' = Append(before, new) /\ UNCHANGED <<events, late>>
  BY DEF RetryEndpoint, aside
<1>2. DOMAIN workspaces' = DOMAIN workspaces
  BY DEF RetryEndpoint
<1>3. ids = DOMAIN workspaces
  BY DEF Reconnected
<1>4. new.queue = opens
  BY DEF Fresh
<1>5. /\ IsSeq(opens)
      /\ \A c \in ToSet(opens) : c.kind = "open"
      /\ \A v \in DOMAIN workspaces : \E c \in ToSet(opens) : Opening(c, v)
  BY <1>0, <1>3, OpensAll
<1>6. last \in Nat \ {0} /\ DOMAIN actors = 1..last
  BY <1>0, InUseIs
<1> HIDE DEF opens, ids
<1>7. Len(actors') = last + 1 /\ InUse' = new
  <2>1. Len(before) = last /\ IsSeq(before)
    <3>1. before = [n \in 1..last |-> before[n]]
      BY <1>6
    <3> HIDE DEF before
    <3> QED BY <1>6, <3>1, ListIsSeq
  <2> HIDE DEF before, new, last
  <2>2. before \in Seq(ToSet(before) \cup {new}) /\ new \in ToSet(before) \cup {new}
    BY <2>1, SeqMonotonic DEF IsSeq
  <2>3. Len(actors') = last + 1 /\ actors'[last + 1] = new
    BY <1>1, <1>6, <2>1, <2>2, AppendProperties
  <2> QED BY <2>3 DEF InUse, Last
<1> HIDE DEF before, new, last
<1>8. \A v \in DOMAIN workspaces' : Backed(v)'
  BY <1>2, <1>4, <1>5, <1>7 DEF Backed, BackedBy
<1>9. Senders'
  <2>1. \A n : n \in 0..last => n \in 0..(last + 1)
    BY <1>6
  <2> QED BY <1>1, <1>7, <2>1 DEF Tracking, Senders, Sent, Stamped, last
<1>10. Reopened'
  <2>1. \A n \in DOMAIN opens : opens[n].kind = "open"
    BY <1>5, SeqFacts
  <2> QED BY <1>4, <1>7, <2>1 DEF Reopened, Orderly
<1> QED BY <1>8, <1>9, <1>10 DEF Tracking, Credible

\* The user's operations.
LEMMA UserActsTrack ==
  ASSUME WindowInv, Tracking, UserActs
  PROVE  Tracking'
<1>0. Shape /\ life = "up"
  BY UserActsAreOrders DEF WindowInv, Orders
<1>1. ASSUME AddWorkspace PROVE Tracking'
  <2> DEFINE w == Newest("workspaces")
             t == Newest("terminals")
             c == Open(With(workspaces, w, Workspace(<<t>>, None)), w)
  <2>1. /\ workspaces' = With(workspaces, w, Workspace(<<t>>, None)) /\ Send(<<c>>)
        /\ UNCHANGED <<events, late>>
    BY <1>1 DEF AddWorkspace, Draw, DrawWithout, aside
  <2>2. c.kind = "open" /\ c.ws = w
    BY DEF Open, Command
  <2> HIDE DEF w, t, c
  <2> QED BY <1>0, <2>1, <2>2, AddedTracks
<1>2. ASSUME NEW r \in offer, AttachToExistingRuntime(r) PROVE Tracking'
  <2> DEFINE w == Newest("workspaces")
             t == Newest("terminals")
             c == Open(With(workspaces, w, Workspace(<<t>>, r)), w)
  <2>1. /\ workspaces' = With(workspaces, w, Workspace(<<t>>, r)) /\ Send(<<c>>)
        /\ UNCHANGED <<events, late>>
    BY <1>2 DEF AttachToExistingRuntime, Draw, DrawWithout
  <2>2. c.kind = "open" /\ c.ws = w
    BY DEF Open, Command
  <2> HIDE DEF w, t, c
  <2> QED BY <1>0, <2>1, <2>2, AddedTracks
<1>3. ASSUME CloseAllSessions PROVE Tracking'
  <2>1. /\ EndWorkspaces(DOMAIN workspaces) /\ workspaces' = <<>> /\ UNCHANGED <<life, events, late>>
    BY <1>3 DEF CloseAllSessions, Draw, DrawWithout, aside
  <2>2. Without(workspaces, DOMAIN workspaces) = [x \in {} |-> workspaces[x]] /\ [x \in {} |-> workspaces[x]] = <<>>
    BY DEF Without, Restrict
  <2> QED BY <1>0, <2>1, <2>2, EndsTrack
<1>4. ASSUME ConnectExisting \/ DismissDialog \/ CloseDirect PROVE Tracking'
  <2> DEFINE c == Command("inventory", None, None, None, None)
  <2>1. /\ workspaces' = workspaces /\ UNCHANGED <<events, late>> /\ (actors' = actors \/ Send(<<c>>))
    BY <1>4 DEF ConnectExisting, DismissDialog, CloseDirect, screen, aside, dialog
  <2>2. c.kind = "inventory"
    BY DEF Command
  <2> HIDE DEF c
  <2> QED BY <1>0, <2>1, <2>2, OneAskedTracks
<1>5. ASSUME NEW w \in DOMAIN workspaces, CloseSession(w) PROVE Tracking'
  <2>1. /\ EndWorkspaces({w}) /\ workspaces' = Without(workspaces, {w}) /\ late' = late
        /\ (life' = "up" /\ events' = events) \/ (life' = "leaving" /\ events' = <<>>)
    <3>1. EndWorkspaces({w}) /\ late' = late
      BY <1>5 DEF CloseSession, aside
    <3>2. CASE Count > 1
      BY <1>0, <1>5, <3>1, <3>2 DEF CloseSession, DrawWithout
    <3>3. CASE ~(Count > 1)
      BY <1>5, <3>1, <3>3 DEF CloseSession, Draw, DrawWithout
    <3> QED BY <3>2, <3>3
  <2> QED BY <1>0, <2>1, EndsTrack
<1>6. ASSUME NEW w \in DOMAIN workspaces, DetachRuntime(w) PROVE Tracking'
  BY <1>6, DetachRuntimeTracks
<1>7. ASSUME NEW w \in DOMAIN workspaces, RetryWorkspace(w) PROVE Tracking'
  <2> DEFINE c == Open(workspaces, w)
  <2>1. /\ workspaces' = [workspaces EXCEPT ![w].status = "waiting"] /\ Send(<<c>>) /\ UNCHANGED <<events, late>>
    BY <1>7 DEF RetryWorkspace, aside
  <2>2. c.kind = "open" /\ c.ws = w
    BY DEF Open, Command
  <2> HIDE DEF c
  <2> QED BY <1>0, <2>1, <2>2, OneAskedTracks DEF Opening
<1>8. ASSUME NEW w \in DOMAIN workspaces, RetryEndpoint(w) PROVE Tracking'
  BY <1>8, RetryEndpointTracks
<1>9. ASSUME NEW w \in DOMAIN workspaces, NEW t,
             SplitTerminal(w, t) \/ ClosePaneOf(w, t) \/ TogglePaneZoom(w, t)
      PROVE  Tracking'
  <2>1. UNCHANGED <<events, late>>
    BY <1>9 DEF SplitTerminal, ClosePaneOf, TogglePaneZoom, aside
  <2>2. SameStatuses
    <3>1. \A v \in DOMAIN workspaces : IsWorkspace(workspaces[v])
      BY <1>0 DEF Shape
    <3>2. CASE SplitTerminal(w, t)
      BY <3>1, <3>2 DEF SplitTerminal, Draw, DrawWithout, IsWorkspace, SameStatuses
    <3>3. CASE ClosePaneOf(w, t)
      BY <3>1, <3>3 DEF ClosePaneOf, Draw, DrawWithout, IsWorkspace, SameStatuses
    <3>4. CASE TogglePaneZoom(w, t)
      BY <3>1, <3>4 DEF TogglePaneZoom, Draw, DrawWithout, IsWorkspace, SameStatuses
    <3> QED BY <1>9, <3>2, <3>3, <3>4
  <2>3. \E c : c.kind \notin {"shutdown", "forget"} /\ (Send(<<c>>) \/ actors' = actors)
    <3> DEFINE split == [workspaces EXCEPT ![w].zoom = None, ![w].layout = SplitLayout(@, t, Newest("terminals"))]
               a == Command("split", w, split[w].runtime, t, Newest("terminals"))
               unzoomed == [workspaces EXCEPT ![w].zoom = None]
               ws == IF unzoomed[w].runtime # None THEN unzoomed
                     ELSE [unzoomed EXCEPT ![w].layout = RemoveLeaf(@, t)]
               b == Command("close", w, ws[w].runtime, t, None)
    <3>1. Send(<<a>>) \/ Send(<<b>>) \/ actors' = actors
      BY <1>9 DEF SplitTerminal, ClosePaneOf, TogglePaneZoom
    <3>2. a.kind = "split" /\ b.kind = "close"
      BY DEF Command
    <3> HIDE DEF a, b
    <3>3. a.kind \notin {"shutdown", "forget"} /\ b.kind \notin {"shutdown", "forget"}
      BY <3>2
    <3> QED BY <3>1, <3>3
  <2> QED BY <1>0, <2>1, <2>2, <2>3, OneAskedTracks DEF SameStatuses
<1> QED BY <1>1, <1>2, <1>3, <1>4, <1>5, <1>6, <1>7, <1>8, <1>9 DEF UserActs

-----------------------------------------------------------------------------
(* What the actors tell.                                                    *)

\* What is emitted is stamped, and goes behind the rest.
LEMMA EmitStamps ==
  ASSUME Shape, NEW from, NEW list, IsSeq(list), Emit(from, list)
  PROVE  \/ events' = events /\ life # "up"
         \/ \E more : /\ IsSeq(more) /\ DOMAIN more = DOMAIN list /\ events' = events \o more
                      /\ \A n \in DOMAIN list : more[n] = [list[n] EXCEPT !.from = from]
<1>1. CASE life = "up"
  <2> DEFINE more == [n \in DOMAIN list |-> [list[n] EXCEPT !.from = from]]
  <2>1. DOMAIN list = 1..Len(list) /\ Len(list) \in Nat
    BY SeqFacts
  <2>2. more = [n \in 1..Len(list) |-> more[n]]
    BY <2>1
  <2>3. events' = events \o more
    BY <1>1 DEF Emit
  <2>4. DOMAIN more = DOMAIN list /\ \A n \in DOMAIN list : more[n] = [list[n] EXCEPT !.from = from]
    OBVIOUS
  <2> HIDE DEF more
  <2>5. IsSeq(more)
    BY <2>1, <2>2, ListIsSeq
  <2> QED BY <2>3, <2>4, <2>5
<1>2. CASE life # "up"
  BY <1>2 DEF Emit
<1> QED BY <1>1, <1>2

\* A word that is told without its stamp.
IsToldOf(list, w) == \E n \in DOMAIN list : Word(list[n], w)
IsSaid(e) == IsRecord(e) /\ "from" \in DOMAIN e /\ "status" \in DOMAIN e
             /\ (e.kind \in {"closed", "inventory", "delta"} => e.status = "")

\* An actor changes and tells. If it is the one in use, whoever it backs no more is told of, and whoever
\* it says is connected it backs.
LEMMA TellsTrack ==
  ASSUME WindowInv, Tracking, NEW i \in DOMAIN actors, NEW a, IsActor(a), actors' = [actors EXCEPT ![i] = a],
         UNCHANGED <<life, workspaces, late>>,
         NEW from \in {None, i}, NEW list, IsSeq(list), Emit(from, list),
         \A n \in DOMAIN list : IsSaid(list[n]),
         i = Len(actors) =>
           /\ Orderly(a.queue, DOMAIN workspaces)
           /\ \A w \in DOMAIN workspaces : Backed(w) => BackedBy(a, w) \/ IsToldOf(list, w)
           /\ from = i => \A n \in DOMAIN list : list[n].status = "live" => BackedBy(a, list[n].ws)
  PROVE  Tracking'
<1>0. Shape /\ Actors
  BY DEF WindowInv, Shape
<1>1. /\ InUse = actors[Len(actors)] /\ Len(actors) \in Nat \ {0} /\ DOMAIN actors = 1..Len(actors)
      /\ Len(actors) \in DOMAIN actors
  BY <1>0, InUseIs
<1>2. Len(actors') = Len(actors) /\ InUse' = IF i = Len(actors) THEN a ELSE InUse
  <2>1. actors' = [n \in 1..Len(actors) |-> actors'[n]]
    BY <1>1
  <2>2. Len(actors') = Len(actors)
    BY <1>1, <2>1, ListIsSeq
  <2> QED BY <1>1, <2>2 DEF InUse, Last
<1>3. Reopened'
  BY <1>2 DEF Tracking, Reopened
<1>4. from \in 0..Len(actors) /\ (from = Len(actors) => from = i)
  BY <1>1 DEF None
<1>5. CASE events' = events /\ life # "up"
  <2>1. Senders'
    BY <1>2, <1>5 DEF Tracking, Senders, Sent, Stamped
  <2> QED BY <1>3, <1>5, <2>1 DEF Tracking, Credible
<1>6. ASSUME NEW more, IsSeq(more), DOMAIN more = DOMAIN list, events' = events \o more,
             \A n \in DOMAIN list : more[n] = [list[n] EXCEPT !.from = from]
      PROVE  Tracking'
  <2>1. \A n \in DOMAIN more :
          /\ more[n].from = from /\ more[n].ws = list[n].ws /\ more[n].status = list[n].status
          /\ more[n].kind = list[n].kind
    BY <1>6, ZenonT(30) DEF IsSaid, IsRecord
  <2> DEFINE k == Len(events)
  <2>2. k \in Nat /\ DOMAIN events = 1..k
    BY <1>0, Positions
  <2>3. Len(more) \in Nat /\ DOMAIN more = 1..Len(more)
    BY <1>6, SeqFacts
  <2>4. /\ IsSeq(events') /\ Len(events') = k + Len(more)
        /\ \A n \in 1..(k + Len(more)) : events'[n] = IF n <= k THEN events[n] ELSE more[n - k]
        /\ ToSet(events') = ToSet(events) \cup ToSet(more)
    BY <1>0, <1>6, ConcatIsSeq DEF Shape
  <2>5. DOMAIN events' = 1..(k + Len(more))
    BY <2>4, SeqFacts
  <2> HIDE DEF k
  <2>6. Senders'
    <3> SUFFICES ASSUME NEW e \in Sent' PROVE Stamped(e)'
      BY DEF Senders
    <3>1. CASE e \in Sent
      BY <1>2, <3>1 DEF Tracking, Senders, Stamped
    <3>2. CASE e \in ToSet(more)
      <4>1. PICK n \in DOMAIN more : more[n] = e
        BY <3>2 DEF ToSet
      <4> QED BY <1>2, <1>4, <1>6, <2>1, <4>1 DEF Stamped, IsSaid
    <3> QED BY <2>4, <3>1, <3>2 DEF Sent
  <2>7. ASSUME life = "up", NEW w \in DOMAIN workspaces, NEW n \in DOMAIN events' \cup {0}, Claims(n, w)'
        PROVE  Backed(w)' \/ Later(n, w)'
    <3>1. CASE n \in DOMAIN events \cup {0}
      <4>1. Claims(n, w)
        <5>1. CASE n = 0
          BY <2>7, <5>1 DEF Claims
        <5>2. CASE n # 0
          <6>1. events'[n] = events[n]
            BY <2>2, <2>3, <2>4, <3>1, <5>2
          <6> QED BY <1>2, <2>7, <5>2, <6>1 DEF Claims
        <5> QED BY <5>1, <5>2
      <4>2. CASE Later(n, w)
        <5>1. PICK m \in DOMAIN events : m > n /\ Word(events[m], w)
          BY <4>2 DEF Later
        <5>2. m \in DOMAIN events' /\ events'[m] = events[m]
          BY <2>2, <2>3, <2>4, <2>5, <5>1
        <5> QED BY <5>1, <5>2 DEF Later
      <4>3. CASE Backed(w)
        <5>1. CASE i # Len(actors)
          BY <1>2, <4>3, <5>1 DEF Backed
        <5>2. CASE i = Len(actors)
          <6>1. BackedBy(a, w) \/ IsToldOf(list, w)
            BY <4>3, <5>2
          <6>2. CASE BackedBy(a, w)
            BY <1>2, <5>2, <6>2 DEF Backed
          <6>3. CASE IsToldOf(list, w)
            <7>1. PICK l \in DOMAIN more : Word(list[l], w)
              BY <1>6, <6>3 DEF IsToldOf
            <7>2. Word(more[l], w)
              BY <2>1, <7>1 DEF Word
            <7>3. k + l \in DOMAIN events' /\ k + l > n
              BY <2>2, <2>3, <2>5, <3>1
            <7>4. events'[k + l] = more[l]
              <8>1. k + l > k /\ (k + l) - k = l
                BY <2>2, <2>3
              <8>2. events'[k + l] = more[(k + l) - k]
                BY <2>2, <2>3, <2>4, <8>1
              <8> QED BY <8>1, <8>2
            <7> QED BY <7>2, <7>3, <7>4 DEF Later
          <6> QED BY <6>1, <6>2, <6>3
        <5> QED BY <5>1, <5>2
      <4> QED BY <2>7, <3>1, <4>1, <4>2, <4>3 DEF Tracking, Credible
    <3>2. CASE n \notin DOMAIN events \cup {0}
      <4>1. n > k /\ n - k \in DOMAIN more /\ events'[n] = more[n - k]
        BY <2>2, <2>3, <2>4, <2>5, <3>2
      <4>2. events'[n].ws = w /\ events'[n].status = "live" /\ events'[n].from = Len(actors)
        BY <1>2, <2>2, <2>7, <3>2 DEF Claims
      <4>3. from = Len(actors) /\ list[n - k].ws = w /\ list[n - k].status = "live"
        BY <2>1, <4>1, <4>2
      <4>4. i = Len(actors) /\ from = i
        BY <1>4, <4>3
      <4>5. BackedBy(a, w)
        BY <1>6, <4>1, <4>3, <4>4
      <4> QED BY <1>2, <4>4, <4>5 DEF Backed
    <3> QED BY <3>1, <3>2
  <2> QED BY <1>3, <2>6, <2>7 DEF Tracking, Credible
<1> QED BY <1>0, <1>5, <1>6, EmitStamps

\* An actor is done with a command and tells.
LEMMA DoneTracks ==
  ASSUME WindowInv, Tracking, NEW i \in DOMAIN actors, actors[i].queue # <<>>,
         NEW c, c = Head(actors[i].queue),
         NEW link, NEW tracked, NEW more, IsSeq(more), Done(i, link, tracked, more),
         \A x \in ToSet(more) : x.kind \notin {"shutdown", "forget"},
         UNCHANGED <<life, workspaces, late>>,
         NEW from \in {None, i}, NEW list, IsSeq(list), Emit(from, list),
         \A n \in DOMAIN list : IsSaid(list[n]),
         \A w \in DOMAIN actors[i].tracked :
           \/ w \in DOMAIN tracked \/ IsToldOf(list, w)
           \/ i = Len(actors) /\ w \in DOMAIN workspaces => \E x \in ToSet(Tail(actors[i].queue)) : Opening(x, w),
         c.kind = "open" => c.ws \in DOMAIN tracked \/ IsToldOf(list, c.ws),
         \A n \in DOMAIN list : list[n].status = "live" /\ from = i => list[n].ws \in DOMAIN tracked
  PROVE  Tracking'
<1> DEFINE q == actors[i].queue
           a == [queue |-> Tail(q) \o more, tracked |-> tracked, link |-> link]
<1>0. Actors
  BY DEF WindowInv, Shape
<1>1. IsSeq(q) /\ q # <<>> /\ c = Head(q)
  BY <1>0 DEF Actors, IsActor
<1>2. actors' = [actors EXCEPT ![i] = a]
  BY DEF Done
<1>3. a.queue = Tail(q) \o more /\ a.tracked = tracked /\ DOMAIN a = {"queue", "tracked", "link"}
  OBVIOUS
<1>4. i = Len(actors) => InUse = actors[i] /\ Orderly(q, DOMAIN workspaces)
  BY <1>0, InUseIs DEF Tracking, Reopened
<1>5. i = Len(actors) => InUse.queue = q /\ InUse.tracked = actors[i].tracked
  BY <1>4
<1> HIDE DEF q, a
<1>6. /\ IsSeq(Tail(q)) /\ Len(Tail(q)) = Len(q) - 1
      /\ \A n \in 1..(Len(q) - 1) : Tail(q)[n] = q[n + 1]
      /\ Head(q) = q[1]
  BY <1>1, TailIsSeq
<1>7. IsSeq(a.queue) /\ ToSet(a.queue) = ToSet(Tail(q)) \cup ToSet(more)
  BY <1>3, <1>6, ConcatIsSeq
<1>8. IsActor(a)
  BY <1>3, <1>7 DEF IsActor
<1>9. i = Len(actors) => Orderly(a.queue, DOMAIN workspaces)
  BY <1>1, <1>3, <1>4, OrderlyTail
<1>10. ASSUME NEW x \in ToSet(q) PROVE x = c \/ x \in ToSet(Tail(q))
  <2>1. PICK n \in DOMAIN q : q[n] = x
    BY DEF ToSet
  <2>2. DOMAIN q = 1..Len(q) /\ Len(q) \in Nat /\ DOMAIN Tail(q) = 1..(Len(q) - 1)
    BY <1>1, <1>6, SeqFacts
  <2>3. CASE n = 1
    BY <1>1, <1>6, <2>1, <2>3
  <2>4. CASE n # 1
    <3>1. n - 1 \in 1..(Len(q) - 1) /\ (n - 1) + 1 = n
      BY <2>2, <2>4
    <3>2. Tail(q)[n - 1] = x
      BY <1>6, <2>1, <3>1
    <3> QED BY <2>2, <3>1, <3>2 DEF ToSet
  <2> QED BY <2>3, <2>4
<1>11. ASSUME i = Len(actors), NEW w \in DOMAIN workspaces, Backed(w) PROVE BackedBy(a, w) \/ IsToldOf(list, w)
  <2>1. w \in DOMAIN actors[i].tracked \/ \E x \in ToSet(q) : Opening(x, w)
    BY <1>5, <1>11 DEF Backed, BackedBy
  <2>2. CASE w \in DOMAIN actors[i].tracked
    <3>1. w \in DOMAIN tracked \/ IsToldOf(list, w) \/ \E x \in ToSet(Tail(q)) : Opening(x, w)
      BY <1>11, <2>2 DEF q
    <3> QED BY <1>3, <1>7, <3>1 DEF BackedBy
  <2>3. ASSUME NEW x \in ToSet(q), Opening(x, w) PROVE BackedBy(a, w) \/ IsToldOf(list, w)
    <3>1. CASE x = c
      BY <1>3, <2>3, <3>1 DEF BackedBy, Opening
    <3>2. CASE x \in ToSet(Tail(q))
      BY <1>7, <2>3, <3>2 DEF BackedBy
    <3> QED BY <1>10, <3>1, <3>2
  <2> QED BY <2>1, <2>2, <2>3
<1>12. from = i => \A n \in DOMAIN list : list[n].status = "live" => BackedBy(a, list[n].ws)
  BY <1>3 DEF BackedBy
<1> QED BY <1>2, <1>8, <1>9, <1>11, <1>12, TellsTrack

\* What the actors and the daemon say, and of which status.
LEMMA SaidAre ==
  /\ \A w, status : /\ IsSaid(Changed(w, status))
                    /\ Changed(w, status).ws = w /\ Changed(w, status).status = status
  /\ \A p : IsSaid(Delta(p)) /\ Delta(p).status = ""
  /\ \A w, r, leaves, status : /\ IsSaid(Opened(w, r, leaves, status))
                               /\ Opened(w, r, leaves, status).ws = w
                               /\ Opened(w, r, leaves, status).status = status
  /\ \A c, p : IsSaid(Created(c, p)) /\ Created(c, p).ws = c.ws /\ Created(c, p).status = "live"
BY DEF Event, Changed, Delta, Opened, Created, IsSaid, IsRecord

\* A list of one.
LEMMA OneSaid ==
  ASSUME NEW e
  PROVE  /\ IsSeq(<<e>>) /\ DOMAIN <<e>> = {1} /\ <<e>>[1] = e
         /\ \A w : Word(e, w) => IsToldOf(<<e>>, w)
BY ShortSeqs DEF IsToldOf

\* An actor is done with a command, asks for nothing more, tracks as before and tells one thing.
LEMMA DoneTellsOne ==
  ASSUME WindowInv, Tracking, NEW i \in DOMAIN actors, actors[i].queue # <<>>,
         NEW c, c = Head(actors[i].queue),
         NEW link, Done(i, link, actors[i].tracked, <<>>), UNCHANGED untouched,
         NEW e, Emit(i, <<e>>), IsSaid(e), e.status # "live",
         c.kind = "open" => Word(e, c.ws)
  PROVE  Tracking'
<1>1. IsSeq(<<>>) /\ ToSet(<<>>) = {}
  BY ShortSeqs
<1>2. UNCHANGED <<life, workspaces, late>>
  BY DEF untouched, screen, aside
<1>3. /\ IsSeq(<<e>>) /\ DOMAIN <<e>> = {1} /\ <<e>>[1] = e
      /\ c.kind = "open" => IsToldOf(<<e>>, c.ws)
  BY OneSaid
<1> DEFINE list == <<e>>
           tracked == actors[i].tracked
           more == <<>>
<1>4. /\ IsSeq(list) /\ \A n \in DOMAIN list : IsSaid(list[n]) /\ list[n].status # "live"
      /\ Emit(i, list) /\ Done(i, link, tracked, more) /\ IsSeq(more)
      /\ \A x \in ToSet(more) : x.kind \notin {"shutdown", "forget"}
      /\ \A w \in DOMAIN actors[i].tracked : w \in DOMAIN tracked
      /\ c.kind = "open" => c.ws \in DOMAIN tracked \/ IsToldOf(list, c.ws)
  BY <1>1, <1>3
<1> HIDE DEF list, tracked, more
<1> QED BY <1>2, <1>4, DoneTracks

\* ClosePane, ListWorkspaces, a refusal, and a command that finds no daemon.
LEMMA AnswersTrack ==
  ASSUME WindowInv, Tracking, NEW i \in DOMAIN actors,
         RemovePane(i) \/ RefreshInventory(i) \/ CommandRefused(i) \/ NoDaemon(i)
  PROVE  Tracking'
<1> DEFINE c == Head(actors[i].queue)
<1>1. CASE RemovePane(i)
  <2> DEFINE e == [Event("closed", c.ws) EXCEPT !.runtime = c.runtime, !.at = c.at]
  <2>1. /\ actors[i].queue # <<>> /\ c.kind = "close" /\ Done(i, "up", actors[i].tracked, <<>>)
        /\ UNCHANGED untouched /\ Emit(i, <<e>>)
    BY <1>1 DEF RemovePane, Takes
  <2> HIDE DEF c
  <2>2. IsSaid(e) /\ e.status = ""
    BY DEF Event, IsSaid, IsRecord
  <2> HIDE DEF e
  <2> QED BY <2>1, <2>2, DoneTellsOne DEF c
<1>2. CASE RefreshInventory(i)
  <2> DEFINE e == [Event("inventory", None) EXCEPT !.stock = runtimes]
  <2>1. /\ actors[i].queue # <<>> /\ c.kind = "inventory" /\ Done(i, "up", actors[i].tracked, <<>>)
        /\ UNCHANGED untouched /\ Emit(i, <<e>>)
    BY <1>2 DEF RefreshInventory, Takes
  <2>2. IsSaid(e) /\ e.status = ""
    BY DEF Event, IsSaid, IsRecord
  <2> HIDE DEF e
  <2> QED BY <2>1, <2>2, DoneTellsOne
<1>3. CASE CommandRefused(i)
  <2>1. PICK status \in {"missing", "blocked"} :
          /\ actors[i].queue # <<>> /\ Done(i, "up", actors[i].tracked, <<>>) /\ UNCHANGED untouched
          /\ Emit(i, <<Changed(c.ws, status)>>)
    BY <1>3 DEF CommandRefused, Takes
  <2> DEFINE e == Changed(c.ws, status)
  <2> HIDE DEF c
  <2>2. IsSaid(e) /\ e.status # "live" /\ Word(e, c.ws)
    BY DEF Changed, Event, IsSaid, IsRecord, Word
  <2>3. Emit(i, <<e>>)
    BY <2>1
  <2> HIDE DEF e
  <2> QED BY <2>1, <2>2, <2>3, DoneTellsOne DEF c
<1>4. CASE NoDaemon(i)
  <2> DEFINE e == Changed(c.ws, "waiting")
  <2>1. /\ actors[i].queue # <<>> /\ Done(i, "lost", actors[i].tracked, <<>>) /\ UNCHANGED untouched
        /\ Emit(i, <<e>>)
    BY <1>4 DEF NoDaemon
  <2> HIDE DEF c
  <2>2. IsSaid(e) /\ e.status # "live" /\ Word(e, c.ws)
    BY DEF Changed, Event, IsSaid, IsRecord, Word
  <2> HIDE DEF e
  <2> QED BY <2>1, <2>2, DoneTellsOne DEF c
<1> QED BY <1>1, <1>2, <1>3, <1>4

\* OpenWorkspace (daemon_bridge.rs:776): the runtime that is said to be connected is tracked.
LEMMA OpenRuntimeTracks ==
  ASSUME WindowInv, Tracking, NEW i \in DOMAIN actors, OpenRuntime(i)
  PROVE  Tracking'
<1> DEFINE c == Head(actors[i].queue)
<1>1. PICK r, leaves, status, more :
        /\ actors[i].queue # <<>> /\ c.kind = "open"
        /\ Done(i, "up", With(actors[i].tracked, c.ws, r), more)
        /\ more = <<>> \/ more = <<Command("create", c.ws, r, None, c.at)>>
        /\ Emit(i, <<Opened(c.ws, r, leaves, status)>>)
        /\ UNCHANGED untouched
  BY DEF OpenRuntime, Takes
<1>2. IsSeq(more) /\ \A x \in ToSet(more) : x.kind \notin {"shutdown", "forget"}
  <2>1. CASE more = <<>>
    BY <2>1, ShortSeqs
  <2>2. CASE more = <<Command("create", c.ws, r, None, c.at)>>
    <3> DEFINE x == Command("create", c.ws, r, None, c.at)
    <3>1. x.kind = "create" /\ more = <<x>>
      BY <2>2 DEF Command
    <3> HIDE DEF x
    <3>2. IsSeq(more) /\ ToSet(more) = {x}
      BY <3>1, ShortSeqs
    <3> QED BY <3>1, <3>2
  <2> QED BY <1>1, <2>1, <2>2
<1> DEFINE tracked == With(actors[i].tracked, c.ws, r)
           e == Opened(c.ws, r, leaves, status)
           list == <<e>>
<1>3. DOMAIN tracked = DOMAIN actors[i].tracked \cup {c.ws}
  BY DEF With
<1>4. IsSaid(e) /\ e.ws = c.ws
  BY DEF Opened, Event, IsSaid, IsRecord
<1>5. UNCHANGED <<life, workspaces, late>>
  BY <1>1 DEF untouched, screen, aside
<1>6. Done(i, "up", tracked, more) /\ Emit(i, list)
  BY <1>1
<1> HIDE DEF e, tracked
<1>7. IsSeq(list) /\ \A n \in DOMAIN list : list[n] = e
  BY OneSaid
<1> HIDE DEF list
<1> QED BY <1>1, <1>2, <1>3, <1>4, <1>5, <1>6, <1>7, DoneTracks

\* CreatePane and SplitPane (daemon_bridge.rs:899): a pane that is created for a workspace that is not
\* tracked says Connected, and counts as told by nobody.
LEMMA AddPaneTracks ==
  ASSUME WindowInv, Tracking, NEW i \in DOMAIN actors, AddPane(i)
  PROVE  Tracking'
<1> DEFINE c == Head(actors[i].queue)
           p == Newest("terminals")
           from == IF c.ws \in DOMAIN actors[i].tracked THEN i ELSE None
<1>1. PICK early \in BOOLEAN :
        /\ actors[i].queue # <<>> /\ c.kind \in {"create", "split"}
        /\ Done(i, "up", actors[i].tracked, <<>>)
        /\ Emit(from, (IF early THEN Deltas(c.runtime, p) ELSE <<>>) \o <<Created(c, p)>>)
        /\ UNCHANGED untouched
  BY DEF AddPane, Takes
<1> DEFINE delta == Delta(p)
           deltas == Deltas(c.runtime, p)
           created == Created(c, p)
           list == (IF early THEN deltas ELSE <<>>) \o <<created>>
<1>2. /\ IsSaid(delta) /\ delta.status = ""
      /\ IsSaid(created) /\ created.ws = c.ws
  BY SaidAre
<1>3. Emit(from, list)
  BY <1>1
<1>4. UNCHANGED <<life, workspaces, late>>
  BY <1>1 DEF untouched, screen, aside
<1>5. from \in {None, i} /\ (from = i => c.ws \in DOMAIN actors[i].tracked)
  <2>1. DOMAIN actors = 1..Len(actors)
    BY InUseIs DEF WindowInv, Shape
  <2>2. i # None
    BY <2>1 DEF None
  <2> QED BY <2>2
<1>deltas. IsSeq(deltas) /\ \A x \in ToSet(deltas) : x = delta
  BY DeltasAre DEF WindowInv, Shape
<1> HIDE DEF delta, created, deltas
<1>6. IsSeq(list) /\ \A n \in DOMAIN list : list[n] \in {delta, created}
  <2>1. /\ IsSeq(<<>>) /\ IsSeq(<<created>>)
        /\ ToSet(<<>>) = {} /\ ToSet(<<created>>) = {created}
    BY ShortSeqs
  <2>2. IsSeq(list) /\ \A x \in ToSet(list) : x = delta \/ x = created
    <3>1. CASE early
      BY <1>deltas, <2>1, <3>1, ConcatIsSeq
    <3>2. CASE ~early
      BY <2>1, <3>2, ConcatIsSeq
    <3> QED BY <3>1, <3>2
  <2> HIDE DEF list
  <2> QED BY <2>2, SeqFacts
<1>7. IsSeq(<<>>) /\ ToSet(<<>>) = {}
  BY ShortSeqs
<1> DEFINE more == <<>>
           tracked == actors[i].tracked
<1>8. /\ Done(i, "up", tracked, more) /\ IsSeq(more)
      /\ \A x \in ToSet(more) : x.kind \notin {"shutdown", "forget"}
      /\ \A w \in DOMAIN actors[i].tracked : w \in DOMAIN tracked
      /\ c.kind # "open"
  BY <1>1, <1>7
<1>9. /\ \A n \in DOMAIN list : IsSaid(list[n])
      /\ \A n \in DOMAIN list : list[n].status = "live" /\ from = i => list[n].ws \in DOMAIN tracked
  <2>1. \A n \in DOMAIN list : IsSaid(list[n])
    BY <1>2, <1>6
  <2>2. ASSUME NEW n \in DOMAIN list, list[n].status = "live", from = i PROVE list[n].ws \in DOMAIN tracked
    <3>1. list[n] = created
      BY <1>2, <1>6, <2>2
    <3> QED BY <1>2, <1>5, <2>2, <3>1
  <2> QED BY <2>1, <2>2
<1> HIDE DEF list, from, tracked, more
<1> QED BY <1>1, <1>3, <1>4, <1>5, <1>6, <1>8, <1>9, DoneTracks

\* DetachWorkspace and TerminateWorkspace tell of the workspace that is not tracked any more.
LEMMA LeaveRuntimeTracks ==
  ASSUME WindowInv, Tracking, NEW i \in DOMAIN actors, LeaveRuntime(i)
  PROVE  Tracking'
<1> DEFINE c == Head(actors[i].queue)
           tracked == Without(actors[i].tracked, {c.ws})
<1>1. PICK kind \in {"detach", "terminate"}, word \in {"detached", "terminated"} :
        /\ actors[i].queue # <<>> /\ c.kind = kind /\ Done(i, "up", tracked, <<>>)
        /\ Emit(i, <<[Event(word, c.ws) EXCEPT !.status = "waiting"]>>)
        /\ UNCHANGED untouched
  BY DEF LeaveRuntime, Takes
<1> DEFINE e == [Event(word, c.ws) EXCEPT !.status = "waiting"]
           list == <<e>>
           more == <<>>
<1>2. IsSaid(e) /\ e.ws = c.ws /\ e.status = "waiting"
  BY DEF Event, IsSaid, IsRecord
<1>3. Emit(i, list) /\ Done(i, "up", tracked, more) /\ c.kind # "open"
  BY <1>1
<1> HIDE DEF e
<1>4. IsSeq(list) /\ DOMAIN list = {1} /\ list[1] = e /\ IsToldOf(list, c.ws)
  BY <1>2, OneSaid DEF Word
<1>5. IsSeq(more) /\ ToSet(more) = {}
  BY ShortSeqs
<1>6. \A w \in DOMAIN actors[i].tracked : w \in DOMAIN tracked \/ w = c.ws
  BY DEF Without, Restrict
<1>7. UNCHANGED <<life, workspaces, late>>
  BY <1>1 DEF untouched, screen, aside
<1>8. /\ \A w \in DOMAIN actors[i].tracked : w \in DOMAIN tracked \/ IsToldOf(list, w)
      /\ \A n \in DOMAIN list : IsSaid(list[n]) /\ list[n].status # "live"
      /\ \A x \in ToSet(more) : x.kind \notin {"shutdown", "forget"}
  BY <1>2, <1>4, <1>5, <1>6
<1> HIDE DEF list, more, tracked
<1> QED BY <1>1, <1>3, <1>4, <1>5, <1>7, <1>8, DoneTracks

\* Nothing is told.
LEMMA EmitNone ==
  ASSUME Shape, events' = events
  PROVE  Emit(None, <<>>)
<1>1. events \in Seq(ToSet(events))
  BY DEF Shape, IsSeq
<1>2. events \o <<>> = events
  BY <1>1, ConcatEmptySeq
<1>3. [n \in DOMAIN <<>> |-> [<<>>[n] EXCEPT !.from = None]] = <<>>
  OBVIOUS
<1> QED BY <1>2, <1>3 DEF Emit

\* What the actor in use is told to forget and is shown it opens again, and it is not told to stop.
LEMMA ForgetOrShutdownTracks ==
  ASSUME WindowInv, Tracking, NEW i \in DOMAIN actors, ForgetOrShutdown(i)
  PROVE  Tracking'
<1> DEFINE q == actors[i].queue
           c == Head(q)
<1>0. Shape /\ Actors
  BY DEF WindowInv, Shape
<1>1. /\ q # <<>> /\ c.kind \in {"forget", "shutdown"}
      /\ IF c.kind = "shutdown" THEN actors' = [actors EXCEPT ![i] = Ended]
         ELSE Done(i, actors[i].link, Without(actors[i].tracked, {c.ws}), <<>>)
      /\ UNCHANGED <<life, workspaces, late>> /\ events' = events
  BY DEF ForgetOrShutdown, Takes, untouched, screen, aside
<1>2. Emit(None, <<>>)
  BY <1>0, <1>1, EmitNone
<1>3. IsSeq(q)
  BY <1>0 DEF Actors, IsActor
<1>4. i = Len(actors) => Orderly(q, DOMAIN workspaces)
  BY <1>0, InUseIs DEF Tracking, Reopened
<1> HIDE DEF q
<1>5. /\ Len(q) \in Nat /\ DOMAIN q = 1..Len(q) /\ Len(q) > 0 /\ c = q[1]
      /\ IsSeq(Tail(q)) /\ Len(Tail(q)) = Len(q) - 1
      /\ \A n \in 1..(Len(q) - 1) : Tail(q)[n] = q[n + 1]
  BY <1>1, <1>3, SeqFacts, TailIsSeq
<1>6. DOMAIN Tail(q) = 1..(Len(q) - 1)
  BY <1>5, SeqFacts
<1> HIDE DEF c
<1>7. IsSeq(<<>>) /\ ToSet(<<>>) = {} /\ DOMAIN <<>> = {}
  BY ShortSeqs
<1> DEFINE list == <<>>
<1>8. /\ IsSeq(list) /\ Emit(None, list) /\ (\A n \in DOMAIN list : IsSaid(list[n]))
      /\ \A n \in DOMAIN list : list[n].status # "live"
      /\ \A x \in ToSet(list) : x.kind \notin {"shutdown", "forget"}
  BY <1>2, <1>7
<1>9. CASE c.kind = "shutdown"
  <2>1. i # Len(actors)
    BY <1>4, <1>5, <1>9 DEF Orderly
  <2>2. IsActor(Ended)
    BY ShortSeqs DEF Ended, IsActor
  <2>3. actors' = [actors EXCEPT ![i] = Ended]
    BY <1>1, <1>9
  <2> HIDE DEF list
  <2> QED BY <1>1, <1>8, <2>1, <2>2, <2>3, TellsTrack
<1>10. CASE c.kind = "forget"
  <2> DEFINE tracked == Without(actors[i].tracked, {c.ws})
             more == <<>>
  <2>1. Done(i, actors[i].link, tracked, more)
    BY <1>1, <1>10
  <2>2. ASSUME NEW w \in DOMAIN actors[i].tracked
        PROVE  \/ w \in DOMAIN tracked
               \/ i = Len(actors) /\ w \in DOMAIN workspaces => \E x \in ToSet(Tail(q)) : Opening(x, w)
    <3>1. CASE w # c.ws
      BY <3>1 DEF Without, Restrict
    <3>2. CASE w = c.ws /\ i = Len(actors) /\ w \in DOMAIN workspaces
      <4>1. PICK m \in DOMAIN q : m > 1 /\ Opening(q[m], w)
        <5>1. 1 \in DOMAIN q
          BY <1>5
        <5> QED BY <1>4, <1>5, <1>10, <3>2, <5>1 DEF Orderly
      <4>2. m - 1 \in DOMAIN Tail(q) /\ (m - 1) + 1 = m
        BY <1>5, <1>6, <4>1
      <4>3. Tail(q)[m - 1] = q[m]
        BY <1>5, <1>6, <4>2
      <4>4. q[m] \in ToSet(Tail(q))
        BY <4>2, <4>3 DEF ToSet
      <4> QED BY <4>1, <4>4
    <3> QED BY <3>1, <3>2
  <2>3. IsSeq(more) /\ \A x \in ToSet(more) : x.kind \notin {"shutdown", "forget"}
    BY <1>7
  <2> HIDE DEF list, more, tracked
  <2> QED BY <1>1, <1>8, <1>10, <2>1, <2>2, <2>3, DoneTracks, ZenonT(30) DEF c, q
<1> QED BY <1>1, <1>9, <1>10

\* An actor of which only the link changes, and that says Connected of what it tracks alone.
LEMMA LinkTracks ==
  ASSUME WindowInv, Tracking, NEW i \in DOMAIN actors, NEW link, actors' = [actors EXCEPT ![i].link = link],
         UNCHANGED untouched, NEW list, IsSeq(list), Emit(i, list), \A n \in DOMAIN list : IsSaid(list[n]),
         \A n \in DOMAIN list : list[n].status = "live" => list[n].ws \in DOMAIN actors[i].tracked
  PROVE  Tracking'
<1> DEFINE a == [actors[i] EXCEPT !.link = link]
<1>0. Actors
  BY DEF WindowInv, Shape
<1>1. IsActor(actors[i])
  BY <1>0 DEF Actors
<1>2. a.queue = actors[i].queue /\ a.tracked = actors[i].tracked /\ DOMAIN a = DOMAIN actors[i]
  BY <1>1 DEF IsActor
<1>3. IsActor(a) /\ actors' = [actors EXCEPT ![i] = a]
  BY <1>1, <1>2 DEF IsActor
<1> HIDE DEF a
<1>4. UNCHANGED <<life, workspaces, late>>
  BY DEF untouched, screen, aside
<1>5. i = Len(actors) => InUse = actors[i] /\ Orderly(actors[i].queue, DOMAIN workspaces)
  BY <1>0, InUseIs DEF Tracking, Reopened
<1>6. i = Len(actors) => Orderly(a.queue, DOMAIN workspaces) /\ \A w : Backed(w) => BackedBy(a, w)
  BY <1>2, <1>5 DEF Backed, BackedBy
<1>7. \A n \in DOMAIN list : list[n].status = "live" => BackedBy(a, list[n].ws)
  BY <1>2 DEF BackedBy
<1> QED BY <1>3, <1>4, <1>6, <1>7, TellsTrack

\* What is said when a connection is lost: all wait.
LEMMA LostAreSaid ==
  ASSUME Shape, InFlight, NEW i \in DOMAIN actors
  PROVE  IsSeq(Lost(i)) /\ \A n \in DOMAIN Lost(i) : IsSaid(Lost(i)[n]) /\ Lost(i)[n].status # "live"
<1> DEFINE list == Lost(i)
<1>1. /\ IsSeq(list)
      /\ \A n \in DOMAIN list : \E w \in DOMAIN actors[i].tracked : list[n] = Changed(w, "waiting")
  BY LostAre
<1> HIDE DEF list
<1>2. ASSUME NEW e, NEW w, e = Changed(w, "waiting") PROVE IsSaid(e) /\ e.status # "live"
  BY <1>2 DEF Changed, Event, IsSaid, IsRecord
<1>3. \A n \in DOMAIN list : IsSaid(list[n]) /\ list[n].status # "live"
  BY <1>1, <1>2
<1> QED BY <1>1, <1>3 DEF list

\* handle_disconnect (daemon_bridge.rs:1993): whoever is tracked waits.
LEMMA LinkLostTracks ==
  ASSUME WindowInv, Tracking, NEW i \in DOMAIN actors, LinkLost(i)
  PROVE  Tracking'
<1>0. Shape /\ InFlight
  BY DEF WindowInv
<1>1. PICK link : actors' = [actors EXCEPT ![i].link = link] /\ Emit(i, Lost(i)) /\ UNCHANGED untouched
  BY DEF LinkLost
<1> DEFINE list == Lost(i)
<1>2. Emit(i, list) /\ IsSeq(list) /\ \A n \in DOMAIN list : IsSaid(list[n]) /\ list[n].status # "live"
  BY <1>0, <1>1, LostAreSaid
<1> HIDE DEF list
<1> QED BY <1>1, <1>2, LinkTracks

\* What is answered when an actor reconnects: Connected is said of what is tracked.
LEMMA RepliesAreSaid ==
  ASSUME Shape, InFlight, NEW i \in DOMAIN actors, NEW ws \in SUBSET DOMAIN actors[i].tracked, NEW refused
  PROVE  LET list == Replies(i, ws, refused)
         IN IsSeq(list) /\ \A n \in DOMAIN list : IsSaid(list[n]) /\ list[n].ws \in DOMAIN actors[i].tracked
<1> DEFINE tracked == actors[i].tracked
           list == Replies(i, ws, refused)
<1>1. IsSeq(list) /\ \A n \in DOMAIN list : \E w \in ws : IsReply(list[n], w, tracked[w], refused)
  BY RepliesAre
<1> HIDE DEF list
<1>2. ASSUME NEW e, NEW w, NEW r, IsReply(e, w, r, refused) PROVE IsSaid(e) /\ e.ws = w
  <2>1. CASE e = Opened(w, r, runtimes[r], "live")
    BY <2>1 DEF Opened, Event, IsSaid, IsRecord
  <2>2. ASSUME NEW status, e = Changed(w, status) PROVE IsSaid(e) /\ e.ws = w
    BY <2>2 DEF Changed, Event, IsSaid, IsRecord
  <2> QED BY <1>2, <2>1, <2>2 DEF IsReply
<1>3. \A n \in DOMAIN list : IsSaid(list[n]) /\ list[n].ws \in DOMAIN tracked
  BY <1>1, <1>2
<1> QED BY <1>1, <1>3 DEF list

\* A reattach (daemon_bridge.rs:1383) says Connected of what is tracked.
LEMMA ReattachTracks ==
  ASSUME WindowInv, Tracking, NEW i \in DOMAIN actors, Reattach(i)
  PROVE  Tracking'
<1> DEFINE tracked == DOMAIN actors[i].tracked
<1>0. Shape /\ InFlight
  BY DEF WindowInv
<1>1. PICK refused : /\ actors' = [actors EXCEPT ![i].link = "up"] /\ UNCHANGED untouched
                     /\ Emit(i, Replies(i, tracked, refused))
  BY DEF Reattach
<1> DEFINE list == Replies(i, tracked, refused)
<1>2. Emit(i, list) /\ IsSeq(list) /\ \A n \in DOMAIN list : IsSaid(list[n]) /\ list[n].ws \in tracked
  BY <1>0, <1>1, RepliesAreSaid
<1> HIDE DEF list
<1> QED BY <1>1, <1>2, LinkTracks

\* A reattach that fails says so of all in the end, and tracks what it did.
LEMMA ReattachFailsTracks ==
  ASSUME WindowInv, Tracking, NEW i \in DOMAIN actors, ReattachFails(i)
  PROVE  Tracking'
<1> DEFINE tracked == DOMAIN actors[i].tracked
           lost == Lost(i)
           a == actors[i]
<1>0. Shape /\ InFlight /\ Actors
  BY DEF WindowInv, Shape
<1>1. PICK answered \in SUBSET tracked, refused \in SUBSET There(i) :
        /\ Emit(i, Replies(i, answered, refused) \o lost)
        /\ actors' = actors /\ UNCHANGED <<life, workspaces, late>>
  BY DEF ReattachFails, untouched, screen, aside
<1> DEFINE replies == Replies(i, answered, refused)
           list == replies \o lost
<1>2. /\ IsSeq(replies) /\ \A n \in DOMAIN replies : IsSaid(replies[n]) /\ replies[n].ws \in tracked
      /\ IsSeq(lost) /\ \A n \in DOMAIN lost : IsSaid(lost[n]) /\ lost[n].status # "live"
  BY <1>0, <1>1, RepliesAreSaid, LostAreSaid
<1>3. Emit(i, list)
  BY <1>1
<1> HIDE DEF replies, lost
<1>4. IsSeq(list) /\ ToSet(list) = ToSet(replies) \cup ToSet(lost)
  BY <1>2, ConcatIsSeq
<1> HIDE DEF list
<1>5. \A n \in DOMAIN list : IsSaid(list[n]) /\ (list[n].status = "live" => list[n].ws \in tracked)
  <2>1. \A x \in ToSet(list) : IsSaid(x) /\ (x.status = "live" => x.ws \in tracked)
    BY <1>2, <1>4, SeqFacts
  <2> QED BY <1>4, <2>1, SeqFacts
<1>6. actors' = [actors EXCEPT ![i] = a] /\ IsActor(a)
  <2>1. actors \in [1..Len(actors) -> ToSet(actors)]
    BY <1>0, LenProperties DEF Actors, IsSeq
  <2> QED BY <1>0, <1>1, <2>1 DEF Actors
<1>7. i = Len(actors) => Orderly(a.queue, DOMAIN workspaces) /\ \A w : Backed(w) => BackedBy(a, w)
  BY <1>0, InUseIs DEF Tracking, Reopened, Backed
<1>8. \A n \in DOMAIN list : list[n].status = "live" => BackedBy(a, list[n].ws)
  BY <1>5 DEF BackedBy
<1> HIDE DEF a
<1> QED BY <1>1, <1>3, <1>4, <1>5, <1>6, <1>7, <1>8, TellsTrack

\* Output says nothing of the status.
LEMMA DaemonPrintsTracks ==
  ASSUME WindowInv, Tracking, NEW r, NEW p, DaemonPrints(r, p)
  PROVE  Tracking'
<1> DEFINE list == Deltas(r, p)
           last == Len(actors)
           a == actors[last]
<1>0. Actors
  BY DEF WindowInv, Shape
<1>1. Emit(None, list) /\ UNCHANGED <<life, workspaces, late>> /\ actors' = actors
  BY DEF DaemonPrints, untouched, screen, aside
<1>2. IsSeq(list) /\ \A n \in DOMAIN list : list[n] = Delta(p)
  BY <1>0, DeltasAre
<1> HIDE DEF list
<1>3. \A n \in DOMAIN list : IsSaid(list[n])
  BY <1>2, SaidAre, ZenonT(30)
<1>4. last \in DOMAIN actors /\ InUse = a /\ IsActor(a) /\ last # None
  BY <1>0, InUseIs DEF None
<1>5. actors' = [actors EXCEPT ![last] = a]
  <2>1. actors \in [1..Len(actors) -> ToSet(actors)]
    BY <1>0, LenProperties DEF Actors, IsSeq
  <2> QED BY <1>1, <2>1
<1>6. Orderly(a.queue, DOMAIN workspaces) /\ \A w : Backed(w) => BackedBy(a, w)
  BY <1>4 DEF Tracking, Reopened, Backed
<1> HIDE DEF last, a
<1> QED BY <1>1, <1>2, <1>3, <1>4, <1>5, <1>6, TellsTrack

\* Every step of the actors and of the daemon.
LEMMA EndpointActsTrack ==
  ASSUME WindowInv, Tracking, EndpointActs
  PROVE  Tracking'
<1>1. ASSUME NEW i \in DOMAIN actors,
             \/ OpenRuntime(i) \/ AddPane(i) \/ RemovePane(i) \/ LeaveRuntime(i) \/ CommandRefused(i)
             \/ ForgetOrShutdown(i) \/ RefreshInventory(i) \/ NoDaemon(i) \/ LinkLost(i) \/ Reattach(i)
             \/ ReattachFails(i)
      PROVE  Tracking'
  BY <1>1, OpenRuntimeTracks, AddPaneTracks, LeaveRuntimeTracks, AnswersTrack, ForgetOrShutdownTracks,
     LinkLostTracks, ReattachTracks, ReattachFailsTracks
<1> QED BY <1>1, DaemonPrintsTracks DEF EndpointActs

-----------------------------------------------------------------------------
(* What the poller reads.                                                   *)

\* An event is taken: a workspace it has no word of keeps its status, and one it has a word of gets that
\* status, and is late if another actor than the one in use says so.
LEMMA ReadTracks ==
  ASSUME WindowInv, Tracking, NEW e, e = Head(events), events # <<>>, events' = Tail(events),
         life' = life, Len(actors') = Len(actors), \A w : Backed(w) => Backed(w)', Reopened',
         \A w \in DOMAIN workspaces' :
           \/ Backed(w)'
           \/ /\ w \in DOMAIN workspaces /\ ~Word(e, w)
              /\ workspaces'[w].status = workspaces[w].status /\ (w \in late => w \in late')
           \/ /\ w \in DOMAIN workspaces /\ Word(e, w)
              /\ workspaces'[w].status = e.status /\ (e.from # Len(actors) => w \in late')
           \/ w \in DOMAIN workspaces /\ workspaces'[w].status # "live"
  PROVE  Tracking'
<1>0. Shape
  BY DEF WindowInv
<1>1. DOMAIN events = 1..Len(events) /\ Len(events) \in Nat
  BY <1>0, Positions
<1>2. /\ IsSeq(events') /\ Len(events') = Len(events) - 1
      /\ \A n \in 1..(Len(events) - 1) : events'[n] = events[n + 1]
      /\ e = events[1] /\ Sent' \subseteq Sent /\ Len(events) > 0
  BY <1>0, TailIsSeq, SeqFacts DEF Shape, Sent
<1>3. DOMAIN events' = 1..(Len(events) - 1)
  BY <1>2, SeqFacts
<1>4. Senders'
  BY <1>2 DEF Tracking, Senders, Stamped
<1>5. ASSUME life = "up", NEW w \in DOMAIN workspaces, NEW n \in DOMAIN events' \cup {0},
             NEW k \in DOMAIN events \cup {0}, Claims(k, w), k = n + 1 \/ (k = 0 /\ n = 0 /\ ~Word(e, w))
      PROVE  Backed(w)' \/ Later(n, w)'
  <2>1. Backed(w) \/ Later(k, w)
    BY <1>5 DEF Tracking, Credible
  <2>2. ASSUME Later(k, w) PROVE Later(n, w)'
    <3>1. PICK m \in DOMAIN events : m > k /\ Word(events[m], w)
      BY <2>2 DEF Later
    <3>2. m # 1
      <4>1. CASE k = 0
        BY <1>2, <1>3, <1>5, <3>1, <4>1
      <4>2. CASE k = n + 1
        BY <1>1, <1>3, <3>1, <4>2
      <4> QED BY <1>5, <4>1, <4>2
    <3>3. m - 1 \in DOMAIN events' /\ m - 1 > n /\ (m - 1) + 1 = m
      <4>1. m \in 1..Len(events) /\ n \in Nat
        BY <1>1, <1>3, <3>1
      <4>2. CASE k = n + 1
        BY <1>1, <1>3, <3>1, <3>2, <4>1, <4>2
      <4>3. CASE n = 0
        BY <1>1, <1>3, <3>1, <3>2, <4>1, <4>3
      <4> QED BY <1>5, <4>1, <4>2, <4>3
    <3>4. events'[m - 1] = events[m]
      BY <1>2, <1>3, <3>3
    <3> QED BY <3>1, <3>3, <3>4 DEF Later
  <2> QED BY <2>1, <2>2
<1>6. ASSUME life = "up", NEW w \in DOMAIN workspaces', NEW n \in DOMAIN events' \cup {0}, Claims(n, w)'
      PROVE  Backed(w)' \/ Later(n, w)'
  <2> SUFFICES ASSUME ~Backed(w)' PROVE Later(n, w)'
    OBVIOUS
  <2>1. w \in DOMAIN workspaces
    OBVIOUS
  <2>2. CASE n # 0
    <3>1. n + 1 \in DOMAIN events /\ events'[n] = events[n + 1] /\ n + 1 # 0
      BY <1>1, <1>2, <1>3, <2>2
    <3>2. Claims(n + 1, w)
      BY <1>6, <2>2, <3>1 DEF Claims
    <3>3. n + 1 # n
      BY <1>3, <2>2
    <3> QED BY <1>5, <1>6, <2>1, <3>1, <3>2, <3>3
  <2>3. CASE n = 0
    <3>1. workspaces'[w].status = "live" /\ w \notin late'
      BY <1>6, <2>3 DEF Claims
    <3>2. CASE Word(e, w)
      <4>1. e.status = "live" /\ e.from = Len(actors)
        BY <3>1, <3>2
      <4>2. 1 \in DOMAIN events /\ 1 # 0
        BY <1>1, <1>2
      <4>3. Claims(1, w)
        BY <1>2, <3>2, <4>1, <4>2 DEF Claims, Word
      <4> QED BY <1>5, <1>6, <2>1, <2>3, <4>2, <4>3
    <3>3. CASE ~Word(e, w)
      <4>1. Claims(0, w)
        BY <3>1, <3>3 DEF Claims
      <4> QED BY <1>5, <1>6, <2>1, <2>3, <3>3, <4>1
    <3> QED BY <3>2, <3>3
  <2> QED BY <2>2, <2>3
<1> QED BY <1>0, <1>4, <1>6 DEF Tracking, Credible

\* The same when no actor is asked for anything and no workspace is added.
LEMMA QuietReadTracks ==
  ASSUME WindowInv, Tracking, NEW kind, Polls(kind), NEW e, e = Polling, UNCHANGED <<life, actors>>,
         DOMAIN workspaces' = DOMAIN workspaces,
         \A w \in DOMAIN workspaces :
           \/ /\ ~Word(e, w)
              /\ workspaces'[w].status = workspaces[w].status /\ (w \in late => w \in late')
           \/ /\ Word(e, w)
              /\ workspaces'[w].status = e.status /\ (e.from # Len(actors) => w \in late')
           \/ workspaces'[w].status # "live"
  PROVE  Tracking'
<1>1. events # <<>> /\ events' = Tail(events) /\ e = Head(events)
  BY PollFacts DEF WindowInv
<1>2. InUse' = InUse
  BY DEF InUse, Last
<1>3. Reopened' /\ \A w : Backed(w) => Backed(w)'
  BY <1>2 DEF Tracking, Reopened, Backed
<1> QED BY <1>1, <1>3, ReadTracks

\* A word is of a workspace that is shown or not, and of the actor in use or of another.
LEMMA TellsOf ==
  ASSUME NEW e, Tells(e), NEW w \in DOMAIN workspaces
  PROVE  /\ ~Word(e, w) /\ w \in late => w \in late'
         /\ Word(e, w) /\ e.from # Len(actors) => w \in late'
BY DEF Tells, Word

\* What is told of the workspaces, which had the status they have.
LEMMA ToldOf ==
  ASSUME Shape, NEW e, NEW ws, DOMAIN ws = DOMAIN workspaces,
         \A w \in DOMAIN ws : IsWorkspace(ws[w]) /\ ws[w].status = workspaces[w].status,
         workspaces' = Told(ws, e)
  PROVE  /\ DOMAIN workspaces' = DOMAIN workspaces
         /\ \A w \in DOMAIN workspaces :
              workspaces'[w].status = IF Word(e, w) THEN e.status ELSE workspaces[w].status
BY DEF Told, Word, IsWorkspace

\* apply_managed_workspace_opened (workspace_state.rs:469) and the status it comes with.
LEMMA WorkspaceOpenedTracks ==
  ASSUME WindowInv, Tracking, WorkspaceOpened
  PROVE  Tracking'
<1> DEFINE e == Polling
           ws == [workspaces EXCEPT ![e.ws] = Adopted(@, e)]
<1>0. Shape
  BY DEF WindowInv
<1>1. Polls("opened") /\ UNCHANGED <<life, actors>> /\ Tells(e)
  BY DEF WorkspaceOpened
<1>2. CASE e.ws \in DOMAIN workspaces
  <2>1. workspaces' = Told(ws, e)
    BY <1>2 DEF WorkspaceOpened
  <2>2. /\ DOMAIN ws = DOMAIN workspaces
        /\ \A w \in DOMAIN ws : IsWorkspace(ws[w]) /\ ws[w].status = workspaces[w].status
    BY <1>0, <1>2 DEF Shape, IsWorkspace, Adopted
  <2> HIDE DEF ws, e
  <2>3. /\ DOMAIN workspaces' = DOMAIN workspaces
        /\ \A w \in DOMAIN workspaces :
             workspaces'[w].status = IF Word(e, w) THEN e.status ELSE workspaces[w].status
    BY <1>0, <2>1, <2>2, ToldOf
  <2> QED BY <1>1, <2>3, TellsOf, QuietReadTracks DEF e
<1>3. CASE e.ws \notin DOMAIN workspaces
  <2>1. workspaces' = workspaces
    BY <1>3 DEF WorkspaceOpened
  <2>2. \A w \in DOMAIN workspaces : ~Word(e, w)
    BY <1>3 DEF Word
  <2> HIDE DEF e
  <2> QED BY <1>1, <2>1, <2>2, TellsOf, QuietReadTracks DEF e
<1> QED BY <1>2, <1>3

\* apply_managed_pane_created (workspace_state.rs:423) and the status it comes with.
LEMMA PaneCreatedTracks ==
  ASSUME WindowInv, Tracking, PaneCreated
  PROVE  Tracking'
<1> DEFINE e == Polling
           known == e.ws \in DOMAIN workspaces /\ e.at \in ToSet(workspaces[e.ws].layout)
           Renamed(t) == IF t = e.at THEN e.pane ELSE t
           ws == [workspaces EXCEPT ![e.ws].runtime = e.runtime, ![e.ws].zoom = Renamed(@),
                                    ![e.ws].layout = RenameLeaf(@, e.at, e.pane)]
<1>0. Shape
  BY DEF WindowInv
<1>1. Polls("created") /\ UNCHANGED <<life, actors>> /\ Tells(e)
  BY DEF PaneCreated
<1>2. /\ DOMAIN ws = DOMAIN workspaces
      /\ \A w \in DOMAIN ws : IsWorkspace(ws[w]) /\ ws[w].status = workspaces[w].status
  BY <1>0 DEF Shape, IsWorkspace
<1>3. \A w \in DOMAIN workspaces : IsWorkspace(workspaces[w])
  BY <1>0 DEF Shape
<1>4. workspaces' = Told(ws, e) \/ workspaces' = Told(workspaces, e)
  BY DEF PaneCreated, DrawWithout
<1> HIDE DEF ws, e
<1>5. /\ DOMAIN workspaces' = DOMAIN workspaces
      /\ \A w \in DOMAIN workspaces :
           workspaces'[w].status = IF Word(e, w) THEN e.status ELSE workspaces[w].status
  BY <1>0, <1>2, <1>3, <1>4, ToldOf
<1> QED BY <1>1, <1>5, TellsOf, QuietReadTracks DEF e

\* What says nothing of the status.
LEMMA SilentTracks ==
  ASSUME WindowInv, Tracking, NEW kind \in {"closed", "delta", "inventory"}, Polls(kind),
         UNCHANGED <<life, actors, late>>, DOMAIN workspaces' = DOMAIN workspaces,
         \A w \in DOMAIN workspaces : workspaces'[w].status = workspaces[w].status
  PROVE  Tracking'
<1> DEFINE e == Polling
<1>1. e \in Sent /\ e.kind = kind
  BY PollFacts DEF WindowInv
<1>2. \A w : ~Word(e, w)
  BY <1>1 DEF Tracking, Senders, Stamped, Word
<1> HIDE DEF e
<1> QED BY <1>2, QuietReadTracks DEF e

\* apply_managed_pane_closed (workspace_state.rs:456) and feed_coalesced_deltas (window/runtime.rs:804).
LEMMA PaneClosedTracks ==
  ASSUME WindowInv, Tracking, PaneClosed \/ OutputDelta
  PROVE  Tracking'
<1> DEFINE e == Polling
           ws == [workspaces EXCEPT ![e.ws].layout = RemoveLeaf(@, e.at)]
<1>0. Shape
  BY DEF WindowInv
<1>1. CASE PaneClosed
  <2>1. /\ Polls("closed") /\ UNCHANGED <<life, actors, late>>
        /\ workspaces' = ws \/ workspaces' = workspaces
    BY <1>1 DEF PaneClosed, DrawWithout, aside
  <2>2. /\ DOMAIN ws = DOMAIN workspaces
        /\ \A w \in DOMAIN ws : ws[w].status = workspaces[w].status
    BY <1>0 DEF Shape, IsWorkspace
  <2> HIDE DEF ws
  <2> QED BY <2>1, <2>2, SilentTracks
<1>2. CASE OutputDelta
  <2>1. Polls("delta") /\ UNCHANGED <<life, actors, late>> /\ workspaces' = workspaces
    BY <1>2 DEF OutputDelta, aside
  <2> QED BY <2>1, SilentTracks
<1> QED BY <1>1, <1>2

\* set_workspace_connection_status (window/runtime.rs:1126).
LEMMA StatusChangedTracks ==
  ASSUME WindowInv, Tracking, StatusChanged
  PROVE  Tracking'
<1> DEFINE e == Polling
           ws == [workspaces EXCEPT ![e.ws].runtime = None, ![e.ws].status = e.status]
<1>0. Shape
  BY DEF WindowInv
<1>1. PICK kind \in {"status", "detached", "terminated"} :
        /\ Polls(kind) /\ UNCHANGED <<life, actors>> /\ Tells(e)
        /\ workspaces' = IF kind = "terminated" /\ e.ws \in DOMAIN workspaces THEN ws ELSE Told(workspaces, e)
  BY DEF StatusChanged
<1>2. \A w \in DOMAIN workspaces : IsWorkspace(workspaces[w])
  BY <1>0 DEF Shape
<1>3. CASE kind = "terminated" /\ e.ws \in DOMAIN workspaces
  <2>1. /\ DOMAIN ws = DOMAIN workspaces /\ ws[e.ws].status = e.status
        /\ \A w \in DOMAIN ws : w # e.ws => ws[w].status = workspaces[w].status
    BY <1>2, <1>3 DEF IsWorkspace
  <2>2. workspaces' = ws
    BY <1>1, <1>3
  <2> HIDE DEF ws, e
  <2>3. \A w \in DOMAIN workspaces : w # e.ws => ~Word(e, w)
    BY DEF Word
  <2>4. ~Word(e, e.ws) => e.status # "live"
    BY DEF Word
  <2>5. ASSUME NEW w \in DOMAIN workspaces
        PROVE  \/ /\ ~Word(e, w)
                  /\ workspaces'[w].status = workspaces[w].status /\ (w \in late => w \in late')
               \/ /\ Word(e, w)
                  /\ workspaces'[w].status = e.status /\ (e.from # Len(actors) => w \in late')
               \/ workspaces'[w].status # "live"
    BY <1>1, <2>1, <2>2, <2>3, <2>4, TellsOf
  <2> QED BY <1>1, <2>1, <2>2, <2>5, QuietReadTracks DEF e
<1>4. CASE ~(kind = "terminated" /\ e.ws \in DOMAIN workspaces)
  <2>1. workspaces' = Told(workspaces, e)
    BY <1>1, <1>4
  <2> HIDE DEF e
  <2>2. /\ DOMAIN workspaces' = DOMAIN workspaces
        /\ \A w \in DOMAIN workspaces :
             workspaces'[w].status = IF Word(e, w) THEN e.status ELSE workspaces[w].status
    BY <1>0, <1>2, <2>1, ToldOf
  <2> QED BY <1>1, <2>2, TellsOf, QuietReadTracks DEF e
<1> QED BY <1>3, <1>4

\* recover_managed_workspaces_from_inventory (workspace_state.rs:302) opens what it recovers.
LEMMA InventoryLoadedTracks ==
  ASSUME WindowInv, Tracking, InventoryLoaded
  PROVE  Tracking'
<1> DEFINE e == Polling
           kept == dismissed \cap DOMAIN e.stock
           found == Recoverable(workspaces, e.stock, kept)
           treeless == {r \in found : e.stock[r] = <<>>}
           Leaf(r) == minted.terminals + Cardinality({q \in treeless : q <= r})
           Layout(r) == IF r \in treeless THEN <<Leaf(r)>> ELSE e.stock[r]
           back == {Recovered(r) : r \in found}
           ws == [w \in back \cup DOMAIN workspaces |->
                    IF w \in back THEN Workspace(Layout(w - MaxWorkspaces), w - MaxWorkspaces) ELSE workspaces[w]]
           opens == Opens(ws, back)
<1>0. Shape /\ Actors /\ InFlight /\ Reopened
  BY DEF WindowInv, Shape, Tracking
<1>1. /\ Polls("inventory") /\ life' = life /\ late' = late
      /\ events # <<>> /\ events' = Tail(events) /\ e = Head(events) /\ e \in Sent /\ e.kind = "inventory"
  BY <1>0, PollFacts DEF InventoryLoaded
<1>2. CASE connecting
  <2>1. UNCHANGED <<workspaces, actors>>
    BY <1>2 DEF InventoryLoaded, screen
  <2> QED BY <1>1, <2>1, SilentTracks
<1>3. CASE ~connecting
  <2>1. workspaces' = ws /\ ((found = {} /\ actors' = actors) \/ Send(opens))
    BY <1>3 DEF InventoryLoaded, Draw, DrawWithout
  <2>2. DOMAIN ws = back \cup DOMAIN workspaces /\ \A w \in DOMAIN workspaces \ back : ws[w] = workspaces[w]
    OBVIOUS
  <2>3. CASE found = {} /\ actors' = actors
    <3>1. back = {}
      BY <2>3
    <3> HIDE DEF ws, back
    <3> QED BY <1>1, <2>1, <2>2, <2>3, <3>1, SilentTracks
  <2>4. CASE Send(opens)
    <3>1. found \subseteq Known
      BY <1>0, <1>1 DEF InFlight, IsEvent, Recoverable
    <3>2. back \in SUBSET (Issued \cup {None})
      BY <3>1 DEF Issued
    <3> HIDE DEF ws, back
    <3>3. /\ IsSeq(opens) /\ \A c \in ToSet(opens) : c.kind = "open"
          /\ \A w \in back : \E c \in ToSet(opens) : Opening(c, w)
      BY <1>0, <3>2, OpensAll
    <3> HIDE DEF opens, e
    <3>4. Asked(opens)
      BY <1>0, <2>4, <3>3, SendAsks
    <3>5. Len(actors') = Len(actors) /\ \A w : Backed(w) => Backed(w)'
      BY <1>0, <3>3, <3>4, AskedBacks DEF Asked
    <3>6. \A w \in back : Backed(w)'
      BY <1>0, <3>3, <3>4, AskedBacks
    <3>7. Reopened'
      BY <1>0, <2>1, <2>2, <3>3, <3>4, AskedKeepsOrder
    <3>8. \A w : ~Word(e, w)
      BY <1>1 DEF Tracking, Senders, Stamped, Word
    <3>9. \A w \in DOMAIN workspaces' : Backed(w)' \/ (w \in DOMAIN workspaces /\ workspaces'[w] = workspaces[w])
      BY <2>1, <2>2, <3>6
    <3> QED BY <1>1, <3>5, <3>7, <3>8, <3>9, ReadTracks
  <2> QED BY <2>1, <2>3, <2>4
<1> QED BY <1>2, <1>3

\* Every step of the poller.
LEMMA ReconcilesTrack ==
  ASSUME WindowInv, Tracking, Reconciles
  PROVE  Tracking'
BY WorkspaceOpenedTracks, PaneCreatedTracks, PaneClosedTracks, StatusChangedTracks, InventoryLoadedTracks
   DEF Reconciles

-----------------------------------------------------------------------------
(* The life of the client, and the invariant.                               *)

\* What is saved, closed or left as it is.
LEMMA LeavesTrack ==
  ASSUME WindowInv, Tracking, AutoSave \/ Quit \/ UNCHANGED vars
  PROVE  Tracking'
<1>1. /\ UNCHANGED <<workspaces, late, actors>>
      /\ (life' = life /\ events' = events) \/ (life' = "leaving" /\ events' = <<>>)
  BY DEF AutoSave, Quit, vars, screen, aside
<1>2. InUse' = InUse
  BY <1>1 DEF InUse, Last
<1>3. Reopened' /\ \A w : Backed(w)' = Backed(w)
  BY <1>1, <1>2 DEF Tracking, Reopened, Backed
<1>4. CASE life' = life /\ events' = events
  BY <1>1, <1>3, <1>4 DEF Tracking, Credible, Senders, Sent, Stamped, Claims, Later
<1>5. CASE life' = "leaving" /\ events' = <<>>
  <2>1. Sent' = {}
    BY <1>5, ShortSeqs DEF Sent
  <2> QED BY <1>3, <1>5, <2>1 DEF Tracking, Credible, Senders
<1> QED BY <1>1, <1>4, <1>5

\* The process ends.
LEMMA ExitTracks ==
  ASSUME WindowInv, Tracking, Exit
  PROVE  Tracking'
<1>1. life' = "off" /\ actors' = <<Fresh>> /\ events' = <<>>
  BY DEF Exit
<1>2. Sent' = {}
  BY <1>1, ShortSeqs DEF Sent
<1>3. InUse' = Fresh /\ DOMAIN Fresh.queue = {}
  <2>1. Len(<<Fresh>>) = 1 /\ <<Fresh>>[1] = Fresh
    OBVIOUS
  <2> QED BY <1>1, <2>1 DEF InUse, Last, Fresh
<1> QED BY <1>1, <1>2, <1>3 DEF Tracking, Credible, Senders, Reopened, Orderly

\* load_state (window/mod.rs:393) opens every workspace again.
LEMMA StartTracks ==
  ASSUME WindowInv, Tracking, Start
  PROVE  Tracking'
<1> DEFINE ws == Loaded.workspaces
           inventory == Command("inventory", None, None, None, None)
<1>0. Shape /\ Actors /\ Numbered /\ Off /\ Reopened
  BY DEF WindowInv, Shape, Tracking
<1>1. /\ life = "off" /\ workspaces' = ws /\ events' = events
      /\ Send(IF ws = <<>> THEN <<inventory>> ELSE Opens(ws, DOMAIN ws))
  BY DEF Start, aside
<1>2. events' = <<>> /\ Sent' = {} /\ DOMAIN events' = {}
  BY <1>0, <1>1, ShortSeqs DEF Off, Sent
<1>3. DOMAIN ws \in SUBSET (Issued \cup {None})
  BY <1>0, LoadedFacts DEF Numbered
<1>4. PICK list : /\ IsSeq(list) /\ Send(list)
                  /\ \A c \in ToSet(list) : c.kind \notin {"shutdown", "forget"}
                  /\ \A w \in DOMAIN ws : \E c \in ToSet(list) : Opening(c, w)
  <2>1. CASE ws = <<>>
    <3>1. inventory.kind = "inventory"
      BY DEF Command
    <3>2. Send(<<inventory>>) /\ DOMAIN ws = {}
      BY <1>1, <2>1
    <3> HIDE DEF inventory, ws
    <3> QED BY <3>1, <3>2, ShortSeqs
  <2>2. CASE ws # <<>>
    <3>1. Send(Opens(ws, DOMAIN ws))
      BY <1>1, <2>2
    <3> HIDE DEF ws
    <3> QED BY <1>0, <1>3, <3>1, OpensAll
  <2> QED BY <2>1, <2>2
<1> HIDE DEF ws
<1>5. Asked(list)
  BY <1>0, <1>4, SendAsks
<1>6. Reopened'
  BY <1>0, <1>1, <1>4, <1>5, AskedKeepsOrder
<1>7. \A w \in DOMAIN workspaces' : Backed(w)'
  BY <1>0, <1>1, <1>4, <1>5, AskedBacks
<1> QED BY <1>2, <1>6, <1>7 DEF Tracking, Credible, Senders

\* The window starts with nothing shown, or with workspaces that are tracked.
LEMMA InitTracks ==
  ASSUME Init
  PROVE  Tracking
<1>1. PICK open \in {0, 1, 2} :
        /\ events = <<>> /\ DOMAIN workspaces = 1..open
        /\ actors = <<IF open > 0 THEN [queue |-> <<>>, tracked |-> [w \in 1..open |-> 1], link |-> "up"]
                      ELSE Fresh>>
  BY DEF Init
<1> DEFINE a == IF open > 0 THEN [queue |-> <<>>, tracked |-> [w \in 1..open |-> 1], link |-> "up"] ELSE Fresh
<1>2. Sent = {} /\ DOMAIN events = {}
  BY <1>1, ShortSeqs DEF Sent
<1>3. DOMAIN a.queue = {} /\ \A w \in 1..open : w \in DOMAIN a.tracked
  BY DEF Fresh
<1>4. actors = <<a>>
  BY <1>1
<1> HIDE DEF a
<1>5. InUse = a
  BY <1>4 DEF InUse, Last
<1>6. Reopened
  BY <1>3, <1>5 DEF Reopened, Orderly
<1>7. \A w \in DOMAIN workspaces : Backed(w)
  BY <1>1, <1>3, <1>5 DEF Backed, BackedBy
<1> QED BY <1>2, <1>6, <1>7 DEF Tracking, Credible, Senders

\* Every step keeps it.
LEMMA StepTracks ==
  ASSUME WindowInv, Tracking, [Next]_vars
  PROVE  Tracking'
BY UserActsTrack, EndpointActsTrack, ReconcilesTrack, LeavesTrack, ExitTracks, StartTracks DEF Next

\* Who is said to be connected is tracked or to be opened, in every state.
THEOREM TrackingIsInductive == Spec => []Tracking
<1>1. Init => Tracking
  BY InitTracks
<1>2. WindowInv /\ Tracking /\ [Next]_vars => Tracking'
  BY StepTracks
<1> QED BY <1>1, <1>2, WindowIsInductive, PTL DEF Spec

\* ConnectedIsTracked: once quiet, who is shown as connected is tracked by the actor in use, or was last
\* told of by another (retry_all_workspaces_for_endpoint, window/runtime.rs:623).
THEOREM ConnectedStaysTracked == Spec => []ConnectedIsTracked
<1>1. ASSUME WindowInv, Tracking, Quiet, NEW w \in DOMAIN workspaces, workspaces[w].status = "live", w \notin late
      PROVE  w \in DOMAIN InUse.tracked
  <2>1. life = "up" /\ events = <<>> /\ InUse.queue = <<>>
    BY <1>1, InUseIs DEF Quiet, WindowInv, Shape
  <2>2. Claims(0, w) /\ ~Later(0, w)
    BY <1>1, <2>1 DEF Claims, Later
  <2>3. Backed(w)
    BY <1>1, <2>1, <2>2 DEF Tracking, Credible
  <2> QED BY <2>1, <2>3, ShortSeqs DEF Backed, BackedBy
<1>2. WindowInv /\ Tracking => ConnectedIsTracked
  BY <1>1 DEF ConnectedIsTracked
<1> QED BY <1>2, WindowIsInductive, TrackingIsInductive, PTL

=============================================================================
