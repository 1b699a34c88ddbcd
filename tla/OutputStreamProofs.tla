-------------------------- MODULE OutputStreamProofs --------------------------
(****************************************************************************)
(* What the way of a pane's output promises to every client, for every set  *)
(* of clients, every bound of the channels and every amount of output.      *)
(*                                                                          *)
(* CleanStreamIsWhole speaks of a client that waits for nothing. To keep it *)
(* one has to know what happens while it does wait: a snapshot may be in    *)
(* the hands of the reader task, in the response channel or on the socket,  *)
(* with deltas in front of it, which it replaces, and behind it, which      *)
(* continue it. StreamsFlow says that of the lane of a client, the sequence *)
(* of all that is on its way to it: every snapshot in it is continued to    *)
(* the last batch sent by what is behind it, and so is the view if there    *)
(* is none. Each step appends to a lane, inserts into it something that is  *)
(* no output, or takes its head; a lemma for each says that it stays whole. *)
(* What is appended fits because the read loop numbers its batches and owes *)
(* the one it holds to whoever was attached (LoopKeepsScreen), and what is  *)
(* taken fits because no more than one answer is on its way (OneAnswer).    *)
(****************************************************************************)
EXTENDS OutputStream, SequenceTheorems, TLAPS

\* While the read loop has the screen, the pane has none, and what it has is the batches before; a
\* client that is attached and registered is sent the batch it was there for
\* (server.rs:2126-2307).
LoopKeepsScreen ==
  /\ pc \in {"collect", "parse", "send"} => seq > 0
  /\ pc \in {"collect", "parse"} => screen = <<>> /\ InOrder(taken, 0, seq - 1)
  /\ pc \notin {"collect", "parse"} => InOrder(screen, 0, seq)
  /\ pc \in {"parse", "send"} => senders \subseteq targets /\ targets \cap registered \subseteq senders
  /\ pc # "overflow" => overflowed = {}

\* Only deltas are pushed, a delta is one batch, and a client has one request with one answer on
\* its way, which it waits for (daemon_bridge.rs:720-775, server.rs:3001-3066).
IsAnswer(m) == m.kind \in {"snapshot", "ok"}
OneBatch(m) == m.kind = "delta" => Len(m.fed) = 1
AnswersOnce(c) ==
  /\ \A i \in DOMAIN push[c] : push[c][i].kind = "delta" /\ OneBatch(push[c][i])
  /\ \A i \in DOMAIN Sent(c) : OneBatch(Sent(c)[i])
  /\ IsAnswer(serving[c].reply)
  /\ serving[c].step = None => serving[c] = Unserved
  /\ request[c] # None => awaiting[c] = request[c] /\ serving[c].step = None
  /\ serving[c].step # None => awaiting[c] # None
  /\ \A i \in DOMAIN Sent(c) : IsAnswer(Sent(c)[i]) =>
       /\ awaiting[c] # None /\ request[c] = None /\ serving[c].step = None
       /\ \A j \in DOMAIN Sent(c) : IsAnswer(Sent(c)[j]) => i = j
OneAnswer == \A c \in Clients : AnswersOnce(c)

\* All that is on its way to a client, in the order it will be fed unless a delta overtakes.
Answer(c) == IF serving[c].reply.kind = "snapshot" THEN <<serving[c].reply>> ELSE <<>>
Lane(c) == Sent(c) \o Answer(c) \o push[c]

\* The batches behind position k of lane are m+1..n.
Behind(lane, k, m, n) ==
  /\ \A i \in DOMAIN lane : i > k /\ Batch(lane[i]) # Cleanup => Batch(lane[i]) \in m+1..n
  /\ \A b \in m+1..n : \E i \in DOMAIN lane : i > k /\ Batch(lane[i]) = b
  /\ \A i, j \in DOMAIN lane :
       k < i /\ i < j /\ Batch(lane[i]) # Cleanup /\ Batch(lane[j]) # Cleanup =>
         Batch(lane[i]) < Batch(lane[j])
Continues(fed, lane, k, n) == \E m \in 0..n : InOrder(fed, 0, m) /\ Behind(lane, k, m, n)

\* Whoever is fed lane after shown has been fed 1..n: each snapshot is continued by what is behind it.
NoSnapshot(lane) == \A i \in DOMAIN lane : lane[i].kind # "snapshot"
Whole(shown, lane, n) ==
  /\ NoSnapshot(lane) => Continues(shown, lane, 0, n)
  /\ \A k \in DOMAIN lane : lane[k].kind = "snapshot" => Continues(lane[k].fed, lane, k, n)
Flows(c) ==
  c \in attached \cap registered /\ ~marred[c] =>
    /\ Whole(view[c], Lane(c), LastSent(c))
    /\ pc \in {"collect", "parse"} => c \in targets
StreamsFlow == \A c \in Clients : Flows(c)

\* A drop is announced by a message, or its announcement has been heeded.
Announced ==
  \A c \in registered :
    missing[c] /\ ~deaf[c] =>
      \/ c \in overflowed
      \/ \E i \in DOMAIN Sent(c) : Sent(c)[i].kind = "overflow"
      \/ resyncs[c]
      \/ request[c] = "resync"

OutputInv == TypeOK /\ LoopKeepsScreen /\ OneAnswer /\ StreamsFlow /\ Announced

-----------------------------------------------------------------------------
(* Streams of batches.                                                      *)

\* The bounds of the channels, of the output and of the requests, one by one
\* (server.rs:48-51).
LEMMA Bounds ==
  /\ PushBound \in Nat \ {0} /\ RespBound \in Nat \ {0} /\ WireBound \in Nat \ {0}
  /\ MaxOutput \in Nat /\ MaxRequests \in Nat /\ MaxHeals \in Nat
BY ChannelAssumption, OutputBoundAssumption

\* A terminal or screen that is fed the next batch, or a clean-up, holds its batches in order
\* (the parse of the read loop, server.rs:2199-2245).
LEMMA InOrderGrows ==
  ASSUME NEW s \in Seq(Nat), NEW n \in Nat, InOrder(s, 0, n)
  PROVE  /\ InOrder(Append(s, n + 1), 0, n + 1)
         /\ InOrder(Append(s, Cleanup), 0, n)
<1> DEFINE next == Append(s, n + 1)
           same == Append(s, Cleanup)
<1>1. /\ DOMAIN s = 1..Len(s) /\ Len(s) \in Nat /\ \A i \in 1..Len(s) : s[i] \in Nat
      /\ DOMAIN next = 1..(Len(s) + 1) /\ DOMAIN same = 1..(Len(s) + 1)
      /\ \A i \in 1..Len(s) : next[i] = s[i] /\ same[i] = s[i]
      /\ next[Len(s) + 1] = n + 1 /\ same[Len(s) + 1] = 0
  BY DEF Cleanup
<1>2. InOrder(next, 0, n + 1)
  <2> HIDE DEF next, same
  <2>1. \A i \in DOMAIN next : next[i] # 0 => next[i] \in 1..(n + 1)
    BY <1>1 DEF InOrder, Cleanup
  <2>2. ASSUME NEW b \in 1..(n + 1) PROVE \E i \in DOMAIN next : next[i] = b
    <3>1. CASE b = n + 1
      BY <1>1, <3>1
    <3>2. CASE b # n + 1
      <4>1. PICK i \in DOMAIN s : s[i] = b
        BY <3>2 DEF InOrder
      <4> QED BY <1>1, <4>1
    <3> QED BY <3>1, <3>2
  <2>3. ASSUME NEW i \in DOMAIN next, NEW j \in DOMAIN next, i < j, next[i] # 0, next[j] # 0
        PROVE  next[i] < next[j]
    <3>1. i \in DOMAIN s /\ next[i] = s[i] /\ s[i] \in 1..n
      BY <1>1, <2>3 DEF InOrder, Cleanup
    <3>2. CASE j = Len(s) + 1
      BY <1>1, <3>1, <3>2
    <3>3. CASE j # Len(s) + 1
      <4>1. j \in DOMAIN s /\ next[j] = s[j]
        BY <1>1, <3>3
      <4>2. s[i] # Cleanup /\ s[j] # Cleanup
        BY <2>3, <3>1, <4>1 DEF Cleanup
      <4> QED BY <2>3, <3>1, <4>1, <4>2 DEF InOrder
    <3> QED BY <3>2, <3>3
  <2> QED BY <2>1, <2>2, <2>3 DEF InOrder, Cleanup
<1>3. InOrder(same, 0, n)
  <2> HIDE DEF next, same
  <2>1. \A i \in DOMAIN same : same[i] # Cleanup => i \in DOMAIN s /\ same[i] = s[i]
    BY <1>1 DEF Cleanup
  <2>2. \A i \in DOMAIN s : i \in DOMAIN same /\ same[i] = s[i]
    BY <1>1
  <2> QED BY <2>1, <2>2 DEF InOrder
<1> QED BY <1>2, <1>3

\* Messages that are no output can be anywhere in a lane: at maps the positions of the shorter lane to
\* those of the longer one (the two channels of a client_writer, server.rs:3068-3127).
LEMMA WholeEmbeds ==
  ASSUME NEW short \in Seq(Message), NEW long \in Seq(Message), NEW shown, NEW n \in Nat,
         NEW at \in [0..Len(short) -> 0..Len(long)], at[0] = 0,
         \A i \in 1..Len(short) : at[i] \in 1..Len(long) /\ long[at[i]] = short[i],
         \A i, j \in 0..Len(short) : i < j <=> at[i] < at[j],
         \A j \in 1..Len(long) : Batch(long[j]) # Cleanup \/ long[j].kind = "snapshot" =>
                                   \E i \in 1..Len(short) : at[i] = j,
         Whole(shown, short, n)
  PROVE  Whole(shown, long, n)
<1>1. DOMAIN short = 1..Len(short) /\ DOMAIN long = 1..Len(long) /\ Len(short) \in Nat /\ Len(long) \in Nat
  OBVIOUS
<1>2. ASSUME NEW k \in 0..Len(short), NEW m \in 0..n, Behind(short, k, m, n)
      PROVE  Behind(long, at[k], m, n)
  <2>1. ASSUME NEW i \in DOMAIN long, i > at[k], Batch(long[i]) # Cleanup
        PROVE  \E l \in DOMAIN short : at[l] = i /\ l > k /\ short[l] = long[i]
    <3>1. PICK l \in 1..Len(short) : at[l] = i
      BY <1>1, <2>1
    <3>2. long[at[l]] = short[l] /\ l \in 0..Len(short) /\ at[k] < at[l]
      BY <2>1, <3>1
    <3>3. k < l
      BY <3>2
    <3> QED BY <1>1, <3>1, <3>2, <3>3
  <2>2. \A i \in DOMAIN long : i > at[k] /\ Batch(long[i]) # Cleanup => Batch(long[i]) \in m+1..n
    BY <2>1, <1>2 DEF Behind
  <2>3. ASSUME NEW b \in m+1..n
        PROVE  \E i \in DOMAIN long : i > at[k] /\ Batch(long[i]) = b
    <3>1. PICK l \in DOMAIN short : l > k /\ Batch(short[l]) = b
      BY <1>2 DEF Behind
    <3>2. at[l] \in DOMAIN long /\ at[l] > at[k] /\ long[at[l]] = short[l]
      BY <1>1, <3>1
    <3> QED BY <3>1, <3>2
  <2>4. ASSUME NEW i \in DOMAIN long, NEW j \in DOMAIN long, at[k] < i, i < j,
               Batch(long[i]) # Cleanup, Batch(long[j]) # Cleanup
        PROVE  Batch(long[i]) < Batch(long[j])
    <3>1. i > at[k] /\ j > at[k]
      BY <1>1, <2>4
    <3>2. PICK l \in DOMAIN short : at[l] = i /\ l > k /\ short[l] = long[i]
      BY <2>1, <2>4, <3>1
    <3>3. PICK o \in DOMAIN short : at[o] = j /\ o > k /\ short[o] = long[j]
      BY <2>1, <2>4, <3>1
    <3>4. l < o
      BY <1>1, <2>4, <3>2, <3>3
    <3> QED BY <1>2, <2>4, <3>2, <3>3, <3>4 DEF Behind
  <2> QED BY <2>2, <2>3, <2>4 DEF Behind
<1>3. NoSnapshot(long) => NoSnapshot(short)
  BY <1>1 DEF NoSnapshot
<1>4. NoSnapshot(long) => Continues(shown, long, 0, n)
  BY <1>1, <1>2, <1>3 DEF Whole, Continues
<1>5. ASSUME NEW k \in DOMAIN long, long[k].kind = "snapshot"
      PROVE  Continues(long[k].fed, long, k, n)
  <2>1. PICK l \in DOMAIN short : at[l] = k /\ short[l] = long[k]
    <3>1. PICK l \in 1..Len(short) : at[l] = k
      BY <1>1, <1>5
    <3> QED BY <1>1, <3>1
  <2> QED BY <1>1, <1>2, <1>5, <2>1 DEF Whole, Continues
<1> QED BY <1>4, <1>5 DEF Whole

\* A message that is no output, put anywhere into a lane, does no harm: a StreamOverflow among the
\* responses (server.rs:560-580), the deltas of a heal (server.rs:1183-1222).
LEMMA WholeInserts ==
  ASSUME NEW a \in Seq(Message), NEW b \in Seq(Message), NEW x \in Message, NEW shown, NEW n \in Nat,
         x.kind # "snapshot", Batch(x) = Cleanup, Whole(shown, a \o b, n)
  PROVE  Whole(shown, Append(a, x) \o b, n)
<1> DEFINE short == a \o b
           long == Append(a, x) \o b
           at == [i \in 0..Len(short) |-> IF i <= Len(a) THEN i ELSE i + 1]
<1>1. /\ short \in Seq(Message) /\ long \in Seq(Message)
      /\ Len(a) \in Nat /\ Len(b) \in Nat
      /\ Len(short) = Len(a) + Len(b) /\ Len(long) = Len(a) + 1 + Len(b)
  BY ConcatProperties, AppendProperties
<1>2. \A i \in 1..Len(short) : short[i] = IF i <= Len(a) THEN a[i] ELSE b[i - Len(a)]
  BY <1>1, ConcatProperties
<1>3. \A i \in 1..Len(long) : long[i] = IF i <= Len(a) THEN a[i]
                                        ELSE IF i = Len(a) + 1 THEN x ELSE b[i - Len(a) - 1]
  <2> DEFINE ax == Append(a, x)
  <2>1. /\ ax \in Seq(Message) /\ Len(ax) = Len(a) + 1 /\ ax[Len(a) + 1] = x
        /\ \A i \in 1..Len(a) : ax[i] = a[i]
    BY AppendProperties
  <2> HIDE DEF ax
  <2>2. \A i \in 1..(Len(ax) + Len(b)) : (ax \o b)[i] = IF i <= Len(ax) THEN ax[i] ELSE b[i - Len(ax)]
    BY <2>1, ConcatProperties
  <2> QED BY <1>1, <2>1, <2>2 DEF ax
<1> HIDE DEF short, long
<1>4. /\ at \in [0..Len(short) -> 0..Len(long)] /\ at[0] = 0
      /\ \A i \in 1..Len(short) : at[i] \in 1..Len(long) /\ long[at[i]] = short[i]
      /\ \A i, j \in 0..Len(short) : i < j <=> at[i] < at[j]
  <2>1. at \in [0..Len(short) -> 0..Len(long)] /\ at[0] = 0
    BY <1>1
  <2>2. \A i \in 1..Len(short) : at[i] \in 1..Len(long) /\ at[i] = IF i <= Len(a) THEN i ELSE i + 1
    BY <1>1
  <2>3. ASSUME NEW i \in 1..Len(short) PROVE long[at[i]] = short[i]
    <3>1. CASE i <= Len(a)
      BY <1>2, <1>3, <2>2, <3>1
    <3>2. CASE i > Len(a)
      <4>1. at[i] = i + 1 /\ at[i] \in 1..Len(long) /\ i \in Nat
        BY <2>2, <3>2, <1>1
      <4>2. at[i] > Len(a) + 1 /\ at[i] - Len(a) - 1 = i - Len(a)
        BY <1>1, <3>2, <4>1
      <4>3. long[at[i]] = b[at[i] - Len(a) - 1]
        BY <1>1, <1>3, <4>1, <4>2
      <4> QED BY <1>1, <1>2, <3>2, <4>2, <4>3
    <3> QED BY <1>1, <3>1, <3>2
  <2>4. \A i, j \in 0..Len(short) : i < j <=> at[i] < at[j]
    BY <1>1
  <2> QED BY <2>1, <2>2, <2>3, <2>4
<1>5. ASSUME NEW j \in 1..Len(long), Batch(long[j]) # Cleanup \/ long[j].kind = "snapshot"
      PROVE  \E i \in 1..Len(short) : at[i] = j
  <2>1. CASE j <= Len(a)
    <3>1. j \in 1..Len(short) /\ at[j] = j
      BY <1>1, <2>1
    <3> QED BY <3>1
  <2>2. CASE j > Len(a) + 1
    <3>1. j - 1 \in 1..Len(short) /\ at[j - 1] = j
      BY <1>1, <2>2
    <3> QED BY <3>1
  <2>3. j # Len(a) + 1
    BY <1>1, <1>3, <1>5
  <2>4. j <= Len(a) \/ j = Len(a) + 1 \/ j > Len(a) + 1
    BY <1>1
  <2> QED BY <2>1, <2>2, <2>3, <2>4
<1> HIDE DEF at
<1> QED BY <1>1, <1>4, <1>5, WholeEmbeds DEF short, long

\* The next batch at the end of a lane continues it (send_to_collected, server.rs:62-81).
LEMMA WholeAppends ==
  ASSUME NEW lane \in Seq(Message), NEW x \in Message, NEW shown, NEW n \in Nat,
         x.kind = "delta", Batch(x) = n + 1, Whole(shown, lane, n)
  PROVE  Whole(shown, Append(lane, x), n + 1)
<1> DEFINE next == Append(lane, x)
<1>1. /\ DOMAIN lane = 1..Len(lane) /\ DOMAIN next = 1..(Len(lane) + 1) /\ Len(lane) \in Nat
      /\ \A i \in 1..Len(lane) : next[i] = lane[i]
      /\ next[Len(lane) + 1] = x
  BY AppendProperties, LenProperties
<1> HIDE DEF next
<1>2. ASSUME NEW k \in 0..Len(lane), NEW m \in 0..n, Behind(lane, k, m, n)
      PROVE  Behind(next, k, m, n + 1)
  <2>1. \A i \in DOMAIN next : i > k /\ Batch(next[i]) # Cleanup => Batch(next[i]) \in m+1..n+1
    <3>1. TAKE i \in DOMAIN next
    <3>2. CASE i = Len(lane) + 1
      BY <1>1, <3>2
    <3>3. CASE i # Len(lane) + 1
      BY <1>1, <1>2, <3>3 DEF Behind
    <3> QED BY <3>2, <3>3
  <2>2. ASSUME NEW b \in m+1..n+1
        PROVE  \E i \in DOMAIN next : i > k /\ Batch(next[i]) = b
    <3>1. CASE b = n + 1
      BY <1>1, <3>1
    <3>2. CASE b # n + 1
      <4>1. PICK i \in DOMAIN lane : i > k /\ Batch(lane[i]) = b
        BY <1>2, <3>2 DEF Behind
      <4> QED BY <1>1, <4>1
    <3> QED BY <3>1, <3>2
  <2>3. ASSUME NEW i \in DOMAIN next, NEW j \in DOMAIN next, k < i, i < j,
               Batch(next[i]) # Cleanup, Batch(next[j]) # Cleanup
        PROVE  Batch(next[i]) < Batch(next[j])
    <3>1. i \in DOMAIN lane /\ next[i] = lane[i]
      BY <1>1, <2>3
    <3>2. Batch(lane[i]) \in m+1..n
      BY <1>2, <2>3, <3>1 DEF Behind
    <3>3. CASE j = Len(lane) + 1
      BY <1>1, <3>1, <3>2, <3>3
    <3>4. CASE j # Len(lane) + 1
      <4>1. j \in DOMAIN lane /\ next[j] = lane[j]
        BY <1>1, <3>4
      <4> QED BY <1>2, <2>3, <3>1, <4>1 DEF Behind
    <3> QED BY <3>3, <3>4
  <2> QED BY <2>1, <2>2, <2>3 DEF Behind
<1>3. ASSUME NEW fed, NEW k \in 0..Len(lane), Continues(fed, lane, k, n)
      PROVE  Continues(fed, next, k, n + 1)
  <2>1. PICK m \in 0..n : InOrder(fed, 0, m) /\ Behind(lane, k, m, n)
    BY <1>3 DEF Continues
  <2>2. m \in 0..(n + 1) /\ Behind(next, k, m, n + 1)
    BY <1>2, <2>1
  <2> QED BY <2>1, <2>2 DEF Continues
<1>4. NoSnapshot(next) => Continues(shown, next, 0, n + 1)
  BY <1>1, <1>3 DEF Whole, NoSnapshot
<1>5. ASSUME NEW k \in DOMAIN next, next[k].kind = "snapshot"
      PROVE  Continues(next[k].fed, next, k, n + 1)
  <2>1. k \in DOMAIN lane /\ next[k] = lane[k]
    BY <1>1, <1>5
  <2> QED BY <1>1, <1>3, <1>5, <2>1 DEF Whole
<1> QED BY <1>4, <1>5 DEF Whole, next

\* A snapshot of all batches at the end of a lane needs nothing behind it (attach and resync,
\* server.rs:881-929, 1113-1222).
LEMMA WholeSnapshot ==
  ASSUME NEW lane \in Seq(Message), NoSnapshot(lane), NEW fed \in Fed, NEW shown, NEW n \in Nat,
         InOrder(fed, 0, n)
  PROVE  Whole(shown, Append(lane, Snapshot(fed)), n)
<1> DEFINE next == Append(lane, Snapshot(fed))
<1>1. Snapshot(fed) \in Message /\ Snapshot(fed).kind = "snapshot" /\ Snapshot(fed).fed = fed
  BY DEF Snapshot, Message
<1>2. /\ DOMAIN lane = 1..Len(lane) /\ DOMAIN next = 1..(Len(lane) + 1) /\ Len(lane) \in Nat
      /\ \A i \in 1..Len(lane) : next[i] = lane[i]
      /\ next[Len(lane) + 1] = Snapshot(fed)
  BY <1>1, AppendProperties, LenProperties
<1> HIDE DEF next
<1>3. Behind(next, Len(lane) + 1, n, n)
  BY <1>2 DEF Behind
<1>4. ~ NoSnapshot(next)
  BY <1>1, <1>2 DEF NoSnapshot
<1>5. ASSUME NEW k \in DOMAIN next, next[k].kind = "snapshot"
      PROVE  Continues(next[k].fed, next, k, n)
  <2>1. k = Len(lane) + 1
    BY <1>2, <1>5 DEF NoSnapshot
  <2> QED BY <1>1, <1>2, <1>3, <2>1 DEF Continues
<1> QED BY <1>4, <1>5 DEF Whole, next

\* The client is fed the first message: a snapshot replaces what it shows, a delta is the next batch
\* (daemon_bridge.rs:1903-1957).
LEMMA WholeReceives ==
  ASSUME NEW lane \in Seq(Message), lane # <<>>, NEW shown \in Seq(Nat), NEW n \in Nat,
         Whole(shown, lane, n), OneBatch(Head(lane)),
         NEW next, next = CASE Head(lane).kind = "delta"    -> shown \o Head(lane).fed
                            [] Head(lane).kind = "snapshot" -> Head(lane).fed
                            [] OTHER                        -> shown
  PROVE  Whole(next, Tail(lane), n)
<1> DEFINE rest == Tail(lane)
           head == Head(lane)
<1>1. /\ DOMAIN lane = 1..Len(lane) /\ DOMAIN rest = 1..(Len(lane) - 1) /\ Len(lane) \in Nat \ {0}
      /\ \A i \in 1..(Len(lane) - 1) : rest[i] = lane[i + 1]
      /\ head = lane[1] /\ head \in Message
  BY HeadTailProperties, LenProperties, EmptySeq
<1> HIDE DEF rest, head
<1>2. ASSUME NEW k \in 1..Len(lane), NEW m \in 0..n, Behind(lane, k, m, n)
      PROVE  Behind(rest, k - 1, m, n)
  <2>1. \A i \in DOMAIN rest : i > k - 1 => i + 1 \in DOMAIN lane /\ i + 1 > k /\ rest[i] = lane[i + 1]
    BY <1>1
  <2>2. \A i \in DOMAIN lane : i > k => i - 1 \in DOMAIN rest /\ i - 1 > k - 1 /\ rest[i - 1] = lane[i]
    BY <1>1
  <2>3. \A i \in DOMAIN rest : i > k - 1 /\ Batch(rest[i]) # Cleanup => Batch(rest[i]) \in m+1..n
    BY <1>2, <2>1 DEF Behind
  <2>4. ASSUME NEW b \in m+1..n PROVE \E i \in DOMAIN rest : i > k - 1 /\ Batch(rest[i]) = b
    <3>1. PICK i \in DOMAIN lane : i > k /\ Batch(lane[i]) = b
      BY <1>2 DEF Behind
    <3> QED BY <2>2, <3>1
  <2>5. ASSUME NEW i \in DOMAIN rest, NEW j \in DOMAIN rest, k - 1 < i, i < j,
               Batch(rest[i]) # Cleanup, Batch(rest[j]) # Cleanup
        PROVE  Batch(rest[i]) < Batch(rest[j])
    <3>1. /\ i + 1 \in DOMAIN lane /\ k < i + 1 /\ rest[i] = lane[i + 1]
          /\ j + 1 \in DOMAIN lane /\ rest[j] = lane[j + 1] /\ i + 1 < j + 1
      BY <1>1, <2>1, <2>5
    <3> QED BY <1>2, <2>5, <3>1 DEF Behind
  <2> QED BY <2>3, <2>4, <2>5 DEF Behind
<1>3. ASSUME NEW fed, NEW k \in 1..Len(lane), Continues(fed, lane, k, n)
      PROVE  Continues(fed, rest, k - 1, n)
  BY <1>2, <1>3 DEF Continues
<1>4. ASSUME NEW k \in DOMAIN rest, rest[k].kind = "snapshot"
      PROVE  Continues(rest[k].fed, rest, k, n)
  <2>1. k + 1 \in DOMAIN lane /\ rest[k] = lane[k + 1] /\ k + 1 - 1 = k
    BY <1>1
  <2>2. Continues(rest[k].fed, lane, k + 1, n)
    BY <1>4, <2>1 DEF Whole
  <2> QED BY <1>1, <1>3, <2>1, <2>2
<1>5. ASSUME NoSnapshot(rest)
      PROVE  Continues(next, rest, 0, n)
  <2>1. CASE head.kind = "snapshot"
    <3>1. Continues(head.fed, lane, 1, n)
      BY <1>1, <2>1 DEF Whole
    <3>2. Continues(head.fed, rest, 0, n)
      BY <1>1, <1>3, <3>1
    <3> QED BY <2>1, <3>2 DEF head
  <2>2. CASE head.kind # "snapshot"
    <3>1. NoSnapshot(lane)
      <4>1. ASSUME NEW i \in DOMAIN lane, i # 1 PROVE lane[i].kind # "snapshot"
        <5>1. i - 1 \in DOMAIN rest /\ rest[i - 1] = lane[i]
          BY <1>1, <4>1
        <5> QED BY <1>5, <5>1 DEF NoSnapshot
      <4> QED BY <1>1, <2>2, <4>1 DEF NoSnapshot
    <3>2. PICK m \in 0..n : InOrder(shown, 0, m) /\ Behind(lane, 0, m, n)
      BY <3>1 DEF Whole, Continues
    <3>3. CASE Batch(head) = Cleanup
      <4>1. Behind(lane, 1, m, n)
        <5>1. 1 \in DOMAIN lane /\ Batch(lane[1]) = Cleanup
          BY <1>1, <3>3
        <5>2. \A i \in DOMAIN lane : Batch(lane[i]) # Cleanup => i > 1 /\ i > 0
          BY <1>1, <5>1
        <5>3. \A b \in m+1..n : b # Cleanup
          BY DEF Cleanup
        <5>4. \A i \in DOMAIN lane : i > 1 /\ Batch(lane[i]) # Cleanup => Batch(lane[i]) \in m+1..n
          BY <3>2, <5>2 DEF Behind
        <5>5. \A b \in m+1..n : \E i \in DOMAIN lane : i > 1 /\ Batch(lane[i]) = b
          BY <3>2, <5>2, <5>3 DEF Behind
        <5>6. \A i, j \in DOMAIN lane :
                1 < i /\ i < j /\ Batch(lane[i]) # Cleanup /\ Batch(lane[j]) # Cleanup =>
                  Batch(lane[i]) < Batch(lane[j])
          BY <3>2, <5>2 DEF Behind
        <5> QED BY <5>4, <5>5, <5>6 DEF Behind
      <4>2. Behind(rest, 0, m, n)
        BY <1>1, <1>2, <4>1
      <4>3. next = shown \/ next = Append(shown, Cleanup)
        <5>1. CASE head.kind = "delta"
          <6>1. head.fed \in Fed /\ Len(head.fed) = 1 /\ Head(head.fed) = Cleanup
            BY <1>1, <3>3, <5>1 DEF Batch, OneBatch, Message, head
          <6>2. head.fed = <<Cleanup>>
            BY <6>1 DEF Fed
          <6>3. Append(shown, Cleanup) = shown \o <<Cleanup>>
            BY AppendIsConcat DEF Cleanup
          <6> QED BY <5>1, <6>2, <6>3 DEF head
        <5>2. CASE head.kind # "delta"
          BY <2>2, <5>2 DEF head
        <5> QED BY <5>1, <5>2
      <4>4. InOrder(next, 0, m)
        <5>1. m \in Nat
          OBVIOUS
        <5> QED BY <3>2, <4>3, <5>1, InOrderGrows
      <4> QED BY <4>2, <4>4 DEF Continues
    <3>4. CASE Batch(head) # Cleanup
      <4>1. head.kind = "delta" /\ Batch(head) = Head(head.fed)
        BY <3>4 DEF Batch
      <4>2. Batch(head) \in m+1..n
        BY <1>1, <3>2, <3>4, SMTT(30) DEF Behind
      <4>3. Batch(head) = m + 1
        <5>1. m + 1 \in m+1..n
          BY <4>2
        <5>2. PICK i \in DOMAIN lane : Batch(lane[i]) = m + 1
          BY <3>2, <5>1 DEF Behind
        <5>3. CASE i = 1
          BY <1>1, <5>2, <5>3
        <5>4. CASE i # 1
          <6>1. 1 \in DOMAIN lane /\ 0 < 1 /\ 1 < i /\ Batch(lane[i]) # Cleanup
            BY <1>1, <5>2, <5>4 DEF Cleanup
          <6>2. Batch(lane[1]) < Batch(lane[i])
            BY <1>1, <3>2, <3>4, <6>1 DEF Behind
          <6> QED BY <1>1, <4>2, <5>2, <6>2
        <5> QED BY <5>3, <5>4
      <4>4. Behind(lane, 1, m + 1, n)
        <5>1. ASSUME NEW i \in DOMAIN lane, i > 1, Batch(lane[i]) # Cleanup
              PROVE  Batch(lane[i]) \in (m+1)+1..n
          <6>1. 1 \in DOMAIN lane /\ 0 < 1 /\ 1 < i /\ Batch(lane[1]) # Cleanup /\ i > 0
            BY <1>1, <3>4, <5>1
          <6>2. Batch(lane[i]) \in m+1..n /\ Batch(lane[1]) < Batch(lane[i])
            BY <3>2, <5>1, <6>1 DEF Behind
          <6> QED BY <1>1, <4>3, <6>1, <6>2
        <5>2. ASSUME NEW b \in (m+1)+1..n
              PROVE  \E i \in DOMAIN lane : i > 1 /\ Batch(lane[i]) = b
          <6>1. b \in m+1..n /\ b # m + 1
            BY <4>2
          <6>2. PICK i \in DOMAIN lane : Batch(lane[i]) = b
            BY <3>2, <6>1 DEF Behind
          <6>3. i # 1 /\ i \in 1..Len(lane)
            BY <1>1, <4>3, <6>1, <6>2
          <6>4. i > 1
            BY <1>1, <6>3
          <6> QED BY <6>2, <6>4
        <5>3. \A i, j \in DOMAIN lane :
                1 < i /\ i < j /\ Batch(lane[i]) # Cleanup /\ Batch(lane[j]) # Cleanup =>
                  Batch(lane[i]) < Batch(lane[j])
          BY <1>1, <3>2 DEF Behind
        <5> QED BY <5>1, <5>2, <5>3 DEF Behind
      <4>5. Behind(rest, 0, m + 1, n)
        <5>1. m + 1 \in 0..n /\ 1 \in 1..Len(lane) /\ 1 - 1 = 0
          BY <1>1, <4>2
        <5>2. Behind(rest, 1 - 1, m + 1, n)
          BY <1>2, <4>4, <5>1
        <5> QED BY <5>1, <5>2
      <4>6. next = Append(shown, m + 1)
        <5>1. head.fed \in Fed /\ Len(head.fed) = 1
          BY <1>1, <4>1 DEF OneBatch, Message, head
        <5>2. head.fed = <<m + 1>>
          BY <4>1, <4>3, <5>1 DEF Fed
        <5>3. Append(shown, m + 1) = shown \o <<m + 1>>
          BY AppendIsConcat
        <5> QED BY <4>1, <5>2, <5>3 DEF head
      <4>7. InOrder(next, 0, m + 1)
        <5>1. m \in Nat
          OBVIOUS
        <5> QED BY <3>2, <4>6, <5>1, InOrderGrows
      <4> QED BY <4>2, <4>5, <4>7 DEF Continues
    <3> QED BY <3>3, <3>4
  <2> QED BY <2>1, <2>2
<1> QED BY <1>4, <1>5 DEF Whole, rest

-----------------------------------------------------------------------------
(* The lanes of a client.                                                   *)

\* The first of what follows is moved to the end of what precedes, as client_writer does
\* (server.rs:3088-3110).
LEMMA MoveHead ==
  ASSUME NEW S, NEW s \in Seq(S), NEW t \in Seq(S), t # <<>>
  PROVE  Append(s, Head(t)) \o Tail(t) = s \o t
<1>1. Head(t) \in S /\ Tail(t) \in Seq(S) /\ <<Head(t)>> \in Seq(S)
  BY HeadTailProperties
<1>2. <<Head(t)>> \o Tail(t) = t
  <2> DEFINE one == <<Head(t)>>
             rest == Tail(t)
             u == one \o rest
  <2>1. /\ one \in Seq(S) /\ rest \in Seq(S) /\ Len(one) = 1 /\ one[1] = t[1]
        /\ Len(rest) = Len(t) - 1 /\ \A i \in 1..(Len(t) - 1) : rest[i] = t[i + 1]
        /\ Len(t) \in Nat \ {0}
    BY <1>1, HeadTailProperties, EmptySeq
  <2> HIDE DEF one, rest
  <2>2. /\ u \in Seq(S) /\ Len(u) = Len(one) + Len(rest)
        /\ \A i \in 1..(Len(one) + Len(rest)) : u[i] = IF i <= Len(one) THEN one[i] ELSE rest[i - Len(one)]
    BY <2>1, ConcatProperties
  <2> HIDE DEF u
  <2>3. \A i \in 1..Len(u) : u[i] = t[i]
    BY <2>1, <2>2
  <2>4. Len(u) = Len(t)
    BY <2>1, <2>2
  <2>5. u = t
    BY <2>2, <2>3, <2>4, SeqEqual
  <2> QED BY <2>5 DEF u, one, rest
<1>3. Append(s, Head(t)) = s \o <<Head(t)>>
  BY <1>1, AppendIsConcat
<1> QED BY <1>1, <1>2, <1>3, ConcatAssociative

\* The rest of a concatenation whose first part is not empty: what a client reads is the first of all
\* that is on its way (daemon_bridge.rs:1903-1957).
LEMMA TailOfConcat ==
  ASSUME NEW S, NEW a \in Seq(S), NEW b \in Seq(S), a # <<>>
  PROVE  Tail(a \o b) = Tail(a) \o b
<1> DEFINE ab == a \o b
           ra == Tail(a)
           rab == Tail(ab)
           both == ra \o b
<1>1. /\ ab \in Seq(S) /\ Len(ab) = Len(a) + Len(b) /\ Len(a) \in Nat \ {0} /\ Len(b) \in Nat
      /\ \A i \in 1..(Len(a) + Len(b)) : ab[i] = IF i <= Len(a) THEN a[i] ELSE b[i - Len(a)]
  BY ConcatProperties, LenProperties, EmptySeq
<1> HIDE DEF ab
<1>2. ab # <<>>
  BY <1>1, EmptySeq
<1>3. /\ rab \in Seq(S) /\ Len(rab) = Len(ab) - 1
      /\ \A i \in 1..(Len(ab) - 1) : rab[i] = ab[i + 1]
  BY <1>1, <1>2, HeadTailProperties
<1>4. /\ ra \in Seq(S) /\ Len(ra) = Len(a) - 1 /\ \A i \in 1..(Len(a) - 1) : ra[i] = a[i + 1]
  BY HeadTailProperties
<1> HIDE DEF ra, rab
<1>5. /\ both \in Seq(S) /\ Len(both) = Len(ra) + Len(b)
      /\ \A i \in 1..(Len(ra) + Len(b)) : both[i] = IF i <= Len(ra) THEN ra[i] ELSE b[i - Len(ra)]
  BY <1>4, ConcatProperties
<1> HIDE DEF both
<1>6. Len(both) = Len(rab) /\ Len(rab) = Len(a) + Len(b) - 1
  BY <1>1, <1>3, <1>4, <1>5
<1>7. ASSUME NEW i \in 1..Len(both) PROVE both[i] = rab[i]
  <2>1. /\ i \in Nat \ {0} /\ i <= Len(a) + Len(b) - 1
        /\ rab[i] = IF i + 1 <= Len(a) THEN a[i + 1] ELSE b[(i + 1) - Len(a)]
    BY <1>1, <1>3, <1>6
  <2>2. both[i] = IF i <= Len(a) - 1 THEN ra[i] ELSE b[i - (Len(a) - 1)]
    BY <1>1, <1>4, <1>5
  <2>3. CASE i <= Len(a) - 1
    BY <1>1, <1>4, <2>1, <2>2, <2>3
  <2>4. CASE i > Len(a) - 1
    <3>1. (i + 1) - Len(a) = i - (Len(a) - 1)
      BY <1>1, <2>1
    <3> QED BY <1>1, <2>1, <2>2, <2>4, <3>1
  <2> QED BY <1>1, <2>1, <2>3, <2>4
<1>8. both = rab
  BY <1>3, <1>5, <1>6, <1>7, SeqEqual
<1> QED BY <1>8 DEF ab, both, ra, rab

\* An item at the end of the second part is one at the end of the whole: what is put into a channel
\* comes after all that is on its way already (server.rs:62-81, 560-580).
LEMMA AppendRight ==
  ASSUME NEW S, NEW s \in Seq(S), NEW t \in Seq(S), NEW x \in S
  PROVE  s \o Append(t, x) = Append(s \o t, x)
<1>1. <<x>> \in Seq(S) /\ s \o t \in Seq(S)
  BY ConcatProperties
<1>2. Append(t, x) = t \o <<x>> /\ Append(s \o t, x) = (s \o t) \o <<x>>
  BY <1>1, AppendIsConcat
<1> QED BY <1>1, <1>2, ConcatAssociative

\* The types of what is on its way to a client: messages, in the channels of ClientState and in the
\* hands of its reader task (server.rs:3001-3127).
LEMMA LaneTypes ==
  ASSUME TypeOK, NEW c \in Clients
  PROVE  /\ push[c] \in Seq(Message) /\ resp[c] \in Seq(Message) /\ wire[c] \in Seq(Message)
         /\ Sent(c) \in Seq(Message) /\ Answer(c) \in Seq(Message) /\ Lane(c) \in Seq(Message)
         /\ Sent(c) \o Answer(c) \in Seq(Message)
         /\ serving[c] \in Serving /\ serving[c].reply \in Message
         /\ view[c] \in Fed /\ view[c] \in Seq(Nat)
<1>1. push[c] \in Seq(Message) /\ resp[c] \in Seq(Message) /\ wire[c] \in Seq(Message)
  BY DEF TypeOK
<1>2. serving[c] \in Serving /\ serving[c].reply \in Message
  BY DEF TypeOK, Serving
<1>3. Sent(c) \in Seq(Message)
  BY <1>1, ConcatProperties DEF Sent
<1>4. Answer(c) \in Seq(Message)
  BY <1>2 DEF Answer
<1>5. Sent(c) \o Answer(c) \in Seq(Message)
  BY <1>3, <1>4, ConcatProperties
<1>6. Lane(c) \in Seq(Message)
  BY <1>1, <1>5, ConcatProperties DEF Lane
<1>7. view[c] \in Fed /\ view[c] \in Seq(Nat)
  BY Bounds DEF TypeOK, Fed
<1> QED BY <1>1, <1>2, <1>3, <1>4, <1>5, <1>6, <1>7

\* The last batch that was sent is a number: who holds a batch has counted it (server.rs:2126-2176).
LEMMA LastSentIsNumber ==
  ASSUME TypeOK, LoopKeepsScreen, NEW c
  PROVE  LastSent(c) \in Nat
BY Bounds DEF TypeOK, LoopKeepsScreen, LastSent

\* What a step leaves alone in the channels of a client, it leaves alone in its lane: each client has
\* channels of its own (server.rs:3001-3127).
LEMMA LaneKept ==
  ASSUME NEW c, wire'[c] = wire[c], resp'[c] = resp[c]
  PROVE  /\ Sent(c)' = Sent(c)
         /\ push'[c] = push[c] /\ serving'[c].reply = serving[c].reply => Lane(c)' = Lane(c)
BY DEF Sent, Lane, Answer

\* A stream that a step leaves alone stays whole: detaching, losing a push sender or being marred only
\* asks for less (server.rs:545-610).
LEMMA FlowKept ==
  ASSUME NEW c \in Clients, Flows(c),
         view'[c] = view[c], Lane(c)' = Lane(c), LastSent(c)' = LastSent(c),
         c \in attached' \cap registered' => c \in attached \cap registered,
         marred[c] => marred'[c],
         pc' \in {"collect", "parse"} /\ c \in attached' \cap registered' => c \in targets'
  PROVE  Flows(c)'
BY DEF Flows

\* A request that a step leaves alone still has one answer: a client waits for its own
\* (daemon_bridge.rs:720-775).
LEMMA AnswersKept ==
  ASSUME NEW c, AnswersOnce(c), Sent(c)' = Sent(c), push'[c] = push[c],
         serving'[c] = serving[c], awaiting'[c] = awaiting[c], request'[c] = request[c]
  PROVE  AnswersOnce(c)'
BY DEF AnswersOnce

-----------------------------------------------------------------------------
(* The read loop.                                                           *)

\* A pane without output and clients without messages (server.rs:2825-2840).
LEMMA InitHolds == Init => OutputInv
<1> SUFFICES ASSUME Init PROVE OutputInv
  OBVIOUS
<1>1. TypeOK
  <2>1. <<>> \in Fed /\ <<>> \in Seq(Message)
    BY EmptySeq DEF Fed
  <2>2. Ok \in Message /\ Unserved \in Serving
    BY <2>1 DEF Ok, Unserved, Message, Serving
  <2>3. {push, resp, wire} \subseteq [Clients -> Seq(Message)]
    BY <2>1 DEF Init
  <2>4. \A c \in Clients : Len(push[c]) = 0 /\ Len(resp[c]) = 0 /\ Len(wire[c]) = 0
    BY DEF Init
  <2>5. serving \in [Clients -> Serving] /\ view \in [Clients -> Fed]
    BY <2>1, <2>2 DEF Init
  <2>6. {request, awaiting} \subseteq [Clients -> Requests \cup {None}]
    BY DEF Init
  <2>7. {resyncs, missing, deaf, marred} \subseteq [Clients -> BOOLEAN]
    BY DEF Init
  <2>8. seq \in 0..MaxOutput /\ requests \in 0..MaxRequests /\ heals \in 0..MaxHeals
    BY Bounds DEF Init
  <2> QED BY <2>1, <2>3, <2>4, <2>5, <2>6, <2>7, <2>8, Bounds DEF Init, TypeOK, Phases
<1>2. LoopKeepsScreen
  BY DEF Init, LoopKeepsScreen, InOrder
<1>3. \A c \in Clients : push[c] = <<>> /\ Sent(c) = <<>> /\ Answer(c) = <<>> /\ Lane(c) = <<>>
  BY DEF Init, Sent, Answer, Lane, Unserved, Ok
<1>4. OneAnswer
  BY <1>3 DEF Init, OneAnswer, AnswersOnce, IsAnswer, Unserved, Ok
<1>5. StreamsFlow
  BY DEF Init, StreamsFlow, Flows
<1>6. Announced
  BY DEF Init, Announced, TypeOK
<1> QED BY <1>1, <1>2, <1>4, <1>5, <1>6 DEF OutputInv

\* The read loop takes the screen, collects the senders, parses and puts the screen back: nothing is
\* sent, and the batch is owed to whoever was attached (phases 1 to 3, server.rs:2126-2245).
LEMMA ScreenSteps ==
  ASSUME OutputInv, Accept \/ CollectSenders \/ ReturnScreen
  PROVE  OutputInv'
<1>1. /\ UNCHANGED <<overflowed, members, lanes, server, client, heals, history>>
      /\ seq \in Nat /\ pc' # "overflow" /\ pc # "overflow"
      /\ pc' = "collect" \/ pc' = "parse" \/ pc' = "send"
  BY DEF OutputInv, TypeOK, Accept, CollectSenders, ReturnScreen
<1>2. TypeOK'
  <2>1. /\ seq' \in 0..MaxOutput /\ screen' \in Fed /\ taken' \in Fed /\ pc' \in Phases
    <3>1. CASE Accept
      BY <3>1, Bounds, EmptySeq DEF Accept, OutputInv, TypeOK, Phases, Fed
    <3>2. CASE CollectSenders
      BY <3>2 DEF CollectSenders, OutputInv, TypeOK, Phases, pane
    <3>3. CASE ReturnScreen
      BY <3>3, EmptySeq, AppendProperties DEF ReturnScreen, OutputInv, TypeOK, Phases, Fed
    <3> QED BY <3>1, <3>2, <3>3
  <2>2. targets' \subseteq Clients /\ senders' \subseteq Clients /\ overflowed' = {}
    BY <1>1 DEF Accept, CollectSenders, ReturnScreen, OutputInv, TypeOK, LoopKeepsScreen
  <2> QED BY <1>1, <2>1, <2>2
      DEF OutputInv, TypeOK, members, lanes, server, client, history
<1>3. LoopKeepsScreen'
  <2>1. CASE Accept
    BY <1>1, <2>1 DEF Accept, OutputInv, LoopKeepsScreen
  <2>2. CASE CollectSenders
    BY <1>1, <2>2 DEF CollectSenders, OutputInv, LoopKeepsScreen, pane, members
  <2>3. CASE ReturnScreen
    <3>1. /\ taken \in Seq(Nat) /\ seq - 1 \in Nat /\ InOrder(taken, 0, seq - 1)
          /\ (seq - 1) + 1 = seq
      BY <1>1, <2>3, Bounds DEF ReturnScreen, OutputInv, LoopKeepsScreen, TypeOK, Fed
    <3>2. InOrder(Append(taken, seq), 0, seq)
      BY <3>1, InOrderGrows
    <3> QED BY <1>1, <2>3, <3>2 DEF ReturnScreen, OutputInv, LoopKeepsScreen, members
  <2> QED BY <2>1, <2>2, <2>3
<1>4. ASSUME NEW c \in Clients
      PROVE  Sent(c)' = Sent(c) /\ Lane(c)' = Lane(c)
  BY <1>1, LaneKept DEF lanes, server
<1>5. OneAnswer'
  BY <1>1, <1>4, AnswersKept DEF OutputInv, OneAnswer, lanes, server, client
<1>6. ASSUME NEW c \in Clients PROVE Flows(c)'
  <2>1. CASE c \in attached /\ c \in registered /\ ~marred[c]
    <3>1. LastSent(c)' = LastSent(c)
      BY <1>1, <2>1 DEF Accept, CollectSenders, ReturnScreen, LastSent, pane
    <3>2. pc' \in {"collect", "parse"} => c \in targets'
      BY <1>1, <2>1 DEF Accept, CollectSenders, ReturnScreen, OutputInv, StreamsFlow, Flows
    <3> QED BY <1>1, <1>4, <3>1, <3>2, FlowKept
        DEF OutputInv, StreamsFlow, members, client, history
  <2>2. CASE ~(c \in attached /\ c \in registered /\ ~marred[c])
    BY <1>1, <2>2 DEF Flows, members, history
  <2> QED BY <2>1, <2>2
<1>7. Announced'
  BY <1>1, <1>4 DEF OutputInv, TypeOK, Announced, members, server, client, history
<1> QED BY <1>2, <1>3, <1>5, <1>6, <1>7 DEF OutputInv, StreamsFlow

\* The batch is pushed to whoever was there when it was accepted and has room for it (phase 5,
\* server.rs:2263-2300).
LEMMA SendDeltaKeeps ==
  ASSUME OutputInv, SendDelta
  PROVE  OutputInv'
<1> DEFINE behind == {c \in senders : Full(c)}
<1>1. /\ UNCHANGED <<taken, targets, senders, pane, members, resp, wire, server, client, heals>>
      /\ push' = [c \in Clients |-> IF c \in senders /\ ~Full(c) THEN Append(push[c], Delta(seq))
                                    ELSE push[c]]
      /\ overflowed' = behind
      /\ pc = "send" /\ pc' = IF behind = {} THEN "read" ELSE "overflow"
      /\ missing' = [c \in Clients |-> missing[c] \/ c \in behind]
      /\ deaf' = [c \in Clients |-> deaf[c] /\ c \notin behind]
      /\ marred' = [c \in Clients |-> marred[c] \/ c \in behind]
  BY DEF SendDelta, PushTo
<1>2. /\ TypeOK /\ LoopKeepsScreen /\ seq \in Nat /\ seq > 0 /\ seq \in 0..MaxOutput
      /\ senders \subseteq targets /\ targets \cap registered \subseteq senders
      /\ behind \subseteq senders /\ senders \subseteq Clients /\ overflowed = {}
  BY <1>1 DEF OutputInv, TypeOK, LoopKeepsScreen
<1> DEFINE x == Delta(seq)
<1>3. /\ x \in Message /\ x.kind = "delta" /\ Len(x.fed) = 1 /\ Batch(x) = seq
  BY <1>2 DEF Message, Delta, Fed, Batch
<1> HIDE DEF x
<1>4. ASSUME NEW c \in Clients, c \in senders, ~Full(c)
      PROVE  push'[c] = Append(push[c], x) /\ push'[c] \in Seq(Message) /\ Len(push'[c]) <= PushBound
  <2>1. push[c] \in Seq(Message) /\ push'[c] = Append(push[c], x) /\ Len(push[c]) \in Nat
    BY <1>1, <1>2, <1>4, LaneTypes, LenProperties DEF x
  <2>2. Len(push[c]) < PushBound
    BY <1>4, <2>1, Bounds DEF Full
  <2> QED BY <1>3, <2>1, <2>2, Bounds, AppendProperties
<1>5. ASSUME NEW c \in Clients, ~(c \in senders /\ ~Full(c))
      PROVE  push'[c] = push[c]
  BY <1>1, <1>5
<1>6. TypeOK'
  <2>1. ASSUME NEW c \in Clients
        PROVE  push'[c] \in Seq(Message) /\ Len(push'[c]) <= PushBound
    BY <1>2, <1>4, <1>5 DEF TypeOK
  <2>2. push' \in [Clients -> Seq(Message)]
    BY <1>1, <2>1
  <2>3. pc' \in Phases /\ overflowed' \subseteq senders'
    BY <1>1, <1>2 DEF Phases
  <2>4. {resyncs, missing, deaf, marred}' \subseteq [Clients -> BOOLEAN]
    <3>1. /\ \A c \in Clients : (missing[c] \/ c \in behind) \in BOOLEAN
          /\ \A c \in Clients : (deaf[c] /\ c \notin behind) \in BOOLEAN
          /\ \A c \in Clients : (marred[c] \/ c \in behind) \in BOOLEAN
      OBVIOUS
    <3>2. /\ missing' \in [Clients -> BOOLEAN] /\ deaf' \in [Clients -> BOOLEAN]
          /\ marred' \in [Clients -> BOOLEAN]
      BY <1>1, <3>1
    <3> QED BY <1>1, <1>2, <3>2 DEF TypeOK, client
  <2> QED BY <1>1, <1>2, <2>1, <2>2, <2>3, <2>4 DEF TypeOK, pane, members, server, client
<1>7. LoopKeepsScreen'
  BY <1>1, <1>2 DEF LoopKeepsScreen, pane, members
<1>8. ASSUME NEW c \in Clients PROVE Sent(c)' = Sent(c)
  BY <1>1, LaneKept
<1>9. ASSUME NEW c \in Clients PROVE AnswersOnce(c)'
  <2>1. AnswersOnce(c)
    BY DEF OutputInv, OneAnswer
  <2>2. \A i \in DOMAIN push'[c] : push'[c][i].kind = "delta" /\ OneBatch(push'[c][i])
    <3>1. CASE c \in senders /\ ~Full(c)
      <4>1. /\ DOMAIN push[c] = 1..Len(push[c]) /\ DOMAIN push'[c] = 1..(Len(push[c]) + 1)
            /\ \A i \in 1..Len(push[c]) : push'[c][i] = push[c][i]
            /\ push'[c][Len(push[c]) + 1] = x /\ Len(push[c]) \in Nat
        BY <1>2, <1>3, <1>4, <3>1, LaneTypes, AppendProperties, LenProperties
      <4> QED BY <1>3, <2>1, <4>1 DEF AnswersOnce, OneBatch
    <3>2. CASE ~(c \in senders /\ ~Full(c))
      BY <1>5, <2>1, <3>2 DEF AnswersOnce
    <3> QED BY <3>1, <3>2
  <2> QED BY <1>1, <1>8, <2>1, <2>2 DEF AnswersOnce, server, client
<1>10. ASSUME NEW c \in Clients PROVE Flows(c)'
  <2>1. SUFFICES ASSUME c \in attached, c \in registered, ~marred[c], c \notin behind
                 PROVE  Whole(view[c], Lane(c)', LastSent(c)')
    BY <1>1 DEF Flows, members, client
  <2>2. Whole(view[c], Lane(c), LastSent(c))
    BY <2>1 DEF OutputInv, StreamsFlow, Flows
  <2>3. LastSent(c)' = seq
    BY <1>1 DEF LastSent, pane
  <2>4. CASE c \in senders
    <3>1. LastSent(c) = seq - 1 /\ seq - 1 \in Nat
      BY <1>1, <1>2, <2>4 DEF LastSent
    <3>2. push'[c] = Append(push[c], x)
      BY <1>4, <2>1, <2>4
    <3>3. Lane(c)' = Append(Lane(c), x)
      <4>1. Lane(c)' = (Sent(c) \o Answer(c)) \o push'[c]
        BY <1>1, <1>8 DEF Lane, Answer, server
      <4> DEFINE front == Sent(c) \o Answer(c)
      <4>2. front \in Seq(Message) /\ push[c] \in Seq(Message) /\ Lane(c) = front \o push[c]
        BY <1>2, LaneTypes DEF Lane
      <4>3. Lane(c)' = front \o Append(push[c], x)
        BY <3>2, <4>1
      <4> HIDE DEF front
      <4> QED BY <1>3, <4>2, <4>3, AppendRight
    <3>4. Whole(view[c], Append(Lane(c), x), (seq - 1) + 1)
      <4>1. Batch(x) = (seq - 1) + 1 /\ Lane(c) \in Seq(Message)
        BY <1>2, <1>3, LaneTypes
      <4> DEFINE lane == Lane(c)
                 n == seq - 1
      <4>2. lane \in Seq(Message) /\ n \in Nat /\ Batch(x) = n + 1 /\ Whole(view[c], lane, n)
        BY <2>2, <3>1, <4>1
      <4> HIDE DEF lane, n
      <4>3. Whole(view[c], Append(lane, x), n + 1)
        BY <1>3, <4>2, WholeAppends
      <4> QED BY <4>3 DEF lane, n
    <3> QED BY <1>2, <2>3, <3>3, <3>4
  <2>5. CASE c \notin senders
    <3>1. LastSent(c) = seq
      BY <1>1, <1>2, <2>1, <2>5 DEF LastSent
    <3>2. Lane(c)' = Lane(c)
      BY <1>1, <1>5, <2>5, LaneKept DEF server
    <3> QED BY <2>2, <2>3, <3>1, <3>2
  <2> QED BY <2>4, <2>5
<1>11. Announced'
  <2> SUFFICES ASSUME NEW c \in registered, missing'[c], ~deaf'[c]
               PROVE  \/ c \in overflowed'
                      \/ \E i \in DOMAIN Sent(c)' : Sent(c)'[i].kind = "overflow"
                      \/ resyncs'[c]
                      \/ request'[c] = "resync"
    BY <1>1 DEF Announced, members
  <2>1. c \in Clients
    BY <1>2 DEF TypeOK
  <2>2. CASE c \in behind
    BY <1>1, <2>2
  <2>3. CASE c \notin behind
    <3>1. missing[c] /\ ~deaf[c]
      BY <1>1, <2>1, <2>3
    <3> QED BY <1>1, <1>2, <1>8, <2>1, <3>1 DEF OutputInv, Announced, server, client
  <2> QED BY <2>2, <2>3
<1> QED BY <1>6, <1>7, <1>9, <1>10, <1>11 DEF OutputInv, OneAnswer, StreamsFlow

\* A StreamOverflow or an answer without a snapshot at the end of the response channel leaves the
\* stream whole (server.rs:560-580, 3045-3062).
LEMMA WholeNotices ==
  ASSUME TypeOK, LoopKeepsScreen, NEW c \in Clients, NEW x \in Message, x.kind \in {"ok", "overflow"},
         Flows(c), c \in attached, c \in registered, ~marred[c]
  PROVE  Whole(view[c], (Append(Sent(c), x) \o Answer(c)) \o push[c], LastSent(c))
<1> DEFINE a == Sent(c)
           b == Answer(c) \o push[c]
           n == LastSent(c)
           shown == view[c]
<1>1. a \in Seq(Message) /\ Answer(c) \in Seq(Message) /\ push[c] \in Seq(Message) /\ n \in Nat
  BY LaneTypes, LastSentIsNumber
<1>2. b \in Seq(Message) /\ Append(a, x) \in Seq(Message)
  BY <1>1, ConcatProperties, AppendProperties
<1>3. /\ (a \o Answer(c)) \o push[c] = a \o b
      /\ (Append(a, x) \o Answer(c)) \o push[c] = Append(a, x) \o b
  <2> DEFINE answer == Answer(c)
             longer == Append(a, x)
             last == push[c]
  <2>1. a \in Seq(Message) /\ longer \in Seq(Message) /\ answer \in Seq(Message) /\ last \in Seq(Message)
    BY <1>1, <1>2
  <2> HIDE DEF a, answer, longer, last
  <2>2. (a \o answer) \o last = a \o (answer \o last)
    BY <2>1, ConcatAssociative
  <2>3. (longer \o answer) \o last = longer \o (answer \o last)
    BY <2>1, ConcatAssociative
  <2> QED BY <2>2, <2>3 DEF answer, longer, last
<1>4. Whole(shown, a \o b, n)
  BY <1>3 DEF Flows, Lane
<1>5. x.kind # "snapshot" /\ Batch(x) = Cleanup
  BY DEF Batch
<1> HIDE DEF a, b, n, shown
<1>6. Whole(shown, Append(a, x) \o b, n)
  BY <1>1, <1>2, <1>4, <1>5, WholeInserts
<1> QED BY <1>3, <1>6 DEF a, b, n, shown

\* A StreamOverflow is no answer: a client still has at most one on its way (server.rs:560-580).
LEMMA AnswersNotice ==
  ASSUME TypeOK, NEW c \in Clients, AnswersOnce(c), Sent(c)' = Append(Sent(c), Overflow),
         push'[c] = push[c], serving'[c].reply = serving[c].reply, serving'[c].step = serving[c].step,
         serving'[c].step = None => serving'[c] = serving[c],
         awaiting'[c] = awaiting[c], request'[c] = request[c]
  PROVE  AnswersOnce(c)'
<1> DEFINE s == Sent(c)
           t == Sent(c)'
<1>1. Overflow \in Message
  BY DEF Overflow, Message, Fed
<1>2. /\ DOMAIN s = 1..Len(s) /\ DOMAIN t = 1..(Len(s) + 1) /\ Len(s) \in Nat
      /\ \A i \in 1..Len(s) : t[i] = s[i]
      /\ t[Len(s) + 1] = Overflow
  BY <1>1, LaneTypes, AppendProperties, LenProperties
<1>3. ~IsAnswer(Overflow) /\ OneBatch(Overflow)
  BY DEF IsAnswer, OneBatch, Overflow
<1> HIDE DEF s, t
<1>4. \A i \in DOMAIN t : OneBatch(t[i])
  BY <1>2, <1>3 DEF AnswersOnce, s
<1>5. \A i \in DOMAIN t : IsAnswer(t[i]) => i \in DOMAIN s /\ t[i] = s[i]
  BY <1>2, <1>3
<1>6. \A i \in DOMAIN t : IsAnswer(t[i]) =>
        /\ awaiting[c] # None /\ request[c] = None /\ serving[c].step = None
        /\ \A j \in DOMAIN t : IsAnswer(t[j]) => i = j
  BY <1>5 DEF AnswersOnce, s
<1> QED BY <1>4, <1>6 DEF AnswersOnce, t

\* Whoever keeps its push sender after its channel overflowed has the StreamOverflow, and the response
\* channels stay in their bound (handle_push_overflows, server.rs:545-610).
LEMMA OverflowIsTold ==
  ASSUME TypeOK, NEW cs \in SUBSET Clients, HandleOverflowOf(cs)
  PROVE  /\ resp' \in [Clients -> Seq(Message)] /\ registered' \subseteq registered
         /\ \A c \in Clients : Len(resp'[c]) <= RespBound
         /\ \A c \in registered' :
              IF c \in cs THEN resp'[c] = Append(resp[c], Overflow) ELSE resp'[c] = resp[c]
         /\ \A c \in Clients : resp'[c] = resp[c] \/ resp'[c] = Append(resp[c], Overflow)
<1>1. Overflow \in Message
  BY DEF Overflow, Message, Fed
<1>2. resp' = [c \in Clients |-> IF c \in Told(cs) THEN Append(resp[c], Overflow) ELSE resp[c]]
  BY DEF HandleOverflowOf
<1>3. ASSUME NEW c \in Clients
      PROVE  resp'[c] \in Seq(Message) /\ Len(resp'[c]) <= RespBound
  <2>1. resp[c] \in Seq(Message) /\ Len(resp[c]) \in Nat /\ Len(resp[c]) <= RespBound
    BY LaneTypes, LenProperties DEF TypeOK
  <2>2. CASE c \in Told(cs)
    <3>1. Len(resp[c]) < RespBound /\ resp'[c] = Append(resp[c], Overflow)
      BY <1>2, <2>2 DEF Told
    <3> QED BY <1>1, <2>1, <3>1, Bounds, AppendProperties
  <2>3. CASE c \notin Told(cs)
    BY <1>2, <2>1, <2>3
  <2> QED BY <2>2, <2>3
<1>4. registered' \subseteq registered /\ Told(cs) \subseteq cs /\ \A c \in registered' : c \in cs => c \in Told(cs)
  BY DEF HandleOverflowOf, Told
<1>5. registered \subseteq Clients
  BY DEF TypeOK
<1> QED BY <1>2, <1>3, <1>4, <1>5

\* The clients whose channels were full are told, or lose their push senders (handle_push_overflows,
\* server.rs:545-610).
LEMMA HandlePushOverflowsKeeps ==
  ASSUME OutputInv, HandlePushOverflows
  PROVE  OutputInv'
<1>1. /\ UNCHANGED <<taken, targets, senders, pane, attached, push, wire, server, client, heals, history>>
      /\ pc = "overflow" /\ pc' = "read" /\ overflowed' = {} /\ HandleOverflowOf(overflowed)
      /\ TypeOK /\ LoopKeepsScreen /\ overflowed \in SUBSET Clients
  BY DEF HandlePushOverflows, OutputInv, TypeOK
<1>2. /\ resp' \in [Clients -> Seq(Message)] /\ registered' \subseteq registered
      /\ \A c \in Clients : Len(resp'[c]) <= RespBound
      /\ \A c \in registered' :
           IF c \in overflowed THEN resp'[c] = Append(resp[c], Overflow) ELSE resp'[c] = resp[c]
      /\ \A c \in Clients : resp'[c] = resp[c] \/ resp'[c] = Append(resp[c], Overflow)
  BY <1>1, OverflowIsTold
<1>3. TypeOK'
  BY <1>1, <1>2 DEF TypeOK, Phases, pane, server, client, history
<1>4. LoopKeepsScreen'
  BY <1>1 DEF LoopKeepsScreen, pane
<1>5. Overflow \in Message
  BY DEF Overflow, Message, Fed
<1>6. ASSUME NEW c \in Clients, resp'[c] = Append(resp[c], Overflow)
      PROVE  Sent(c)' = Append(Sent(c), Overflow)
  <2> DEFINE s == wire[c]
             t == resp[c]
  <2>1. s \in Seq(Message) /\ t \in Seq(Message)
    BY <1>1, LaneTypes
  <2> HIDE DEF s, t
  <2>2. s \o Append(t, Overflow) = Append(s \o t, Overflow)
    BY <1>5, <2>1, AppendRight
  <2> QED BY <1>1, <1>6, <2>2 DEF Sent, s, t
<1>7. ASSUME NEW c \in Clients PROVE AnswersOnce(c)'
  <2>1. AnswersOnce(c)
    BY DEF OutputInv, OneAnswer
  <2>2. CASE resp'[c] = resp[c]
    BY <1>1, <2>1, <2>2, LaneKept, AnswersKept DEF server, client
  <2>3. CASE resp'[c] = Append(resp[c], Overflow)
    BY <1>1, <1>6, <2>1, <2>3, AnswersNotice DEF server, client
  <2> QED BY <1>2, <2>2, <2>3
<1>8. ASSUME NEW c \in Clients PROVE Flows(c)'
  <2>1. SUFFICES ASSUME c \in attached, c \in registered, ~marred[c]
                 PROVE  Whole(view[c], Lane(c)', LastSent(c)')
    BY <1>1, <1>2 DEF Flows, client, history
  <2>2. Flows(c) /\ Whole(view[c], Lane(c), LastSent(c))
    BY <2>1 DEF OutputInv, StreamsFlow, Flows
  <2>3. LastSent(c)' = LastSent(c)
    BY <1>1 DEF LastSent, pane
  <2>4. CASE resp'[c] = resp[c]
    BY <1>1, <2>2, <2>3, <2>4, LaneKept DEF server
  <2>5. CASE resp'[c] = Append(resp[c], Overflow)
    <3>1. Lane(c)' = (Append(Sent(c), Overflow) \o Answer(c)) \o push[c]
      BY <1>1, <1>6, <2>5 DEF Lane, Answer, server
    <3>2. Overflow.kind \in {"ok", "overflow"}
      BY DEF Overflow
    <3>3. Whole(view[c], (Append(Sent(c), Overflow) \o Answer(c)) \o push[c], LastSent(c))
      BY <1>1, <1>5, <2>1, <2>2, <3>2, WholeNotices
    <3> QED BY <2>3, <3>1, <3>3
  <2> QED BY <1>2, <2>4, <2>5
<1>9. Announced'
  <2> SUFFICES ASSUME NEW c \in registered', missing[c], ~deaf[c]
               PROVE  \/ \E i \in DOMAIN Sent(c)' : Sent(c)'[i].kind = "overflow"
                      \/ resyncs[c]
                      \/ request[c] = "resync"
    BY <1>1 DEF Announced, server, client, history
  <2>1. c \in Clients /\ c \in registered
    BY <1>1, <1>2 DEF TypeOK
  <2>2. CASE c \in overflowed
    <3>1. Sent(c)' = Append(Sent(c), Overflow) /\ Sent(c) \in Seq(Message)
      BY <1>1, <1>2, <1>6, <2>1, <2>2, LaneTypes
    <3>2. /\ DOMAIN Sent(c)' = 1..(Len(Sent(c)) + 1) /\ Len(Sent(c)) \in Nat
          /\ Sent(c)'[Len(Sent(c)) + 1] = Overflow
      BY <1>5, <3>1, AppendProperties, LenProperties
    <3> QED BY <3>2 DEF Overflow
  <2>3. CASE c \notin overflowed
    <3>1. Sent(c)' = Sent(c)
      BY <1>1, <1>2, <2>3, LaneKept
    <3> QED BY <2>1, <2>3, <3>1 DEF OutputInv, Announced
  <2> QED BY <2>2, <2>3
<1> QED BY <1>3, <1>4, <1>7, <1>8, <1>9 DEF OutputInv, OneAnswer, StreamsFlow

-----------------------------------------------------------------------------
(* Requests.                                                                *)

\* What a request does: an answer is put together, which is a new snapshot of the screen or none
\* (server.rs:881-929, 1113-1222).
LEMMA RequestIsHandled ==
  ASSUME OutputInv, NEW c \in Clients, HandleMessage(c)
  PROVE  /\ UNCHANGED <<loop, lanes, client, seq, registered>>
         /\ request[c] \in Requests /\ serving[c].step = None
         /\ request' = [request EXCEPT ![c] = None]
         /\ screen' \in Fed /\ attached' \subseteq Clients /\ heals' \in 0..MaxHeals
         /\ screen' = screen \/ (pc \notin {"collect", "parse"} /\ screen' = Append(screen, Cleanup))
         /\ \A d \in Clients \ {c} : d \in attached' <=> d \in attached
         /\ \E done \in Serving :
              /\ serving' = [serving EXCEPT ![c] = done] /\ done.step # None
              /\ \/ done.reply = Snapshot(screen') /\ Snap(c, screen')
                 \/ /\ done.reply = Ok /\ UNCHANGED history /\ attached' \subseteq attached
                    /\ request[c] # "resync"
<1>1. /\ UNCHANGED <<loop, lanes, client>> /\ serving[c].step = None
      /\ request' = [request EXCEPT ![c] = None]
      /\ Attach(c) \/ Resync(c) \/ Detach(c) \/ OtherRequest(c)
      /\ TypeOK /\ LoopKeepsScreen
      /\ screen \in Fed /\ attached \subseteq Clients /\ heals \in 0..MaxHeals
      /\ "attach" \in Requests /\ "resync" \in Requests /\ "detach" \in Requests /\ "other" \in Requests
  BY DEF HandleMessage, OutputInv, TypeOK, Requests
<1>2. ASSUME NEW step \in {"heal", "reply"}, NEW reply \in Message, NEW others \in SUBSET Clients
      PROVE  /\ [step |-> step, reply |-> reply, others |-> others] \in Serving
             /\ [step |-> step, reply |-> reply, others |-> others].step # None
             /\ [step |-> step, reply |-> reply, others |-> others].reply = reply
  BY DEF Serving, None
<1>3. Ok \in Message /\ \A fed \in Fed : Snapshot(fed) \in Message
  BY EmptySeq DEF Ok, Snapshot, Message, Fed
<1>4. Append(screen, Cleanup) \in Fed
  BY <1>1, AppendProperties, Bounds DEF Fed, Cleanup
<1>5. CASE Resync(c)
  <2>1. /\ serving' = [serving EXCEPT ![c] = [step |-> "reply", reply |-> Snapshot(screen), others |-> {}]]
        /\ Snap(c, screen) /\ request[c] = "resync"
        /\ UNCHANGED <<seq, screen, attached, registered, heals>>
    BY <1>5 DEF Resync, pane, members
  <2>2. Snap(c, screen')
    BY <2>1 DEF Snap
  <2>3. PICK done : done = [step |-> "reply", reply |-> Snapshot(screen), others |-> {}]
    OBVIOUS
  <2>4. done \in Serving /\ done.step # None /\ done.reply = Snapshot(screen')
    BY <1>1, <1>2, <1>3, <2>1, <2>3
  <2>5. serving' = [serving EXCEPT ![c] = done]
    BY <2>1, <2>3
  <2> QED BY <1>1, <2>1, <2>2, <2>4, <2>5
<1>6. CASE Detach(c)
  <2>1. /\ serving' = [serving EXCEPT ![c] = [step |-> "reply", reply |-> Ok, others |-> {}]]
        /\ request[c] = "detach" /\ attached' = attached \ {c}
        /\ UNCHANGED <<seq, screen, registered, heals, history>>
    BY <1>6 DEF Detach, pane
  <2>2. PICK done : done = [step |-> "reply", reply |-> Ok, others |-> {}]
    OBVIOUS
  <2>3. done \in Serving /\ done.step # None /\ done.reply = Ok
    BY <1>2, <1>3, <2>2
  <2>4. serving' = [serving EXCEPT ![c] = done]
    BY <2>1, <2>2
  <2> QED BY <1>1, <2>1, <2>3, <2>4
<1>7. CASE OtherRequest(c)
  <2>1. /\ serving' = [serving EXCEPT ![c] = [step |-> "reply", reply |-> Ok, others |-> {}]]
        /\ request[c] = "other"
        /\ UNCHANGED <<seq, screen, attached, registered, heals, history>>
    BY <1>7 DEF OtherRequest, pane, members
  <2>2. PICK done : done = [step |-> "reply", reply |-> Ok, others |-> {}]
    OBVIOUS
  <2>3. done \in Serving /\ done.step # None /\ done.reply = Ok
    BY <1>2, <1>3, <2>2
  <2>4. serving' = [serving EXCEPT ![c] = done]
    BY <2>1, <2>2
  <2> QED BY <1>1, <2>1, <2>3, <2>4
<1>8. CASE Attach(c)
  <2>1. /\ request[c] = "attach" /\ attached' = attached \cup {c}
        /\ Snap(c, screen') /\ UNCHANGED <<seq, registered>>
    BY <1>8 DEF Attach
  <2>2. CASE UNCHANGED <<screen, heals>> /\
             serving' = [serving EXCEPT ![c] = [step |-> "reply", reply |-> Snapshot(screen), others |-> {}]]
    <3>1. PICK done : done = [step |-> "reply", reply |-> Snapshot(screen), others |-> {}]
      OBVIOUS
    <3>2. done \in Serving /\ done.step # None /\ done.reply = Snapshot(screen')
      BY <1>1, <1>2, <1>3, <2>2, <3>1
    <3>3. serving' = [serving EXCEPT ![c] = done]
      BY <2>2, <3>1
    <3> QED BY <1>1, <2>1, <2>2, <3>2, <3>3
  <2>3. CASE /\ MayHeal /\ screen' = Append(screen, Cleanup) /\ heals' = heals + 1
             /\ serving' = [serving EXCEPT ![c] = [step |-> "heal", reply |-> Snapshot(screen'),
                                                   others |-> attached \ {c}]]
    <3>1. pc \notin {"collect", "parse"} /\ heals' \in 0..MaxHeals
      BY <1>1, <2>3, Bounds DEF MayHeal, LoopKeepsScreen
    <3>2. screen' \in Fed /\ Snapshot(screen') \in Message /\ attached \ {c} \in SUBSET Clients
      BY <1>1, <1>3, <1>4, <2>3
    <3>3. PICK done : done = [step |-> "heal", reply |-> Snapshot(screen'), others |-> attached \ {c}]
      OBVIOUS
    <3>4. done \in Serving /\ done.step # None /\ done.reply = Snapshot(screen')
      BY <1>2, <3>2, <3>3
    <3>5. serving' = [serving EXCEPT ![c] = done]
      BY <2>3, <3>3
    <3> QED BY <1>1, <2>1, <2>3, <3>1, <3>2, <3>4, <3>5
  <2> QED BY <1>8, <2>2, <2>3 DEF Attach
<1> QED BY <1>1, <1>5, <1>6, <1>7, <1>8

\* A snapshot that is taken now, with nothing in its way, is one of all that was sent: the screen is
\* there and nobody owes the client a batch that it holds (server.rs:1186, 2173).
LEMMA SnapshotIsWhole ==
  ASSUME OutputInv, NEW c \in Clients, request[c] # None, c \in registered, ~Spoils(c),
         NEW fed \in Fed, InOrder(fed, 0, seq), NEW shown
  PROVE  Whole(shown, (Sent(c) \o <<Snapshot(fed)>>) \o push[c], LastSent(c))
<1>1. /\ TypeOK /\ LoopKeepsScreen /\ AnswersOnce(c) /\ seq \in Nat
      /\ pc \notin {"collect", "parse"} /\ push[c] = <<>> /\ ~(pc = "send" /\ c \in senders)
  BY DEF OutputInv, OneAnswer, Spoils, TypeOK
<1>2. LastSent(c) = seq
  BY <1>1 DEF LastSent, LoopKeepsScreen
<1> DEFINE lane == Sent(c)
           x == Snapshot(fed)
<1>3. lane \in Seq(Message) /\ x \in Message
  BY <1>1, LaneTypes DEF Snapshot, Message
<1>4. NoSnapshot(lane)
  BY <1>1 DEF NoSnapshot, AnswersOnce, IsAnswer
<1>5. (lane \o <<x>>) \o push[c] = Append(lane, x)
  <2> HIDE DEF lane, x
  <2>1. Append(lane, x) = lane \o <<x>> /\ Append(lane, x) \in Seq(Message)
    BY <1>3, AppendIsConcat, AppendProperties
  <2>2. (lane \o <<x>>) \o <<>> = lane \o <<x>>
    BY <2>1, ConcatEmptySeq
  <2> QED BY <1>1, <2>1, <2>2
<1>6. Whole(shown, Append(lane, x), seq)
  <2> HIDE DEF lane
  <2> QED BY <1>1, <1>3, <1>4, WholeSnapshot
<1> QED BY <1>2, <1>5, <1>6

\* Attach, resync, detach and the requests that have nothing to do with output (server.rs:881-929,
\* 1113-1222).
LEMMA HandleMessageKeeps ==
  ASSUME OutputInv, NEW c \in Clients, HandleMessage(c)
  PROVE  OutputInv'
<1>1. /\ UNCHANGED <<loop, lanes, client, seq, registered>>
      /\ request[c] \in Requests /\ serving[c].step = None
      /\ request' = [request EXCEPT ![c] = None]
      /\ screen' \in Fed /\ attached' \subseteq Clients /\ heals' \in 0..MaxHeals
      /\ screen' = screen \/ (pc \notin {"collect", "parse"} /\ screen' = Append(screen, Cleanup))
      /\ \A d \in Clients \ {c} : d \in attached' <=> d \in attached
  BY RequestIsHandled
<1>2. PICK done \in Serving :
        /\ serving' = [serving EXCEPT ![c] = done] /\ done.step # None
        /\ \/ done.reply = Snapshot(screen') /\ Snap(c, screen')
           \/ /\ done.reply = Ok /\ UNCHANGED history /\ attached' \subseteq attached
              /\ request[c] # "resync"
  BY RequestIsHandled
<1>3. /\ TypeOK /\ LoopKeepsScreen /\ OneAnswer /\ StreamsFlow /\ Announced /\ AnswersOnce(c)
      /\ request[c] # None /\ awaiting[c] = request[c] /\ serving[c].reply = Ok
  <2>1. TypeOK /\ LoopKeepsScreen /\ OneAnswer /\ StreamsFlow /\ Announced /\ AnswersOnce(c)
    BY DEF OutputInv, OneAnswer
  <2>2. request[c] # None
    BY <1>1 DEF Requests, None
  <2>3. serving[c] = Unserved /\ awaiting[c] = request[c]
    BY <1>1, <2>1, <2>2 DEF AnswersOnce
  <2> QED BY <2>1, <2>2, <2>3 DEF Unserved
<1>4. /\ serving' \in [Clients -> Serving] /\ serving'[c] = done
      /\ request' \in [Clients -> Requests \cup {None}] /\ request'[c] = None
      /\ \A d \in Clients \ {c} : serving'[d] = serving[d] /\ request'[d] = request[d]
  BY <1>1, <1>2, <1>3 DEF TypeOK
<1>5. /\ {missing, deaf, marred}' \subseteq [Clients -> BOOLEAN]
      /\ \A d \in Clients \ {c} : missing'[d] = missing[d] /\ deaf'[d] = deaf[d] /\ marred'[d] = marred[d]
  <2>1. CASE Snap(c, screen')
    <3>1. Spoils(c) \in BOOLEAN
      BY DEF Spoils
    <3> QED BY <1>3, <2>1, <3>1 DEF Snap, TypeOK
  <2>2. CASE UNCHANGED history
    BY <1>3, <2>2 DEF history, TypeOK
  <2> QED BY <1>2, <2>1, <2>2
<1>6. TypeOK'
  <2>1. {resyncs, missing, deaf, marred}' \subseteq [Clients -> BOOLEAN]
    BY <1>1, <1>3, <1>5 DEF TypeOK, client
  <2>2. {request, awaiting}' \subseteq [Clients -> Requests \cup {None}]
    BY <1>1, <1>3, <1>4 DEF TypeOK, client
  <2> QED BY <1>1, <1>3, <1>4, <2>1, <2>2 DEF TypeOK, loop, lanes, client
<1>7. LoopKeepsScreen'
  <2>1. InOrder(screen, 0, seq) => InOrder(Append(screen, Cleanup), 0, seq)
    <3>1. screen \in Seq(Nat) /\ seq \in Nat
      BY <1>3, Bounds DEF TypeOK, Fed
    <3> QED BY <3>1, InOrderGrows
  <2> QED BY <1>1, <1>3, <2>1 DEF LoopKeepsScreen, loop
<1>8. ASSUME NEW d \in Clients PROVE Sent(d)' = Sent(d) /\ push'[d] = push[d]
  BY <1>1, LaneKept DEF lanes
<1>9. ASSUME NEW d \in Clients PROVE AnswersOnce(d)'
  <2>1. CASE d # c
    BY <1>1, <1>3, <1>4, <1>8, <2>1, AnswersKept DEF OneAnswer, client
  <2>2. CASE d = c
    <3>1. \A i \in DOMAIN Sent(c) : ~IsAnswer(Sent(c)[i])
      BY <1>3 DEF AnswersOnce
    <3>2. IsAnswer(done.reply)
      BY <1>2 DEF IsAnswer, Snapshot, Ok
    <3>3. awaiting'[c] = awaiting[c] /\ awaiting[c] # None
      BY <1>1, <1>3 DEF client
    <3> QED BY <1>2, <1>3, <1>4, <1>8, <2>2, <3>1, <3>2, <3>3 DEF AnswersOnce
  <2> QED BY <2>1, <2>2
<1>10. ASSUME NEW d \in Clients PROVE Flows(d)'
  <2>1. LastSent(d)' = LastSent(d) /\ view'[d] = view[d] /\ pc' = pc /\ targets' = targets
    BY <1>1 DEF LastSent, loop, client
  <2>2. Flows(d)
    BY <1>3 DEF StreamsFlow
  <2>3. CASE d # c
    <3>1. Lane(d)' = Lane(d) /\ (d \in attached' <=> d \in attached) /\ marred'[d] = marred[d]
      BY <1>1, <1>4, <1>5, <2>3, LaneKept DEF lanes
    <3> QED BY <1>1, <2>1, <2>2, <3>1 DEF Flows
  <2>4. CASE d = c /\ done.reply = Snapshot(screen') /\ Snap(c, screen')
    <3>1. SUFFICES ASSUME c \in registered, ~Spoils(c)
                   PROVE  Flows(c)'
      BY <1>1, <1>3, <2>4 DEF Flows, Snap, TypeOK
    <3>2. pc' \notin {"collect", "parse"} /\ InOrder(screen', 0, seq)
      BY <1>1, <1>7, <2>1, <3>1 DEF Spoils, LoopKeepsScreen
    <3>3. Lane(c)' = (Sent(c) \o <<Snapshot(screen')>>) \o push[c]
      <4>1. serving'[c].reply = Snapshot(screen') /\ serving'[c].reply.kind = "snapshot"
        BY <1>4, <2>4 DEF Snapshot
      <4>2. Answer(c)' = <<Snapshot(screen')>>
        BY <4>1 DEF Answer
      <4> QED BY <1>8, <4>2 DEF Lane
    <3>4. Whole(view[c], (Sent(c) \o <<Snapshot(screen')>>) \o push[c], LastSent(c))
      BY <1>1, <1>3, <3>1, <3>2, SnapshotIsWhole
    <3> QED BY <2>1, <2>4, <3>2, <3>3, <3>4 DEF Flows
  <2>5. CASE d = c /\ done.reply = Ok /\ UNCHANGED history /\ attached' \subseteq attached
    <3>1. Lane(c)' = Lane(c)
      BY <1>3, <1>4, <1>8, <2>5, LaneKept DEF Lane, Answer
    <3> QED BY <1>1, <2>1, <2>2, <2>5, <3>1, FlowKept DEF history, Flows
  <2> QED BY <1>2, <2>3, <2>4, <2>5
<1>11. Announced'
  <2> SUFFICES ASSUME NEW d \in registered, missing'[d], ~deaf'[d]
               PROVE  \/ d \in overflowed'
                      \/ \E i \in DOMAIN Sent(d)' : Sent(d)'[i].kind = "overflow"
                      \/ resyncs'[d]
                      \/ request'[d] = "resync"
    BY <1>1 DEF Announced
  <2>1. d \in Clients
    BY <1>3 DEF TypeOK
  <2>2. /\ missing[d] /\ ~deaf[d]
        /\ request'[d] = "resync" \/ request[d] # "resync"
    <3>1. CASE d # c
      BY <1>4, <1>5, <2>1, <3>1
    <3>2. CASE d = c
      BY <1>2, <1>3, <3>2 DEF Snap, history, TypeOK
    <3> QED BY <3>1, <3>2
  <2> QED BY <1>1, <1>3, <1>8, <2>1, <2>2 DEF Announced, loop, client
<1> QED BY <1>6, <1>7, <1>9, <1>10, <1>11 DEF OutputInv, OneAnswer, StreamsFlow

\* The modes that an attach reset are broadcast to the clients that were attached before
\* (server.rs:1183-1222).
LEMMA BroadcastHealKeeps ==
  ASSUME OutputInv, NEW c \in Clients, BroadcastHeal(c)
  PROVE  OutputInv'
<1> DEFINE cs == serving[c].others \cap registered
           behind == {d \in cs : Full(d)}
           x == Delta(Cleanup)
<1>1. /\ UNCHANGED <<loop, pane, attached, wire, request, client, heals>>
      /\ serving[c].step = "heal"
      /\ push' = [d \in Clients |-> IF d \in cs /\ ~Full(d) THEN Append(push[d], x) ELSE push[d]]
      /\ HandleOverflowOf(behind) \/ (registered' = registered \ behind /\ UNCHANGED resp)
      /\ missing' = [d \in Clients |-> missing[d] \/ d \in behind]
      /\ deaf' = [d \in Clients |-> deaf[d] /\ d \notin behind]
      /\ marred' = [d \in Clients |-> marred[d] \/ d \in behind]
      /\ serving' = [serving EXCEPT ![c] = [step |-> "reply", reply |-> serving[c].reply, others |-> {}]]
  BY DEF BroadcastHeal, PushTo
<1>2. /\ TypeOK /\ LoopKeepsScreen /\ OneAnswer /\ StreamsFlow /\ Announced
      /\ behind \subseteq Clients
  BY DEF OutputInv, TypeOK
<1>3. /\ x \in Message /\ x.kind = "delta" /\ Len(x.fed) = 1 /\ Batch(x) = Cleanup
  BY Bounds DEF Message, Delta, Fed, Batch, Cleanup
<1> HIDE DEF x
<1>4. /\ resp' \in [Clients -> Seq(Message)] /\ registered' \subseteq registered
      /\ \A d \in Clients : Len(resp'[d]) <= RespBound
      /\ \A d \in registered' :
           IF d \in behind THEN resp'[d] = Append(resp[d], Overflow) ELSE resp'[d] = resp[d]
      /\ \A d \in Clients : resp'[d] = resp[d] \/ resp'[d] = Append(resp[d], Overflow)
  <2> HIDE DEF behind
  <2>1. CASE HandleOverflowOf(behind)
    BY <1>2, <2>1, OverflowIsTold
  <2>2. CASE registered' = registered \ behind /\ UNCHANGED resp
    BY <1>2, <2>2 DEF TypeOK
  <2> QED BY <1>1, <2>1, <2>2
<1>5. ASSUME NEW d \in Clients, d \in cs, ~Full(d)
      PROVE  push'[d] = Append(push[d], x) /\ push'[d] \in Seq(Message) /\ Len(push'[d]) <= PushBound
  <2>1. push[d] \in Seq(Message) /\ push'[d] = Append(push[d], x) /\ Len(push[d]) \in Nat
    BY <1>1, <1>2, <1>5, LaneTypes, LenProperties
  <2>2. Len(push[d]) < PushBound
    BY <1>5, <2>1, Bounds DEF Full
  <2> QED BY <1>3, <2>1, <2>2, Bounds, AppendProperties
<1>6. ASSUME NEW d \in Clients, ~(d \in cs /\ ~Full(d))
      PROVE  push'[d] = push[d]
  BY <1>1, <1>6
<1>7. /\ \A d \in Clients : serving'[d].reply = serving[d].reply
      /\ \A d \in Clients \ {c} : serving'[d] = serving[d]
      /\ serving'[c].step = "reply" /\ serving' \in [Clients -> Serving]
  <2>1. serving \in [Clients -> Serving] /\ serving[c].reply \in Message
    BY <1>2, LaneTypes DEF TypeOK
  <2>2. PICK done : done = [step |-> "reply", reply |-> serving[c].reply, others |-> {}]
    OBVIOUS
  <2>3. done \in Serving /\ done.step = "reply" /\ done.reply = serving[c].reply
    BY <2>1, <2>2 DEF Serving
  <2>4. serving' = [serving EXCEPT ![c] = done]
    BY <1>1, <2>2
  <2> QED BY <2>1, <2>3, <2>4
<1>8. TypeOK'
  <2>1. ASSUME NEW d \in Clients
        PROVE  push'[d] \in Seq(Message) /\ Len(push'[d]) <= PushBound
    BY <1>2, <1>5, <1>6 DEF TypeOK
  <2>2. push' \in [Clients -> Seq(Message)]
    BY <1>1, <2>1
  <2>3. {resyncs, missing, deaf, marred}' \subseteq [Clients -> BOOLEAN]
    <3>1. /\ \A d \in Clients : (missing[d] \/ d \in behind) \in BOOLEAN
          /\ \A d \in Clients : (deaf[d] /\ d \notin behind) \in BOOLEAN
          /\ \A d \in Clients : (marred[d] \/ d \in behind) \in BOOLEAN
      OBVIOUS
    <3>2. /\ missing' \in [Clients -> BOOLEAN] /\ deaf' \in [Clients -> BOOLEAN]
          /\ marred' \in [Clients -> BOOLEAN]
      BY <1>1, <3>1
    <3> QED BY <1>1, <1>2, <3>2 DEF TypeOK, client
  <2>4. {push, resp, wire}' \subseteq [Clients -> Seq(Message)]
    BY <1>1, <1>2, <1>4, <2>2 DEF TypeOK
  <2>5. registered' \subseteq Clients /\ attached' \subseteq Clients
    BY <1>1, <1>2, <1>4 DEF TypeOK
  <2>6. \A d \in Clients : /\ Len(push'[d]) <= PushBound /\ Len(resp'[d]) <= RespBound
                           /\ Len(wire'[d]) <= WireBound
    BY <1>1, <1>2, <1>4, <2>1 DEF TypeOK
  <2>7. {request, awaiting}' \subseteq [Clients -> Requests \cup {None}]
    BY <1>1, <1>2 DEF TypeOK, client
  <2>8. /\ targets' \subseteq Clients /\ senders' \subseteq Clients /\ overflowed' \subseteq senders'
        /\ seq' \in 0..MaxOutput /\ screen' \in Fed /\ taken' \in Fed /\ pc' \in Phases
        /\ view' \in [Clients -> Fed] /\ requests' \in 0..MaxRequests /\ heals' \in 0..MaxHeals
    BY <1>1, <1>2 DEF TypeOK, client, loop, pane
  <2> QED BY <1>7, <2>3, <2>4, <2>5, <2>6, <2>7, <2>8 DEF TypeOK
<1>9. LoopKeepsScreen'
  BY <1>1, <1>2, <1>4 DEF LoopKeepsScreen, loop, pane
<1>10. Overflow \in Message
  BY DEF Overflow, Message, Fed
<1>11. ASSUME NEW d \in Clients, resp'[d] = Append(resp[d], Overflow)
       PROVE  Sent(d)' = Append(Sent(d), Overflow)
  <2> DEFINE s == wire[d]
             t == resp[d]
  <2>1. s \in Seq(Message) /\ t \in Seq(Message)
    BY <1>2, LaneTypes
  <2> HIDE DEF s, t
  <2>2. s \o Append(t, Overflow) = Append(s \o t, Overflow)
    BY <1>10, <2>1, AppendRight
  <2> QED BY <1>1, <1>11, <2>2 DEF Sent, s, t
<1>12. ASSUME NEW d \in Clients, resp'[d] = resp[d]
       PROVE  Sent(d)' = Sent(d)
  BY <1>1, <1>12, LaneKept
<1>13. ASSUME NEW d \in Clients PROVE AnswersOnce(d)'
  <2>1. AnswersOnce(d)
    BY <1>2 DEF OneAnswer
  <2>2. \A i \in DOMAIN push'[d] : push'[d][i].kind = "delta" /\ OneBatch(push'[d][i])
    <3>1. CASE d \in cs /\ ~Full(d)
      <4>1. /\ DOMAIN push[d] = 1..Len(push[d]) /\ DOMAIN push'[d] = 1..(Len(push[d]) + 1)
            /\ \A i \in 1..Len(push[d]) : push'[d][i] = push[d][i]
            /\ push'[d][Len(push[d]) + 1] = x /\ Len(push[d]) \in Nat
        BY <1>2, <1>3, <1>5, <3>1, LaneTypes, AppendProperties, LenProperties
      <4> QED BY <1>3, <2>1, <4>1 DEF AnswersOnce, OneBatch
    <3>2. CASE ~(d \in cs /\ ~Full(d))
      BY <1>6, <2>1, <3>2 DEF AnswersOnce
    <3> QED BY <3>1, <3>2
  <2>3. /\ serving'[d].reply = serving[d].reply
        /\ serving[d].step # None <=> serving'[d].step # None
        /\ serving'[d].step = None => serving'[d] = serving[d]
        /\ awaiting'[d] = awaiting[d] /\ request'[d] = request[d]
    BY <1>1, <1>7 DEF client, None
  <2> DEFINE t == Sent(d)'
  <2>4. /\ \A i \in DOMAIN t : OneBatch(t[i])
        /\ \A i \in DOMAIN t : IsAnswer(t[i]) => i \in DOMAIN Sent(d) /\ t[i] = Sent(d)[i]
    <3>1. CASE resp'[d] = resp[d]
      BY <1>12, <2>1, <3>1 DEF AnswersOnce
    <3>2. CASE resp'[d] = Append(resp[d], Overflow)
      <4>1. /\ DOMAIN Sent(d) = 1..Len(Sent(d)) /\ DOMAIN t = 1..(Len(Sent(d)) + 1)
            /\ \A i \in 1..Len(Sent(d)) : t[i] = Sent(d)[i]
            /\ t[Len(Sent(d)) + 1] = Overflow /\ Len(Sent(d)) \in Nat
        <5> DEFINE old == Sent(d)
        <5>1. old \in Seq(Message) /\ t = Append(old, Overflow)
          BY <1>2, <1>11, <3>2, LaneTypes
        <5> HIDE DEF old, t
        <5>2. /\ DOMAIN old = 1..Len(old) /\ DOMAIN t = 1..(Len(old) + 1)
              /\ \A i \in 1..Len(old) : t[i] = old[i]
              /\ t[Len(old) + 1] = Overflow /\ Len(old) \in Nat
          BY <1>10, <5>1, AppendProperties, LenProperties
        <5> QED BY <5>2 DEF old
      <4>2. ~IsAnswer(Overflow) /\ OneBatch(Overflow)
        BY DEF IsAnswer, OneBatch, Overflow
      <4> HIDE DEF t
      <4> QED BY <2>1, <4>1, <4>2 DEF AnswersOnce
    <3> QED BY <1>4, <3>1, <3>2
  <2> HIDE DEF t
  <2>5. \A i \in DOMAIN t : IsAnswer(t[i]) =>
          /\ awaiting[d] # None /\ request[d] = None /\ serving[d].step = None
          /\ \A j \in DOMAIN t : IsAnswer(t[j]) => i = j
    BY <2>1, <2>4 DEF AnswersOnce
  <2>6. IsAnswer(serving'[d].reply) /\ (serving'[d].step = None => serving'[d] = Unserved)
    BY <2>1, <2>3 DEF AnswersOnce
  <2>7. /\ request'[d] # None => awaiting'[d] = request'[d] /\ serving'[d].step = None
        /\ serving'[d].step # None => awaiting'[d] # None
    BY <2>1, <2>3 DEF AnswersOnce
  <2> QED BY <2>2, <2>3, <2>4, <2>5, <2>6, <2>7 DEF AnswersOnce, t
<1>14. ASSUME NEW d \in Clients PROVE Flows(d)'
  <2>1. /\ LastSent(d)' = LastSent(d) /\ view'[d] = view[d] /\ Answer(d)' = Answer(d)
        /\ pc' = pc /\ targets' = targets /\ attached' = attached
    BY <1>1, <1>7 DEF LastSent, loop, pane, client, Answer
  <2>2. SUFFICES ASSUME d \in attached, d \in registered', ~marred[d], d \notin behind
                 PROVE  Flows(d)'
    BY <1>1, <1>4, <2>1 DEF Flows
  <2>3. /\ Whole(view[d], Lane(d), LastSent(d))
        /\ pc \in {"collect", "parse"} => d \in targets
    BY <1>2, <1>4, <2>2 DEF StreamsFlow, Flows
  <2>4. Sent(d)' = Sent(d)
    BY <1>4, <1>12, <2>2
  <2>5. Whole(view[d], Lane(d)', LastSent(d))
    <3>1. CASE d \in cs /\ ~Full(d)
      <4> DEFINE front == Sent(d) \o Answer(d)
                 lane == Lane(d)
                 n == LastSent(d)
      <4>1. /\ front \in Seq(Message) /\ push[d] \in Seq(Message) /\ lane = front \o push[d]
            /\ lane \in Seq(Message) /\ n \in Nat
        BY <1>2, LaneTypes, LastSentIsNumber DEF Lane
      <4>2. Lane(d)' = front \o Append(push[d], x)
        BY <1>5, <2>1, <2>4, <3>1 DEF Lane
      <4>3. <<>> \in Seq(Message) /\ x.kind # "snapshot" /\ Whole(view[d], lane, n)
        BY <1>3, <2>3
      <4> HIDE DEF front, lane, n
      <4>4. Lane(d)' = Append(lane, x)
        BY <1>3, <4>1, <4>2, AppendRight
      <4>5. lane \o <<>> = lane /\ Append(lane, x) \o <<>> = Append(lane, x)
        BY <1>3, <4>1, AppendProperties, ConcatEmptySeq
      <4>6. Whole(view[d], Append(lane, x) \o <<>>, n)
        BY <1>3, <4>1, <4>3, <4>5, WholeInserts
      <4> QED BY <4>4, <4>5, <4>6 DEF n
    <3>2. CASE ~(d \in cs /\ ~Full(d))
      BY <1>6, <2>1, <2>3, <2>4, <3>2 DEF Lane
    <3> QED BY <3>1, <3>2
  <2> QED BY <2>1, <2>3, <2>5 DEF Flows
<1>15. Announced'
  <2> SUFFICES ASSUME NEW d \in registered', missing'[d], ~deaf'[d]
               PROVE  \/ d \in overflowed
                      \/ \E i \in DOMAIN Sent(d)' : Sent(d)'[i].kind = "overflow"
                      \/ resyncs[d]
                      \/ request[d] = "resync"
    BY <1>1 DEF Announced, loop, client
  <2>1. d \in Clients /\ d \in registered
    BY <1>2, <1>4 DEF TypeOK
  <2>2. CASE d \in behind
    <3>1. Sent(d)' = Append(Sent(d), Overflow) /\ Sent(d) \in Seq(Message)
      BY <1>2, <1>4, <1>11, <2>1, <2>2, LaneTypes
    <3>2. /\ DOMAIN Sent(d)' = 1..(Len(Sent(d)) + 1) /\ Len(Sent(d)) \in Nat
          /\ Sent(d)'[Len(Sent(d)) + 1] = Overflow
      BY <1>10, <3>1, AppendProperties, LenProperties
    <3> QED BY <3>2 DEF Overflow
  <2>3. CASE d \notin behind
    <3>1. Sent(d)' = Sent(d) /\ missing[d] /\ ~deaf[d]
      BY <1>1, <1>4, <1>12, <2>1, <2>3
    <3> QED BY <1>2, <2>1, <3>1 DEF Announced
  <2> QED BY <2>2, <2>3
<1> QED BY <1>8, <1>9, <1>13, <1>14, <1>15 DEF OutputInv, OneAnswer, StreamsFlow

\* The answer is put into the response channel: the client waits, and has no other on its way
\* (v3_client_reader, server.rs:3045-3062).
LEMMA RespondKeeps ==
  ASSUME OutputInv, NEW c \in Clients, Respond(c)
  PROVE  OutputInv'
<1> DEFINE x == serving[c].reply
<1>1. /\ UNCHANGED <<loop, pane, members, push, wire, request, client, heals, history>>
      /\ serving[c].step = "reply" /\ Len(resp[c]) < RespBound
      /\ resp' = [resp EXCEPT ![c] = Append(resp[c], x)]
      /\ serving' = [serving EXCEPT ![c] = Unserved]
  BY DEF Respond
<1>2. TypeOK /\ LoopKeepsScreen /\ OneAnswer /\ StreamsFlow /\ Announced /\ AnswersOnce(c)
  BY DEF OutputInv, OneAnswer
<1>3. x \in Message /\ IsAnswer(x)
  BY <1>2, LaneTypes DEF AnswersOnce
<1>4. resp' \in [Clients -> Seq(Message)] /\ \A d \in Clients : Len(resp'[d]) <= RespBound
  <2>1. resp[c] \in Seq(Message) /\ Len(resp[c]) \in Nat
    BY <1>2, LaneTypes, LenProperties
  <2> DEFINE more == Append(resp[c], x)
  <2>2. more \in Seq(Message) /\ Len(more) = Len(resp[c]) + 1
    BY <1>3, <2>1, AppendProperties
  <2>3. resp' = [resp EXCEPT ![c] = more] /\ Len(more) <= RespBound
    BY <1>1, <2>1, <2>2, Bounds
  <2> HIDE DEF more
  <2> QED BY <1>2, <2>2, <2>3 DEF TypeOK
<1>5. /\ serving' \in [Clients -> Serving] /\ serving'[c] = Unserved
      /\ \A d \in Clients \ {c} : serving'[d] = serving[d] /\ resp'[d] = resp[d]
  <2>1. Unserved \in Serving
    BY EmptySeq DEF Unserved, Serving, Ok, Message, Fed
  <2> QED BY <1>1, <1>2, <2>1 DEF TypeOK
<1>6. TypeOK'
  BY <1>1, <1>2, <1>4, <1>5 DEF TypeOK, loop, pane, members, client, history
<1>7. LoopKeepsScreen'
  BY <1>1, <1>2 DEF LoopKeepsScreen, loop, pane, members
<1> DEFINE s == Sent(c)
           t == Append(s, x)
<1>8. Sent(c)' = t
  <2> DEFINE u == wire[c]
             v == resp[c]
  <2>1. u \in Seq(Message) /\ v \in Seq(Message) /\ resp'[c] = Append(v, x)
    BY <1>1, <1>2, LaneTypes DEF TypeOK
  <2>2. Sent(c)' = u \o Append(v, x) /\ s = u \o v
    BY <1>1, <2>1 DEF Sent
  <2> HIDE DEF u, v, x
  <2> QED BY <1>3, <2>1, <2>2, AppendRight
<1>9. ASSUME NEW d \in Clients \ {c} PROVE Sent(d)' = Sent(d) /\ Lane(d)' = Lane(d)
  BY <1>1, <1>5, LaneKept
<1>10. /\ s \in Seq(Message) /\ DOMAIN s = 1..Len(s) /\ DOMAIN t = 1..(Len(s) + 1) /\ Len(s) \in Nat
       /\ \A i \in 1..Len(s) : t[i] = s[i]
       /\ t[Len(s) + 1] = x
  BY <1>2, <1>3, LaneTypes, AppendProperties, LenProperties
<1>11. ASSUME NEW d \in Clients PROVE AnswersOnce(d)'
  <2>1. CASE d # c
    BY <1>1, <1>2, <1>5, <1>9, <2>1, AnswersKept DEF OneAnswer, client
  <2>2. CASE d = c
    <3>1. /\ awaiting[c] # None /\ request[c] = None /\ OneBatch(x)
          /\ \A i \in DOMAIN s : ~IsAnswer(s[i]) /\ OneBatch(s[i])
      BY <1>1, <1>2, <1>3 DEF AnswersOnce, None, IsAnswer, OneBatch
    <3> HIDE DEF s, t, x
    <3>2. /\ \A i \in DOMAIN t : OneBatch(t[i])
          /\ \A i, j \in DOMAIN t : IsAnswer(t[i]) /\ IsAnswer(t[j]) => i = j
      BY <1>10, <3>1
    <3>3. IsAnswer(Unserved.reply) /\ Unserved.step = None
      BY DEF IsAnswer, Unserved, Ok
    <3> QED BY <1>1, <1>2, <1>5, <1>8, <2>2, <3>1, <3>2, <3>3 DEF AnswersOnce, client
  <2> QED BY <2>1, <2>2
<1>12. ASSUME NEW d \in Clients PROVE Flows(d)'
  <2>1. /\ Flows(d) /\ LastSent(d)' = LastSent(d) /\ view'[d] = view[d] /\ pc' = pc
        /\ targets' = targets /\ attached' = attached /\ registered' = registered
        /\ marred'[d] = marred[d]
    BY <1>1, <1>2 DEF StreamsFlow, LastSent, loop, pane, members, client, history
  <2>2. CASE d # c
    BY <1>9, <2>1, <2>2, FlowKept DEF Flows
  <2>3. CASE d = c
    <3>1. SUFFICES ASSUME c \in attached, c \in registered, ~marred[c]
                   PROVE  Whole(view[c], Lane(c)', LastSent(c))
      BY <2>1, <2>3 DEF Flows
    <3>2. Answer(c)' = <<>> /\ push'[c] = push[c]
      BY <1>1, <1>5 DEF Answer, Unserved, Ok
    <3>3. Lane(c)' = (t \o <<>>) \o push[c] /\ t \in Seq(Message)
      BY <1>3, <1>8, <1>10, <3>2, AppendProperties DEF Lane
    <3>4. CASE x.kind = "snapshot"
      <4>1. Lane(c) = (s \o <<x>>) \o push[c]
        BY <3>4 DEF Lane, Answer
      <4>2. t = s \o <<x>>
        <5> HIDE DEF s, x
        <5> QED BY <1>3, <1>10, AppendIsConcat
      <4>3. t \o <<>> = t
        <5> HIDE DEF t
        <5> QED BY <3>3, ConcatEmptySeq
      <4> QED BY <2>1, <2>3, <3>1, <3>3, <4>1, <4>2, <4>3 DEF Flows
    <3>5. CASE x.kind = "ok"
      <4>1. Answer(c) = <<>>
        BY <3>5 DEF Answer
      <4>2. Whole(view[c], (Append(Sent(c), x) \o Answer(c)) \o push[c], LastSent(c))
        <5> HIDE DEF x
        <5> QED BY <1>2, <1>3, <2>1, <2>3, <3>1, <3>5, WholeNotices
      <4> QED BY <3>3, <4>1, <4>2
    <3> QED BY <1>3, <3>4, <3>5 DEF IsAnswer
  <2> QED BY <2>2, <2>3
<1>13. Announced'
  <2> SUFFICES ASSUME NEW d \in registered, missing[d], ~deaf[d]
               PROVE  \/ d \in overflowed
                      \/ \E i \in DOMAIN Sent(d)' : Sent(d)'[i].kind = "overflow"
                      \/ resyncs[d]
                      \/ request[d] = "resync"
    BY <1>1 DEF Announced, loop, members, client, history
  <2>1. d \in Clients
    BY <1>2 DEF TypeOK
  <2>2. \A i \in DOMAIN Sent(d) : i \in DOMAIN Sent(d)' /\ Sent(d)'[i] = Sent(d)[i]
    BY <1>8, <1>9, <1>10, <2>1
  <2> QED BY <1>2, <2>1, <2>2 DEF Announced
<1> QED BY <1>6, <1>7, <1>11, <1>12, <1>13 DEF OutputInv, OneAnswer, StreamsFlow

-----------------------------------------------------------------------------
(* The writer and the client.                                               *)

\* A message is written to the socket: a response first, else a push, which must not overtake a
\* snapshot that is in the reader's hands (client_writer, server.rs:3068-3127).
LEMMA WriteKeeps ==
  ASSUME OutputInv, NEW c \in Clients, Write(c)
  PROVE  OutputInv'
<1>1. /\ UNCHANGED <<loop, pane, members, server, client, heals, missing, deaf>>
      /\ Len(wire[c]) < WireBound
      /\ \A d \in Clients \ {c} : marred[d] = marred'[d]
  BY DEF Write, history, OutputInv, TypeOK
<1>2. /\ TypeOK /\ LoopKeepsScreen /\ OneAnswer /\ StreamsFlow /\ Announced /\ AnswersOnce(c)
      /\ wire \in [Clients -> Seq(Message)] /\ resp \in [Clients -> Seq(Message)]
      /\ push \in [Clients -> Seq(Message)] /\ marred \in [Clients -> BOOLEAN]
      /\ Len(push[c]) <= PushBound /\ Len(resp[c]) <= RespBound
  BY DEF OutputInv, OneAnswer, TypeOK
<1> DEFINE u == wire[c]
           v == resp[c]
           w == push[c]
<1>3. u \in Seq(Message) /\ v \in Seq(Message) /\ w \in Seq(Message) /\ Len(u) \in Nat
  BY <1>2, LaneTypes, LenProperties
<1> HIDE DEF u, v, w
<1>4. ASSUME NEW q \in Seq(Message), q # <<>>
      PROVE  /\ Head(q) \in Message /\ Tail(q) \in Seq(Message) /\ Append(u, Head(q)) \in Seq(Message)
             /\ Len(Tail(q)) = Len(q) - 1 /\ Len(Append(u, Head(q))) = Len(u) + 1
             /\ Append(u, Head(q)) \o Tail(q) = u \o q
             /\ Len(Append(u, Head(q))) <= WireBound /\ Len(q) \in Nat
  <2>1. Head(q) \in Message /\ Tail(q) \in Seq(Message) /\ Len(Tail(q)) = Len(q) - 1 /\ Len(q) \in Nat
    BY <1>4, HeadTailProperties, LenProperties
  <2> DEFINE more == Append(u, Head(q))
  <2>2. more \in Seq(Message) /\ Len(more) = Len(u) + 1
    BY <1>3, <2>1, AppendProperties
  <2>3. more \o Tail(q) = u \o q
    BY <1>3, <1>4, MoveHead
  <2>4. Len(more) <= WireBound
    <3> HIDE DEF more
    <3> QED BY <1>1, <1>3, <2>2, Bounds DEF u
  <2> QED BY <2>1, <2>2, <2>3, <2>4
<1>5. CASE /\ v # <<>> /\ UNCHANGED <<push, history>>
           /\ wire' = [wire EXCEPT ![c] = Append(u, Head(v))]
           /\ resp' = [resp EXCEPT ![c] = Tail(v)]
  <2>1. /\ Append(u, Head(v)) \in Seq(Message) /\ Tail(v) \in Seq(Message)
        /\ Append(u, Head(v)) \o Tail(v) = u \o v
        /\ Len(Append(u, Head(v))) <= WireBound
        /\ Len(Tail(v)) = Len(v) - 1 /\ Len(v) \in Nat
    BY <1>3, <1>4, <1>5
  <2> DEFINE more == Append(u, Head(v))
             rest == Tail(v)
  <2>2. Len(rest) <= RespBound
    BY <1>2, <2>1, Bounds DEF v
  <2>3. /\ wire' = [wire EXCEPT ![c] = more] /\ resp' = [resp EXCEPT ![c] = rest]
        /\ more \in Seq(Message) /\ rest \in Seq(Message) /\ more \o rest = u \o v
        /\ Len(more) <= WireBound /\ Len(rest) <= RespBound
    BY <1>5, <2>1, <2>2
  <2> HIDE DEF more, rest
  <2>4. /\ wire' \in [Clients -> Seq(Message)] /\ resp' \in [Clients -> Seq(Message)]
        /\ wire'[c] = more /\ resp'[c] = rest
        /\ \A d \in Clients \ {c} : wire'[d] = wire[d] /\ resp'[d] = resp[d]
    BY <1>2, <2>3
  <2>5. TypeOK'
    <3>1. \A d \in Clients : Len(push'[d]) <= PushBound /\ Len(resp'[d]) <= RespBound /\ Len(wire'[d]) <= WireBound
      BY <1>2, <1>5, <2>3, <2>4 DEF TypeOK
    <3> QED BY <1>1, <1>2, <1>5, <2>4, <3>1 DEF TypeOK, loop, pane, members, server, client, history
  <2>6. ASSUME NEW d \in Clients PROVE Sent(d)' = Sent(d) /\ Lane(d)' = Lane(d)
    <3>1. Sent(d)' = Sent(d)
      <4>1. CASE d = c
        BY <2>3, <2>4, <4>1 DEF Sent, u, v
      <4>2. CASE d # c
        BY <2>4, <4>2, LaneKept
      <4> QED BY <4>1, <4>2
    <3> QED BY <1>1, <1>5, <3>1 DEF Lane, Answer, server
  <2>7. LoopKeepsScreen'
    BY <1>1, <1>2 DEF LoopKeepsScreen, loop, pane, members
  <2>8. OneAnswer'
    BY <1>1, <1>2, <1>5, <2>6, AnswersKept DEF OneAnswer, server, client
  <2>9. ASSUME NEW d \in Clients PROVE Flows(d)'
    BY <1>1, <1>2, <1>5, <2>6, FlowKept
       DEF StreamsFlow, Flows, LastSent, loop, pane, members, client, history
  <2>10. Announced'
    BY <1>1, <1>2, <1>5, <2>6 DEF TypeOK, Announced, loop, members, server, client, history
  <2> QED BY <2>5, <2>7, <2>8, <2>9, <2>10 DEF OutputInv, StreamsFlow
<1>6. CASE /\ v = <<>> /\ w # <<>> /\ UNCHANGED resp
           /\ wire' = [wire EXCEPT ![c] = Append(u, Head(w))]
           /\ push' = [push EXCEPT ![c] = Tail(w)]
           /\ marred' = [marred EXCEPT ![c] = marred[c] \/ serving[c].reply.kind = "snapshot"]
  <2>1. /\ Append(u, Head(w)) \in Seq(Message) /\ Tail(w) \in Seq(Message)
        /\ Append(u, Head(w)) \o Tail(w) = u \o w
        /\ Len(Append(u, Head(w))) <= WireBound /\ Head(w) \in Message
        /\ Len(Tail(w)) = Len(w) - 1 /\ Len(w) \in Nat \ {0} /\ DOMAIN w = 1..Len(w) /\ Head(w) = w[1]
        /\ \A i \in 1..Len(Tail(w)) : Tail(w)[i] = w[i + 1]
    BY <1>3, <1>4, <1>6, HeadTailProperties, LenProperties, EmptySeq
  <2> DEFINE x == Head(w)
             more == Append(u, x)
             rest == Tail(w)
  <2>2. Len(rest) <= PushBound
    BY <1>2, <2>1, Bounds DEF w
  <2>3. /\ wire' = [wire EXCEPT ![c] = more] /\ push' = [push EXCEPT ![c] = rest]
        /\ more \in Seq(Message) /\ rest \in Seq(Message) /\ more \o rest = u \o w
        /\ Len(more) <= WireBound /\ Len(rest) <= PushBound /\ x \in Message /\ x = w[1]
        /\ DOMAIN rest = 1..(Len(w) - 1) /\ \A i \in 1..(Len(w) - 1) : rest[i] = w[i + 1]
        /\ DOMAIN u = 1..Len(u) /\ DOMAIN more = 1..(Len(u) + 1) /\ more[Len(u) + 1] = x
        /\ \A i \in 1..Len(u) : more[i] = u[i]
    BY <1>3, <1>6, <2>1, <2>2, AppendProperties, LenProperties
  <2> HIDE DEF more, rest, x
  <2>4. /\ wire' \in [Clients -> Seq(Message)] /\ push' \in [Clients -> Seq(Message)]
        /\ wire'[c] = more /\ push'[c] = rest
        /\ \A d \in Clients \ {c} : wire'[d] = wire[d] /\ push'[d] = push[d]
    BY <1>2, <2>3
  <2>5. marred' \in [Clients -> BOOLEAN]
    <3>1. (marred[c] \/ serving[c].reply.kind = "snapshot") \in BOOLEAN
      OBVIOUS
    <3> QED BY <1>2, <1>6, <3>1
  <2>6. TypeOK'
    <3>1. \A d \in Clients : Len(push'[d]) <= PushBound /\ Len(resp'[d]) <= RespBound /\ Len(wire'[d]) <= WireBound
      BY <1>2, <1>6, <2>3, <2>4 DEF TypeOK
    <3>2. {resyncs, missing, deaf, marred}' \subseteq [Clients -> BOOLEAN]
      BY <1>1, <1>2, <2>5 DEF TypeOK, client
    <3>3. {push, resp, wire}' \subseteq [Clients -> Seq(Message)]
      BY <1>2, <1>6, <2>4
    <3> QED BY <1>1, <1>2, <3>1, <3>2, <3>3 DEF TypeOK, loop, pane, members, server, client
  <2>7. LoopKeepsScreen'
    BY <1>1, <1>2 DEF LoopKeepsScreen, loop, pane, members
  <2>8. ASSUME NEW d \in Clients \ {c}
        PROVE  Sent(d)' = Sent(d) /\ Lane(d)' = Lane(d) /\ push'[d] = push[d]
    BY <1>1, <1>6, <2>4, LaneKept DEF server
  <2>9. Sent(c) = u /\ Sent(c)' = more
    <3>1. u \o <<>> = u /\ more \o <<>> = more
      BY <1>3, <2>3, ConcatEmptySeq
    <3> QED BY <1>6, <2>4, <3>1 DEF Sent, u, v
  <2>10. ASSUME NEW d \in Clients PROVE AnswersOnce(d)'
    <3>1. CASE d # c
      BY <1>1, <1>2, <2>8, <3>1, AnswersKept DEF OneAnswer, server, client
    <3>2. CASE d = c
      <4>1. /\ \A i \in DOMAIN w : w[i].kind = "delta" /\ OneBatch(w[i])
            /\ \A i \in DOMAIN u : OneBatch(u[i])
            /\ \A i \in DOMAIN u : IsAnswer(u[i]) =>
                 /\ awaiting[c] # None /\ request[c] = None /\ serving[c].step = None
                 /\ \A j \in DOMAIN u : IsAnswer(u[j]) => i = j
        BY <1>2, <2>9 DEF AnswersOnce, w
      <4>2. OneBatch(x) /\ ~IsAnswer(x)
        <5>1. 1 \in DOMAIN w /\ x = w[1]
          BY <2>1, <2>3
        <5>2. OneBatch(x) /\ x.kind = "delta"
          BY <4>1, <5>1
        <5> QED BY <5>2 DEF IsAnswer
      <4>3. ASSUME NEW i \in DOMAIN rest PROVE rest[i].kind = "delta" /\ OneBatch(rest[i])
        <5>1. i + 1 \in DOMAIN w /\ rest[i] = w[i + 1]
          BY <2>1, <2>3
        <5> QED BY <4>1, <5>1
      <4>4. ASSUME NEW i \in DOMAIN more
            PROVE  OneBatch(more[i]) /\ (IsAnswer(more[i]) => i \in DOMAIN u /\ more[i] = u[i])
        <5>1. (i \in DOMAIN u /\ more[i] = u[i]) \/ more[i] = x
          BY <1>3, <2>3
        <5> QED BY <4>1, <4>2, <5>1
      <4>5. \A i \in DOMAIN more : IsAnswer(more[i]) =>
              /\ awaiting[c] # None /\ request[c] = None /\ serving[c].step = None
              /\ \A j \in DOMAIN more : IsAnswer(more[j]) => i = j
        BY <4>1, <4>4
      <4> QED BY <1>1, <1>2, <2>4, <2>9, <3>2, <4>3, <4>4, <4>5 DEF AnswersOnce, server, client
    <3> QED BY <3>1, <3>2
  <2>11. ASSUME NEW d \in Clients PROVE Flows(d)'
    <3>1. /\ Flows(d) /\ LastSent(d)' = LastSent(d) /\ view'[d] = view[d] /\ pc' = pc
          /\ targets' = targets /\ attached' = attached /\ registered' = registered
      BY <1>1, <1>2 DEF StreamsFlow, LastSent, loop, pane, members, client
    <3>2. CASE d # c
      BY <1>1, <2>8, <3>1, <3>2, FlowKept DEF Flows
    <3>3. CASE d = c
      <4>1. SUFFICES ASSUME serving[c].reply.kind # "snapshot", ~marred[c]
                     PROVE  Flows(c)'
        BY <1>2, <1>6, <3>1, <3>3 DEF Flows
      <4>2. Answer(c) = <<>> /\ Answer(c)' = <<>>
        BY <1>1, <4>1 DEF Answer, server
      <4>3. Lane(c) = (u \o <<>>) \o w /\ Lane(c)' = (more \o <<>>) \o rest
        BY <2>4, <2>9, <4>2 DEF Lane, w
      <4>4. u \o <<>> = u /\ more \o <<>> = more
        BY <1>3, <2>3, ConcatEmptySeq
      <4>5. Lane(c)' = Lane(c)
        BY <2>3, <4>3, <4>4
      <4> QED BY <3>1, <3>3, <4>1, <4>5, FlowKept DEF Flows
    <3> QED BY <3>2, <3>3
  <2>12. Announced'
    <3> SUFFICES ASSUME NEW d \in registered, missing[d], ~deaf[d]
                 PROVE  \/ d \in overflowed
                        \/ \E i \in DOMAIN Sent(d)' : Sent(d)'[i].kind = "overflow"
                        \/ resyncs[d]
                        \/ request[d] = "resync"
      BY <1>1 DEF Announced, loop, members, server, client
    <3>1. d \in Clients
      BY <1>2 DEF TypeOK
    <3>2. \A i \in DOMAIN u : i \in DOMAIN more /\ more[i] = u[i]
      BY <1>3, <2>3
    <3>3. \A i \in DOMAIN Sent(d) : i \in DOMAIN Sent(d)' /\ Sent(d)'[i] = Sent(d)[i]
      BY <2>8, <2>9, <3>1, <3>2
    <3> QED BY <1>2, <3>1, <3>3 DEF Announced
  <2> QED BY <2>6, <2>7, <2>10, <2>11, <2>12 DEF OutputInv, OneAnswer, StreamsFlow
<1> QED BY <1>5, <1>6 DEF Write, u, v, w, OutputInv

\* The client asks for something, one request at a time (daemon_bridge.rs:720-775, 1500-1530).
LEMMA AskKeeps ==
  ASSUME OutputInv, NEW c \in Clients, Ask(c) \/ AskResync(c)
  PROVE  OutputInv'
<1>1. /\ UNCHANGED <<loop, pane, members, lanes, serving, view, heals, history>>
      /\ awaiting[c] = None
      /\ \A d \in Clients : resyncs'[d] = resyncs[d] \/ request'[d] = "resync"
      /\ requests' \in 0..MaxRequests /\ resyncs' \in [Clients -> BOOLEAN]
      /\ \E r \in Requests : /\ request' = [request EXCEPT ![c] = r]
                             /\ awaiting' = [awaiting EXCEPT ![c] = r]
  <2>1. requests \in 0..MaxRequests /\ resyncs \in [Clients -> BOOLEAN]
        /\ request \in [Clients -> Requests \cup {None}]
    BY DEF OutputInv, TypeOK
  <2>2. CASE Ask(c)
    <3>1. /\ UNCHANGED <<loop, pane, members, lanes, serving, resyncs, view, heals, history>>
          /\ awaiting[c] = None /\ requests < MaxRequests /\ requests' = requests + 1
      BY <2>2 DEF Ask
    <3>2. PICK r \in IF c \in attached THEN {"detach", "other"} ELSE {"attach"} :
            /\ request' = [request EXCEPT ![c] = r] /\ awaiting' = [awaiting EXCEPT ![c] = r]
      BY <2>2 DEF Ask
    <3>3. r \in Requests
      BY DEF Requests
    <3>4. requests' \in 0..MaxRequests
      BY <2>1, <3>1, Bounds
    <3> QED BY <2>1, <3>1, <3>2, <3>3, <3>4
  <2>3. CASE AskResync(c)
    <3>1. /\ UNCHANGED <<loop, pane, members, lanes, serving, view, requests, heals, history>>
          /\ awaiting[c] = None /\ resyncs' = [resyncs EXCEPT ![c] = FALSE]
          /\ request' = [request EXCEPT ![c] = "resync"] /\ awaiting' = [awaiting EXCEPT ![c] = "resync"]
      BY <2>3 DEF AskResync
    <3>2. "resync" \in Requests
      BY DEF Requests
    <3> QED BY <2>1, <3>1, <3>2
  <2> QED BY <2>2, <2>3
<1>2. /\ TypeOK /\ LoopKeepsScreen /\ OneAnswer /\ StreamsFlow /\ Announced /\ AnswersOnce(c)
      /\ request \in [Clients -> Requests \cup {None}] /\ awaiting \in [Clients -> Requests \cup {None}]
  BY DEF OutputInv, OneAnswer, TypeOK
<1>3. PICK r \in Requests : /\ request' = [request EXCEPT ![c] = r]
                            /\ awaiting' = [awaiting EXCEPT ![c] = r]
  BY <1>1
<1>4. /\ request[c] = None /\ serving[c].step = None /\ r # None
      /\ \A i \in DOMAIN Sent(c) : ~IsAnswer(Sent(c)[i])
  BY <1>1, <1>2 DEF AnswersOnce, Requests, None
<1>5. TypeOK'
  BY <1>1, <1>2, <1>3 DEF TypeOK, loop, pane, members, lanes, history
<1>6. LoopKeepsScreen'
  BY <1>1, <1>2 DEF LoopKeepsScreen, loop, pane, members
<1>7. ASSUME NEW d \in Clients PROVE Sent(d)' = Sent(d) /\ Lane(d)' = Lane(d)
  BY <1>1, LaneKept DEF lanes
<1>8. ASSUME NEW d \in Clients PROVE AnswersOnce(d)'
  <2>1. CASE d # c
    BY <1>1, <1>2, <1>3, <1>7, <2>1, AnswersKept DEF OneAnswer, lanes
  <2>2. CASE d = c
    BY <1>1, <1>2, <1>3, <1>4, <1>7, <2>2 DEF AnswersOnce, lanes
  <2> QED BY <2>1, <2>2
<1>9. ASSUME NEW d \in Clients PROVE Flows(d)'
  BY <1>1, <1>2, <1>7, FlowKept
     DEF StreamsFlow, Flows, LastSent, loop, pane, members, history
<1>10. Announced'
  <2> SUFFICES ASSUME NEW d \in registered, missing[d], ~deaf[d]
               PROVE  \/ d \in overflowed
                      \/ \E i \in DOMAIN Sent(d)' : Sent(d)'[i].kind = "overflow"
                      \/ resyncs'[d]
                      \/ request'[d] = "resync"
    BY <1>1 DEF Announced, loop, members, history
  <2>1. d \in Clients
    BY <1>2 DEF TypeOK
  <2>2. request[d] = "resync" => request'[d] = "resync"
    BY <1>2, <1>3, <1>4, <2>1 DEF None
  <2> QED BY <1>1, <1>2, <1>7, <2>1, <2>2 DEF Announced
<1> QED BY <1>5, <1>6, <1>8, <1>9, <1>10 DEF OutputInv, OneAnswer, StreamsFlow

\* The client is fed the first message on its socket, and heeds or misses a StreamOverflow
\* (daemon_bridge.rs:760, 1903-1957).
LEMMA ReceiveKeeps ==
  ASSUME OutputInv, NEW c \in Clients, Receive(c)
  PROVE  OutputInv'
<1> DEFINE u == wire[c]
           x == Head(wire[c])
           rest == Tail(wire[c])
           heeded == x.kind = "overflow" /\ awaiting[c] = None /\ c \in attached
           shown == CASE x.kind = "delta"    -> view[c] \o x.fed
                      [] x.kind = "snapshot" -> x.fed
                      [] OTHER               -> view[c]
           waits == IF x.kind \in {"snapshot", "ok"} THEN None ELSE awaiting[c]
<1>1. /\ UNCHANGED <<loop, pane, members, push, resp, server, requests, heals, missing, marred>>
      /\ u # <<>>
      /\ view' = [view EXCEPT ![c] = shown]
      /\ awaiting' = [awaiting EXCEPT ![c] = waits]
      /\ resyncs' = [resyncs EXCEPT ![c] = resyncs[c] \/ heeded]
      /\ deaf' = [deaf EXCEPT ![c] = deaf[c] \/ (x.kind = "overflow" /\ ~heeded)]
      /\ wire' = [wire EXCEPT ![c] = rest]
  BY DEF Receive
<1>2. /\ TypeOK /\ LoopKeepsScreen /\ OneAnswer /\ StreamsFlow /\ Announced /\ AnswersOnce(c)
      /\ wire \in [Clients -> Seq(Message)] /\ view \in [Clients -> Fed]
      /\ awaiting \in [Clients -> Requests \cup {None}]
      /\ {resyncs, missing, deaf, marred} \subseteq [Clients -> BOOLEAN]
      /\ registered \subseteq Clients
  BY DEF OutputInv, OneAnswer, TypeOK
<1>3. /\ u \in Seq(Message) /\ x \in Message /\ x = u[1] /\ rest \in Seq(Message)
      /\ DOMAIN u = 1..Len(u) /\ DOMAIN rest = 1..(Len(u) - 1) /\ Len(u) \in Nat \ {0}
      /\ \A i \in 1..(Len(u) - 1) : rest[i] = u[i + 1]
      /\ Len(rest) = Len(u) - 1
  <2> DEFINE w == wire[c]
  <2>1. w \in Seq(Message) /\ w # <<>>
    BY <1>1, <1>2, LaneTypes
  <2> HIDE DEF w
  <2>2. /\ Head(w) \in Message /\ Head(w) = w[1] /\ Tail(w) \in Seq(Message)
        /\ DOMAIN w = 1..Len(w) /\ DOMAIN Tail(w) = 1..(Len(w) - 1) /\ Len(w) \in Nat \ {0}
        /\ \A i \in 1..(Len(w) - 1) : Tail(w)[i] = w[i + 1]
        /\ Len(Tail(w)) = Len(w) - 1
    BY <2>1, HeadTailProperties, LenProperties, EmptySeq
  <2> QED BY <2>1, <2>2 DEF w
<1> DEFINE s == Sent(c)
           t == Sent(c)'
<1>4. /\ s \in Seq(Message) /\ s # <<>> /\ Head(s) = x /\ t = Tail(s)
      /\ DOMAIN s = 1..Len(s) /\ Len(s) \in Nat \ {0} /\ s[1] = x /\ 1 \in DOMAIN s
      /\ DOMAIN t = 1..(Len(s) - 1) /\ \A i \in 1..(Len(s) - 1) : t[i] = s[i + 1]
  <2> DEFINE a == wire[c]
             b == resp[c]
             ab == a \o b
  <2>1. a \in Seq(Message) /\ b \in Seq(Message) /\ a # <<>> /\ wire'[c] = Tail(a) /\ resp'[c] = b
    BY <1>1, <1>2, LaneTypes
  <2>2. s = ab /\ x = Head(a) /\ t = Tail(a) \o b
    BY <2>1 DEF Sent
  <2> HIDE DEF a, b, s, t, x
  <2>3. ab \in Seq(Message) /\ Len(ab) = Len(a) + Len(b)
        /\ \A i \in 1..(Len(a) + Len(b)) : ab[i] = IF i <= Len(a) THEN a[i] ELSE b[i - Len(a)]
    BY <2>1, ConcatProperties
  <2>4. /\ Tail(a) \in Seq(Message) /\ Len(Tail(a)) = Len(a) - 1 /\ Len(a) \in Nat \ {0} /\ Len(b) \in Nat
        /\ \A i \in 1..(Len(a) - 1) : Tail(a)[i] = a[i + 1]
        /\ Head(a) = a[1]
    BY <2>1, HeadTailProperties, LenProperties, EmptySeq
  <2> HIDE DEF ab
  <2>5. ab # <<>> /\ Head(ab) = ab[1] /\ ab[1] = a[1]
    BY <2>3, <2>4, EmptySeq
  <2>6. Tail(a) \o b = Tail(ab)
    BY <2>1, TailOfConcat DEF ab
  <2>7. Head(s) = x /\ t = Tail(s) /\ s \in Seq(Message) /\ s # <<>>
    BY <2>2, <2>3, <2>4, <2>5, <2>6
  <2>8. /\ DOMAIN s = 1..Len(s) /\ Len(s) \in Nat \ {0} /\ Head(s) = s[1]
        /\ DOMAIN Tail(s) = 1..(Len(s) - 1) /\ \A i \in 1..(Len(s) - 1) : Tail(s)[i] = s[i + 1]
    BY <2>7, HeadTailProperties, LenProperties, EmptySeq
  <2> QED BY <2>7, <2>8
<1>5. ASSUME NEW d \in Clients \ {c}
      PROVE  /\ Sent(d)' = Sent(d) /\ Lane(d)' = Lane(d) /\ view'[d] = view[d] /\ awaiting'[d] = awaiting[d]
             /\ resyncs'[d] = resyncs[d] /\ deaf'[d] = deaf[d]
  <2>1. wire'[d] = wire[d] /\ resp'[d] = resp[d] /\ push'[d] = push[d] /\ serving'[d] = serving[d]
    BY <1>1 DEF server
  <2> QED BY <1>1, <2>1, LaneKept
<1>6. /\ wire'[c] = rest /\ view'[c] = shown /\ awaiting'[c] = waits
      /\ resyncs'[c] = (resyncs[c] \/ heeded)
      /\ deaf'[c] = (deaf[c] \/ (x.kind = "overflow" /\ ~heeded))
  BY <1>1, <1>2
<1>7. OneBatch(x)
  BY <1>2, <1>4 DEF AnswersOnce
<1>8. TypeOK'
  <2>1. view' \in [Clients -> Fed]
    <3>1. view[c] \in Fed /\ x.fed \in Fed
      BY <1>2, <1>3 DEF Message
    <3>2. shown \in Fed
      BY <3>1, ConcatProperties DEF Fed
    <3> HIDE DEF shown
    <3> QED BY <1>1, <1>2, <3>2
  <2>2. wire' \in [Clients -> Seq(Message)] /\ \A d \in Clients : Len(wire'[d]) <= WireBound
    <3>1. Len(rest) <= WireBound
      <4>1. Len(u) <= WireBound
        BY <1>2 DEF TypeOK
      <4> HIDE DEF u, rest
      <4> QED BY <1>3, <4>1, Bounds
    <3> HIDE DEF rest
    <3> QED BY <1>1, <1>2, <1>3, <3>1 DEF TypeOK
  <2>3. awaiting' \in [Clients -> Requests \cup {None}]
    <3>1. waits \in Requests \cup {None}
      BY <1>2
    <3> HIDE DEF waits
    <3> QED BY <1>1, <1>2, <3>1
  <2>4. resyncs' \in [Clients -> BOOLEAN] /\ deaf' \in [Clients -> BOOLEAN]
    <3>1. (resyncs[c] \/ heeded) \in BOOLEAN /\ (deaf[c] \/ (x.kind = "overflow" /\ ~heeded)) \in BOOLEAN
      OBVIOUS
    <3> QED BY <1>1, <1>2, <3>1
  <2>5. {push, resp, wire}' \subseteq [Clients -> Seq(Message)]
    BY <1>1, <1>2, <2>2 DEF TypeOK
  <2>6. {resyncs, missing, deaf, marred}' \subseteq [Clients -> BOOLEAN]
    BY <1>1, <1>2, <2>4
  <2>7. {request, awaiting}' \subseteq [Clients -> Requests \cup {None}]
    BY <1>1, <1>2, <2>3 DEF TypeOK, server
  <2> HIDE DEF shown, waits, heeded, x, rest, u
  <2> QED BY <1>1, <1>2, <2>1, <2>2, <2>5, <2>6, <2>7 DEF TypeOK, loop, pane, members, server
<1>9. LoopKeepsScreen'
  BY <1>1, <1>2 DEF LoopKeepsScreen, loop, pane, members
<1> HIDE DEF s, t, x, u, rest, shown, heeded, waits
<1>10. ASSUME NEW d \in Clients PROVE AnswersOnce(d)'
  <2>1. CASE d # c
    BY <1>1, <1>2, <1>5, <2>1, AnswersKept DEF OneAnswer, server
  <2>2. CASE d = c
    <3>1. /\ \A i \in DOMAIN s : OneBatch(s[i])
          /\ \A i \in DOMAIN s : IsAnswer(s[i]) =>
               /\ awaiting[c] # None /\ request[c] = None /\ serving[c].step = None
               /\ \A j \in DOMAIN s : IsAnswer(s[j]) => i = j
      BY <1>2 DEF AnswersOnce, s
    <3>2. ASSUME NEW i \in DOMAIN t PROVE i + 1 \in DOMAIN s /\ t[i] = s[i + 1] /\ i + 1 # 1 /\ i \in Nat
      BY <1>4
    <3>3. IsAnswer(x) => /\ request[c] = None /\ serving[c].step = None
                         /\ \A i \in DOMAIN t : ~IsAnswer(t[i])
      BY <1>4, <3>1, <3>2
    <3>4. ~IsAnswer(x) => waits = awaiting[c]
      BY DEF waits, IsAnswer
    <3>5. \A i \in DOMAIN t : OneBatch(t[i])
      BY <3>1, <3>2
    <3>6. ASSUME NEW i \in DOMAIN t, IsAnswer(t[i])
          PROVE  /\ waits # None /\ request[c] = None /\ serving[c].step = None
                 /\ \A j \in DOMAIN t : IsAnswer(t[j]) => i = j
      <4>1. IsAnswer(s[i + 1]) /\ i + 1 \in DOMAIN s
        BY <3>2, <3>6
      <4>2. waits = awaiting[c]
        BY <3>3, <3>4, <3>6
      <4>3. ASSUME NEW j \in DOMAIN t, IsAnswer(t[j]) PROVE i = j
        <5>1. IsAnswer(s[j + 1]) /\ j + 1 \in DOMAIN s /\ i \in Nat /\ j \in Nat
          BY <3>2, <4>3
        <5>2. i + 1 = j + 1
          BY <3>1, <4>1, <5>1
        <5> QED BY <5>1, <5>2
      <4> QED BY <3>1, <4>1, <4>2, <4>3
    <3>7. /\ request[c] # None => waits = request[c]
          /\ serving[c].step # None => waits # None
      BY <1>2, <3>3, <3>4 DEF AnswersOnce
    <3>8. UNCHANGED <<push, request, serving>>
      BY <1>1 DEF server
    <3> QED BY <1>2, <1>6, <2>2, <3>5, <3>6, <3>7, <3>8 DEF AnswersOnce, t
  <2> QED BY <2>1, <2>2
<1>11. ASSUME NEW d \in Clients PROVE Flows(d)'
  <2>1. /\ Flows(d) /\ LastSent(d)' = LastSent(d) /\ pc' = pc /\ marred' = marred
        /\ targets' = targets /\ attached' = attached /\ registered' = registered
    BY <1>1, <1>2 DEF StreamsFlow, LastSent, loop, pane, members
  <2>2. CASE d # c
    BY <1>5, <2>1, <2>2, FlowKept DEF Flows
  <2>3. CASE d = c
    <3> SUFFICES ASSUME c \in attached, c \in registered, ~marred[c]
                 PROVE  Whole(shown, Lane(c)', LastSent(c))
      BY <1>6, <2>1, <2>3 DEF Flows
    <3> DEFINE lane == Lane(c)
               n == LastSent(c)
               old == view[c]
    <3>1. /\ Whole(old, lane, n) /\ lane \in Seq(Message) /\ n \in Nat /\ old \in Seq(Nat)
      BY <1>2, <2>1, <2>3, LaneTypes, LastSentIsNumber DEF Flows
    <3>2. lane # <<>> /\ Head(lane) = x /\ Tail(lane) = Lane(c)'
      <4> DEFINE after == Answer(c) \o push[c]
                 answer == Answer(c)
                 last == push[c]
      <4>1. /\ s \in Seq(Message) /\ t \in Seq(Message) /\ answer \in Seq(Message) /\ last \in Seq(Message)
            /\ after \in Seq(Message) /\ after = answer \o last
        <5>1. answer \in Seq(Message) /\ last \in Seq(Message)
          BY <1>2, LaneTypes
        <5>2. answer \o last \in Seq(Message)
          <6> HIDE DEF answer, last
          <6> QED BY <5>1, ConcatProperties
        <5>3. t \in Seq(Message)
          BY <1>4, HeadTailProperties
        <5> QED BY <1>4, <5>1, <5>2, <5>3
      <4>2. lane = (s \o answer) \o last /\ Lane(c)' = (t \o answer) \o last
        BY <1>1 DEF Lane, Answer, server, s, t
      <4> HIDE DEF after, answer, last, lane
      <4>3. lane = s \o after /\ Lane(c)' = t \o after
        <5>1. (s \o answer) \o last = s \o (answer \o last)
          BY <4>1, ConcatAssociative, SMTT(30)
        <5>2. (t \o answer) \o last = t \o (answer \o last)
          BY <4>1, ConcatAssociative, SMTT(30)
        <5> QED BY <4>1, <4>2, <5>1, <5>2
      <4>4. /\ Len(s \o after) = Len(s) + Len(after) /\ s \o after \in Seq(Message) /\ Len(after) \in Nat
            /\ \A i \in 1..(Len(s) + Len(after)) : (s \o after)[i] = IF i <= Len(s) THEN s[i] ELSE after[i - Len(s)]
        BY <4>1, ConcatProperties, LenProperties
      <4>5. lane # <<>> /\ Head(lane) = lane[1] /\ lane[1] = s[1]
        BY <1>4, <4>3, <4>4, EmptySeq
      <4>6. Tail(s \o after) = t \o after
        BY <1>4, <4>1, TailOfConcat
      <4> QED BY <1>4, <4>3, <4>5, <4>6
    <3>3. shown = CASE Head(lane).kind = "delta"    -> old \o Head(lane).fed
                    [] Head(lane).kind = "snapshot" -> Head(lane).fed
                    [] OTHER                        -> old
      BY <3>2 DEF shown
    <3> HIDE DEF lane, n, old
    <3>4. Whole(shown, Tail(lane), n)
      BY <1>7, <3>1, <3>2, <3>3, WholeReceives
    <3> QED BY <3>2, <3>4 DEF n
  <2> QED BY <2>2, <2>3
<1>12. Announced'
  <2> SUFFICES ASSUME NEW d \in registered, missing[d], ~deaf'[d]
               PROVE  \/ d \in overflowed
                      \/ \E i \in DOMAIN Sent(d)' : Sent(d)'[i].kind = "overflow"
                      \/ resyncs'[d]
                      \/ request[d] = "resync"
    BY <1>1 DEF Announced, loop, members, server
  <2>1. CASE d # c
    BY <1>2, <1>5, <2>1, ZenonT(30) DEF Announced
  <2>2. CASE d = c
    <3>1. ~deaf[c] /\ (x.kind = "overflow" => heeded)
      BY <1>6, <2>2
    <3>2. CASE x.kind = "overflow"
      BY <1>6, <2>2, <3>1, <3>2
    <3>3. CASE x.kind # "overflow"
      <4>1. ASSUME NEW i \in DOMAIN s, s[i].kind = "overflow"
            PROVE  \E j \in DOMAIN t : t[j].kind = "overflow"
        <5>1. i # 1 /\ i \in 1..Len(s)
          BY <1>4, <3>3, <4>1
        <5>2. i - 1 \in DOMAIN t /\ t[i - 1] = s[(i - 1) + 1] /\ (i - 1) + 1 = i
          BY <1>4, <5>1
        <5> QED BY <4>1, <5>2
      <4> QED BY <1>2, <1>6, <2>2, <3>1, <4>1 DEF Announced, s, t
    <3> QED BY <3>2, <3>3
  <2> QED BY <2>1, <2>2
<1> QED BY <1>8, <1>9, <1>10, <1>11, <1>12 DEF OutputInv, OneAnswer, StreamsFlow

-----------------------------------------------------------------------------
(* The theorems.                                                            *)

\* The invariant is inductive: every step of the read loop, of the tasks that serve a client and of
\* the client keeps it (server.rs:2126-2307, 3001-3127, daemon_bridge.rs:720-775, 1903-1957).
THEOREM OutputIsInductive ==
  ASSUME OutputInv, [Next]_vars
  PROVE  OutputInv'
<1>1. CASE UNCHANGED vars
  <2>1. UNCHANGED <<loop, pane, members, lanes, server, client, heals, history>>
    BY <1>1 DEF vars
  <2>2. /\ TypeOK' /\ LoopKeepsScreen' /\ Announced'
    BY <2>1 DEF OutputInv, TypeOK, LoopKeepsScreen, Announced, Sent,
                loop, pane, members, lanes, server, client, history
  <2>3. ASSUME NEW c \in Clients PROVE AnswersOnce(c)' /\ Flows(c)'
    <3>1. Sent(c)' = Sent(c) /\ Lane(c)' = Lane(c) /\ LastSent(c)' = LastSent(c)
      BY <2>1 DEF Sent, Lane, Answer, LastSent, loop, pane, lanes, server
    <3> QED BY <2>1, <3>1, AnswersKept
         DEF OutputInv, OneAnswer, StreamsFlow, Flows, loop, pane, members, lanes, server, client, history
  <2> QED BY <2>2, <2>3 DEF OutputInv, OneAnswer, StreamsFlow
<1>2. CASE ReadLoop
  BY <1>2, ScreenSteps, SendDeltaKeeps, HandlePushOverflowsKeeps DEF ReadLoop
<1>3. ASSUME NEW c \in Clients, Serve(c) \/ Write(c) \/ Ask(c) \/ AskResync(c) \/ Receive(c)
      PROVE  OutputInv'
  BY <1>3, HandleMessageKeeps, BroadcastHealKeeps, RespondKeeps, WriteKeeps, AskKeeps, ReceiveKeeps
     DEF Serve
<1> QED BY <1>1, <1>2, <1>3 DEF Next

\* In every state of the stream, whatever is on its way to a client is whole, is owed to nobody else
\* and is awaited (server.rs:2126-2307, 3001-3127).
THEOREM OutputIsSafe == Spec => []OutputInv
<1>1. Init => OutputInv
  BY InitHolds
<1>2. OutputInv /\ [Next]_vars => OutputInv'
  BY OutputIsInductive
<1> QED BY <1>1, <1>2, PTL DEF Spec

\* The channels of a client never hold more than PUSH_CHANNEL_BOUND and RESP_CHANNEL_BOUND messages
\* (server.rs:62-81, 560-580).
THEOREM OutputTypeOK == Spec => []TypeOK
<1>1. OutputInv => TypeOK
  BY DEF OutputInv
<1> QED BY <1>1, OutputIsSafe, PTL

\* Whoever lost a delta and still gets others is told with a StreamOverflow or asks for a resync, for
\* every bound of the channels (server.rs:560-580, daemon_bridge.rs:760, 1917-1920).
THEOREM DropsAreAlwaysAnnounced == Spec => []DropsAreAnnounced
<1>1. OutputInv => DropsAreAnnounced
  <2> SUFFICES ASSUME OutputInv, NEW c \in registered, request[c] = "resync"
               PROVE  awaiting[c] = "resync"
    BY DEF OutputInv, Announced, DropsAreAnnounced
  <2> QED BY DEF OutputInv, OneAnswer, AnswersOnce, TypeOK, None
<1> QED BY <1>1, OutputIsSafe, PTL

\* A client that waits for nothing has no snapshot on its way: what is coming continues its view
\* (server.rs:3088, daemon_bridge.rs:1903-1957).
LEMMA IdleStreamIsWhole ==
  ASSUME OutputInv, NEW c \in Clients, c \in attached, c \in registered, awaiting[c] = None, ~marred[c]
  PROVE  \E m \in 0..LastSent(c) : InOrder(view[c], 0, m) /\ InOrder(Coming(c), m, LastSent(c))
<1> DEFINE lane == Lane(c)
           coming == Coming(c)
           n == LastSent(c)
<1>1. TypeOK /\ LoopKeepsScreen /\ AnswersOnce(c) /\ Whole(view[c], lane, n)
  BY DEF OutputInv, OneAnswer, StreamsFlow, Flows
<1>2. Answer(c) = <<>> /\ \A i \in DOMAIN Sent(c) : Sent(c)[i].kind # "snapshot"
  BY <1>1 DEF AnswersOnce, Answer, IsAnswer, Unserved, Ok
<1>3. lane = Sent(c) \o push[c]
  <2>1. Sent(c) \o <<>> = Sent(c)
    BY <1>1, LaneTypes, ConcatEmptySeq
  <2> QED BY <1>2, <2>1 DEF Lane
<1>4. NoSnapshot(lane)
  <2> DEFINE a == Sent(c)
             b == push[c]
  <2>1. /\ a \in Seq(Message) /\ b \in Seq(Message) /\ lane = a \o b
        /\ \A i \in DOMAIN a : a[i].kind # "snapshot"
        /\ \A i \in DOMAIN b : b[i].kind # "snapshot"
    BY <1>1, <1>2, <1>3, LaneTypes DEF AnswersOnce
  <2> HIDE DEF a, b, lane
  <2>2. /\ DOMAIN (a \o b) = 1..(Len(a) + Len(b)) /\ DOMAIN a = 1..Len(a) /\ DOMAIN b = 1..Len(b)
        /\ Len(a) \in Nat /\ Len(b) \in Nat
        /\ \A i \in 1..(Len(a) + Len(b)) : (a \o b)[i] = IF i <= Len(a) THEN a[i] ELSE b[i - Len(a)]
    BY <2>1, ConcatProperties, LenProperties
  <2>3. ASSUME NEW i \in DOMAIN (a \o b) PROVE (a \o b)[i].kind # "snapshot"
    <3>1. CASE i <= Len(a)
      BY <2>1, <2>2, <3>1
    <3>2. CASE i > Len(a)
      <4>1. i - Len(a) \in DOMAIN b /\ (a \o b)[i] = b[i - Len(a)]
        BY <2>2, <3>2
      <4> QED BY <2>1, <4>1
    <3> QED BY <2>2, <3>1, <3>2
  <2> QED BY <2>1, <2>3 DEF NoSnapshot
<1>5. DOMAIN coming = DOMAIN lane /\ \A i \in DOMAIN lane : coming[i] = Batch(lane[i])
  BY <1>3 DEF Coming
<1>6. DOMAIN lane \subseteq Nat \ {0}
  BY <1>1, LaneTypes, LenProperties
<1> HIDE DEF lane, coming, n
<1>7. PICK m \in 0..n : InOrder(view[c], 0, m) /\ Behind(lane, 0, m, n)
  BY <1>1, <1>4 DEF Whole, Continues
<1>8. InOrder(coming, m, n)
  <2>1. \A i \in DOMAIN lane : i > 0
    BY <1>6
  <2> QED BY <1>5, <1>7, <2>1 DEF InOrder, Behind
<1> QED BY <1>7, <1>8 DEF coming, n

\* A client whose stream met none of the four hazards shows the first batches of output, each once and
\* in order, with the others on their way in theirs: no batch is lost or doubled between the screen of
\* the pane and that of a client, however its attach or resync falls into the phases of the read loop
\* (server.rs:81, 1186, 2173, 3088).
THEOREM CleanStreamIsAlwaysWhole == Spec => []CleanStreamIsWhole
<1>1. OutputInv => CleanStreamIsWhole
  BY IdleStreamIsWhole DEF CleanStreamIsWhole, OutputInv, TypeOK
<1> QED BY <1>1, OutputIsSafe, PTL

=============================================================================
