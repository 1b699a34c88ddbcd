------------------------------ MODULE LeafOrder ------------------------------
(****************************************************************************)
(* The left-to-right order of the panes of a workspace tree, and what the   *)
(* structural operations of services/rttx-server/src/pane_tree.rs do to it. *)
(*                                                                          *)
(* A PaneTree is a binary tree whose leaves are panes. Everything the       *)
(* daemon decides from the tree, apart from its geometry, depends only on   *)
(* the order in which PaneTree::collect visits the leaves: whether a pane   *)
(* is present, which pane is the first leaf, where a split puts the new     *)
(* pane. Module WorkspaceTree keeps the whole tree (axes, ratios, paths)    *)
(* and is checked to implement the operators below.                         *)
(*                                                                          *)
(* The lemmas at the end say what the operators do to the panes of a tree,  *)
(* for every order and every set of pane ids.                               *)
(****************************************************************************)
EXTENDS Naturals, Sequences, SequencesExt, SequenceTheorems, TLAPS

\* Where a pane stands in the order. Meaningful only for a pane that is in it.
Position(order, pane) == CHOOSE i \in DOMAIN order : order[i] = pane

\* PaneTree::split_leaf: the target keeps its place as the first child of the
\* new split, the new pane is its second child and so comes right after it.
SplitLeaf(order, target, pane) == InsertAt(order, Position(order, target) + 1, pane)

\* remove_from: the parent split collapses into the sibling of the closed leaf,
\* so every other pane keeps its place in the order.
CloseLeaf(order, pane) == RemoveAt(order, Position(order, pane))

\* PaneTree::first_leaf, the leftmost leaf of a tree that is not empty.
FirstLeaf(order) == Head(order)

\* validate_node: no pane occupies two leaves.
NoDuplicates(order) == \A i, j \in DOMAIN order : order[i] = order[j] => i = j

------------------------------------------------------------------------------
(* What the operators do.                                                   *)

\* A pane of the tree has a place in the order, which is where it is found.
LEMMA PositionIs ==
  ASSUME NEW P, NEW order \in Seq(P), NEW pane \in ToSet(order)
  PROVE  /\ Position(order, pane) \in 1..Len(order)
         /\ order[Position(order, pane)] = pane
<1>1. PICK i \in DOMAIN order : order[i] = pane
  BY DEF ToSet
<1>2. DOMAIN order = 1..Len(order)
  OBVIOUS
<1> QED BY <1>1, <1>2 DEF Position

\* Where InsertAt, which SplitLeaf uses, puts every pane (PaneTree::split_leaf).
LEMMA SplitLeafShape ==
  ASSUME NEW P, NEW order \in Seq(P), NEW k \in 1..Len(order), NEW pane \in P
  PROVE  /\ InsertAt(order, k + 1, pane) \in Seq(P)
         /\ Len(InsertAt(order, k + 1, pane)) = Len(order) + 1
         /\ \A i \in 1..(Len(order) + 1) :
              InsertAt(order, k + 1, pane)[i] =
                IF i <= k THEN order[i] ELSE IF i = k + 1 THEN pane ELSE order[i - 1]
<1> DEFINE n == Len(order)  pre == SubSeq(order, 1, k)  suf == SubSeq(order, k + 1, n)
<1>1. n \in Nat /\ k \in Nat /\ k <= n /\ k >= 1
  BY LenProperties
<1>2. pre \in Seq(P) /\ Len(pre) = k /\ \A i \in 1..k : pre[i] = order[i]
  BY <1>1, SubSeqProperties, ElementOfSeq
<1>3. suf \in Seq(P) /\ Len(suf) = n - k /\ \A i \in 1..(n - k) : suf[i] = order[k + i]
  BY <1>1, SubSeqProperties, ElementOfSeq
<1>4. InsertAt(order, k + 1, pane) = (pre \o <<pane>>) \o suf
  <2>1. (k + 1) - 1 = k
    BY <1>1
  <2> QED BY <2>1, Zenon DEF InsertAt
<1>5. <<pane>> \in Seq(P) /\ Len(<<pane>>) = 1 /\ <<pane>>[1] = pane
  OBVIOUS
<1> DEFINE mid == pre \o <<pane>>  all == mid \o suf
<1> HIDE DEF n, pre, suf
<1>6. /\ mid \in Seq(P)
      /\ Len(mid) = k + 1
      /\ \A i \in 1..(k + 1) : mid[i] = IF i <= k THEN order[i] ELSE pane
  BY <1>1, <1>2, <1>5, ConcatProperties
<1> HIDE DEF mid
<1>7. /\ all \in Seq(P)
      /\ Len(all) = (k + 1) + (n - k)
      /\ \A i \in 1..((k + 1) + (n - k)) : all[i] =
           IF i <= k + 1 THEN mid[i] ELSE suf[i - (k + 1)]
  <2>1. /\ mid \o suf \in Seq(P)
        /\ Len(mid \o suf) = Len(mid) + Len(suf)
        /\ \A i \in 1..(Len(mid) + Len(suf)) : (mid \o suf)[i] =
             IF i <= Len(mid) THEN mid[i] ELSE suf[i - Len(mid)]
    BY <1>3, <1>6, ConcatProperties
  <2> QED BY <1>3, <1>6, <2>1
<1> HIDE DEF all
<1>8. Len(all) = n + 1
  BY <1>1, <1>7
<1>9. ASSUME NEW i \in 1..(n + 1)
      PROVE  all[i] = IF i <= k THEN order[i] ELSE IF i = k + 1 THEN pane ELSE order[i - 1]
  <2>1. all[i] = IF i <= k + 1 THEN mid[i] ELSE suf[i - (k + 1)]
    BY <1>1, <1>7
  <2>2. CASE i <= k + 1
    BY <1>1, <1>6, <2>1, <2>2
  <2>3. CASE i > k + 1
    <3>1. i - (k + 1) \in 1..(n - k) /\ k + (i - (k + 1)) = i - 1
      BY <1>1, <2>3
    <3> QED BY <1>1, <1>3, <2>1, <2>3, <3>1
  <2> QED BY <1>1, <2>2, <2>3
<1>10. InsertAt(order, k + 1, pane) = all
  BY <1>4 DEF all, mid
<1> QED BY <1>7, <1>8, <1>9, <1>10 DEF n

\* Where RemoveAt, which CloseLeaf uses, leaves every pane (remove_from).
LEMMA CloseLeafShape ==
  ASSUME NEW P, NEW order \in Seq(P), NEW k \in 1..Len(order)
  PROVE  /\ RemoveAt(order, k) \in Seq(P)
         /\ Len(RemoveAt(order, k)) = Len(order) - 1
         /\ \A i \in 1..(Len(order) - 1) :
              RemoveAt(order, k)[i] = IF i < k THEN order[i] ELSE order[i + 1]
<1> DEFINE n == Len(order)  pre == SubSeq(order, 1, k - 1)  suf == SubSeq(order, k + 1, n)
<1>1. n \in Nat /\ k \in Nat /\ k <= n /\ k >= 1
  BY LenProperties
<1>2. pre \in Seq(P) /\ Len(pre) = k - 1 /\ \A i \in 1..(k - 1) : pre[i] = order[i]
  BY <1>1, SubSeqProperties, ElementOfSeq
<1>3. suf \in Seq(P) /\ Len(suf) = n - k /\ \A i \in 1..(n - k) : suf[i] = order[k + i]
  BY <1>1, SubSeqProperties, ElementOfSeq
<1> DEFINE all == pre \o suf
<1>4. RemoveAt(order, k) = all
  BY DEF RemoveAt
<1> HIDE DEF n, pre, suf
<1>5. /\ all \in Seq(P)
      /\ Len(all) = (k - 1) + (n - k)
      /\ \A i \in 1..((k - 1) + (n - k)) : all[i] =
           IF i <= k - 1 THEN pre[i] ELSE suf[i - (k - 1)]
  <2>1. /\ pre \o suf \in Seq(P)
        /\ Len(pre \o suf) = Len(pre) + Len(suf)
        /\ \A i \in 1..(Len(pre) + Len(suf)) : (pre \o suf)[i] =
             IF i <= Len(pre) THEN pre[i] ELSE suf[i - Len(pre)]
    BY <1>2, <1>3, ConcatProperties
  <2> QED BY <1>2, <1>3, <2>1
<1> HIDE DEF all
<1>6. Len(all) = n - 1
  BY <1>1, <1>5
<1>7. ASSUME NEW i \in 1..(n - 1)
      PROVE  all[i] = IF i < k THEN order[i] ELSE order[i + 1]
  <2>1. all[i] = IF i <= k - 1 THEN pre[i] ELSE suf[i - (k - 1)]
    BY <1>1, <1>5
  <2>2. CASE i < k
    BY <1>1, <1>2, <2>1, <2>2
  <2>3. CASE i >= k
    <3>1. i - (k - 1) \in 1..(n - k) /\ k + (i - (k - 1)) = i + 1
      BY <1>1, <2>3
    <3> QED BY <1>1, <1>3, <2>1, <2>3, <3>1
  <2> QED BY <1>1, <2>2, <2>3
<1> QED BY <1>4, <1>5, <1>6, <1>7 DEF n

\* A split adds the new pane to the tree, once, and loses no other pane.
LEMMA SplitLeafAdds ==
  ASSUME NEW P, NEW order \in Seq(P), NEW target \in ToSet(order), NEW pane \in P,
         NoDuplicates(order), pane \notin ToSet(order)
  PROVE  /\ SplitLeaf(order, target, pane) \in Seq(P)
         /\ NoDuplicates(SplitLeaf(order, target, pane))
         /\ ToSet(SplitLeaf(order, target, pane)) = ToSet(order) \cup {pane}
<1> DEFINE k == Position(order, target)  n == Len(order)  new == SplitLeaf(order, target, pane)
<1>1. k \in 1..n /\ n \in Nat
  BY PositionIs, LenProperties
<1>2. new = InsertAt(order, k + 1, pane)
  BY DEF SplitLeaf
<1> HIDE DEF k, new
<1>3. /\ new \in Seq(P)
      /\ Len(new) = n + 1
      /\ \A i \in 1..(n + 1) :
           new[i] = IF i <= k THEN order[i] ELSE IF i = k + 1 THEN pane ELSE order[i - 1]
  <2>1. k \in 1..Len(order)
    BY <1>1
  <2> HIDE DEF n
  <2>2. /\ InsertAt(order, k + 1, pane) \in Seq(P)
        /\ Len(InsertAt(order, k + 1, pane)) = Len(order) + 1
        /\ \A i \in 1..(Len(order) + 1) :
             InsertAt(order, k + 1, pane)[i] =
               IF i <= k THEN order[i] ELSE IF i = k + 1 THEN pane ELSE order[i - 1]
    BY <2>1, SplitLeafShape
  <2> QED BY <1>2, <2>2, Zenon DEF n
<1>4. DOMAIN new = 1..(n + 1) /\ DOMAIN order = 1..n
  BY <1>3
<1>5. \A i \in 1..n : order[i] # pane
  BY <1>4 DEF ToSet
<1> HIDE DEF n
<1>6. NoDuplicates(new)
  <2> SUFFICES ASSUME NEW i \in 1..(n + 1), NEW j \in 1..(n + 1), new[i] = new[j]
               PROVE  i = j
    BY <1>4 DEF NoDuplicates
  <2>1. \A a, b \in 1..n : order[a] = order[b] => a = b
    BY <1>4 DEF NoDuplicates
  <2>2. i <= k => i \in 1..n
    BY <1>1
  <2>3. i > k + 1 => i - 1 \in 1..n
    BY <1>1
  <2>4. j <= k => j \in 1..n
    BY <1>1
  <2>5. j > k + 1 => j - 1 \in 1..n
    BY <1>1
  <2>6. CASE i <= k
    BY <1>1, <1>3, <1>5, <2>1, <2>2, <2>4, <2>5, <2>6
  <2>7. CASE i = k + 1
    BY <1>1, <1>3, <1>5, <2>4, <2>5, <2>7
  <2>8. CASE i > k + 1
    <3>1. new[i] = order[i - 1] /\ i - 1 \in 1..n /\ i - 1 >= k + 1
      BY <1>1, <1>3, <2>3, <2>8
    <3>2. CASE j <= k
      <4>1. new[j] = order[j] /\ j \in 1..n
        BY <1>1, <1>3, <2>4, <3>2
      <4>2. i - 1 = j
        BY <2>1, <3>1, <4>1
      <4> QED BY <1>1, <3>1, <3>2, <4>2
    <3>3. CASE j = k + 1
      <4>1. new[j] = pane
        BY <1>1, <1>3, <3>3
      <4> QED BY <1>5, <3>1, <4>1
    <3>4. CASE j > k + 1
      <4>1. new[j] = order[j - 1] /\ j - 1 \in 1..n
        BY <1>1, <1>3, <2>5, <3>4
      <4>2. i - 1 = j - 1
        BY <2>1, <3>1, <4>1
      <4> QED BY <1>1, <4>2
    <3> QED BY <1>1, <3>2, <3>3, <3>4
  <2> QED BY <1>1, <2>6, <2>7, <2>8
<1>7. ToSet(new) = ToSet(order) \cup {pane}
  <2>1. ASSUME NEW i \in 1..(n + 1) PROVE new[i] \in ToSet(order) \cup {pane}
    <3>1. \A m \in 1..n : order[m] \in ToSet(order)
      BY <1>4 DEF ToSet
    <3>2. CASE i <= k
      <4>1. new[i] = order[i] /\ i \in 1..n
        BY <1>1, <1>3, <3>2
      <4> QED BY <3>1, <4>1
    <3>3. CASE i = k + 1
      BY <1>1, <1>3, <3>3
    <3>4. CASE i > k + 1
      <4>1. new[i] = order[i - 1] /\ i - 1 \in 1..n
        BY <1>1, <1>3, <3>4
      <4> QED BY <3>1, <4>1
    <3> QED BY <1>1, <3>2, <3>3, <3>4
  <2>2. ASSUME NEW i \in 1..n PROVE order[i] \in ToSet(new)
    <3>1. CASE i <= k
      BY <1>1, <1>3, <1>4, <3>1 DEF ToSet
    <3>2. CASE i > k
      <4>1. i + 1 \in 1..(n + 1) /\ (i + 1) - 1 = i /\ ~(i + 1 <= k) /\ i + 1 # k + 1
        BY <1>1, <3>2
      <4>2. new[i + 1] = order[i]
        BY <1>3, <4>1
      <4> QED BY <1>4, <4>1, <4>2 DEF ToSet
    <3> QED BY <1>1, <3>1, <3>2
  <2>3. pane \in ToSet(new)
    <3>1. k + 1 \in 1..(n + 1) /\ ~(k + 1 <= k)
      BY <1>1
    <3>2. new[k + 1] = pane
      BY <1>3, <3>1
    <3> QED BY <1>4, <3>1, <3>2 DEF ToSet
  <2> QED BY <1>4, <2>1, <2>2, <2>3 DEF ToSet
<1> QED BY <1>3, <1>6, <1>7 DEF new

\* Closing a pane takes that pane, and no other, out of the tree.
LEMMA CloseLeafRemoves ==
  ASSUME NEW P, NEW order \in Seq(P), NEW pane \in ToSet(order), NoDuplicates(order)
  PROVE  /\ CloseLeaf(order, pane) \in Seq(P)
         /\ NoDuplicates(CloseLeaf(order, pane))
         /\ ToSet(CloseLeaf(order, pane)) = ToSet(order) \ {pane}
<1> DEFINE k == Position(order, pane)  n == Len(order)  new == CloseLeaf(order, pane)
<1>1. k \in 1..n /\ n \in Nat /\ order[k] = pane
  BY PositionIs, LenProperties
<1>2. new = RemoveAt(order, k)
  BY DEF CloseLeaf
<1> HIDE DEF k, new
<1>3. /\ new \in Seq(P)
      /\ Len(new) = n - 1
      /\ \A i \in 1..(n - 1) : new[i] = IF i < k THEN order[i] ELSE order[i + 1]
  BY <1>1, <1>2, CloseLeafShape
<1>4. DOMAIN new = 1..(n - 1) /\ DOMAIN order = 1..n
  BY <1>3
<1>5. \A a, b \in 1..n : order[a] = order[b] => a = b
  BY <1>4 DEF NoDuplicates
<1> HIDE DEF n
<1>6. \A i \in 1..(n - 1) : i \in 1..n /\ i + 1 \in 1..n
  BY <1>1
<1>7. NoDuplicates(new)
  BY <1>1, <1>3, <1>4, <1>5, <1>6 DEF NoDuplicates
<1>8. ToSet(new) = ToSet(order) \ {pane}
  <2>1. ASSUME NEW i \in 1..(n - 1) PROVE new[i] \in ToSet(order) \ {pane}
    <3>1. new[i] \in ToSet(order)
      BY <1>1, <1>3, <1>4, <1>6 DEF ToSet
    <3>2. CASE i < k
      BY <1>1, <1>3, <1>5, <1>6, <3>1, <3>2
    <3>3. CASE i >= k
      <4>1. new[i] = order[i + 1] /\ i + 1 # k
        BY <1>1, <1>3, <3>3
      <4> QED BY <1>1, <1>5, <1>6, <3>1, <4>1
    <3> QED BY <1>1, <3>2, <3>3
  <2>2. ASSUME NEW i \in 1..n, i # k PROVE order[i] \in ToSet(new)
    <3>1. CASE i < k
      BY <1>1, <1>3, <1>4, <3>1 DEF ToSet
    <3>2. CASE i > k
      <4>1. i - 1 \in 1..(n - 1) /\ (i - 1) + 1 = i /\ ~(i - 1 < k)
        BY <1>1, <3>2
      <4>2. new[i - 1] = order[i]
        BY <1>3, <4>1
      <4> QED BY <1>4, <4>1, <4>2 DEF ToSet
    <3> QED BY <1>1, <2>2, <3>1, <3>2
  <2> QED BY <1>1, <1>4, <2>1, <2>2 DEF ToSet
<1> QED BY <1>3, <1>7, <1>8 DEF new

\* The order is empty exactly when no pane is in it, and otherwise its first
\* leaf is one of its panes (PaneTree::first_leaf).
LEMMA FirstLeafIs ==
  ASSUME NEW P, NEW order \in Seq(P)
  PROVE  /\ order = <<>> <=> ToSet(order) = {}
         /\ order # <<>> => FirstLeaf(order) \in ToSet(order)
<1>1. order = <<>> => ToSet(order) = {}
  BY DEF ToSet
<1>2. ASSUME order # <<>> PROVE FirstLeaf(order) \in ToSet(order)
  <2>1. 1 \in DOMAIN order
    BY <1>2, EmptySeq, LenProperties
  <2>2. Head(order) = order[1]
    BY <1>2
  <2> QED BY <2>1, <2>2 DEF FirstLeaf, ToSet
<1> QED BY <1>1, <1>2

\* A tree of one leaf holds one pane.
LEMMA SingleLeaf ==
  ASSUME NEW P, NEW pane \in P
  PROVE  <<pane>> \in Seq(P) /\ NoDuplicates(<<pane>>) /\ ToSet(<<pane>>) = {pane}
BY DEF NoDuplicates, ToSet
==============================================================================
