---------------------------- MODULE TopicsProofs ----------------------------
(***************************************************************************)
(* Proofs about Topics, for any lists of topics the broker is started with, *)
(* any names that are asked for and text buffers of any size.               *)
(***************************************************************************)
EXTENDS Topics, SequenceTheorems, WellFoundedInduction, TLAPS

(* Induction over the numbers, in the form of sets.                         *)

(* The library's relation on the naturals, as it is used below.             *)
LEMMA LessRelation ==
    ASSUME NEW x \in Nat, NEW y \in Nat, x < y
    PROVE  <<x, y>> \in OpToRel(<, Nat)
  BY DEF OpToRel

(* A set of naturals has a least member.                                    *)
LEMMA LeastOfSet ==
    ASSUME NEW T \in SUBSET Nat, T # {}
    PROVE  \E x \in T : \A y \in T : x <= y
<1>1. PICK x \in T : \A y \in T : ~ (<<y, x>> \in OpToRel(<, Nat))
  BY NatLessThanWellFounded, WFMin
<1>2. \A y \in T : ~(y < x) BY <1>1, LessRelation
<1>3. \A y \in T : x <= y BY <1>2
<1> QED BY <1>3

(* A set that has a number whenever it has all the smaller ones has all.    *)
LEMMA StrongInduction ==
    ASSUME NEW Good,
           \A n \in Nat : (\A m \in Nat : m < n => m \in Good) => n \in Good
    PROVE  \A n \in Nat : n \in Good
<1> DEFINE Bad == Nat \ Good
<1> SUFFICES ASSUME Bad # {} PROVE FALSE OBVIOUS
<1>1. PICK x \in Bad : \A y \in Bad : x <= y BY LeastOfSet
<1>2. \A m \in Nat : m < x => m \in Good BY <1>1
<1> QED BY <1>1, <1>2

(* Induction over the naturals.                                             *)
LEMMA Induction ==
    ASSUME NEW Good, 0 \in Good, \A n \in Nat : n \in Good => n + 1 \in Good
    PROVE  \A n \in Nat : n \in Good
<1> SUFFICES ASSUME NEW n \in Nat, \A m \in Nat : m < n => m \in Good PROVE n \in Good
  BY StrongInduction
<1>1. CASE n = 0 BY <1>1
<1>2. CASE n # 0
  <2>1. n - 1 \in Nat /\ n - 1 < n /\ (n - 1) + 1 = n BY <1>2
  <2> QED BY <2>1
<1> QED BY <1>1, <1>2

(* A greatest member of a set of naturals with a bound.                     *)
LEMMA GreatestOfSet ==
    ASSUME NEW T \in SUBSET Nat, T # {}, NEW bound \in Nat, \A x \in T : x <= bound
    PROVE  Max(T) \in T /\ \A y \in T : y <= Max(T)
<1> DEFINE Room2 == {bound - x : x \in T}
<1>1. Room2 \in SUBSET Nat /\ Room2 # {}
  <2>1. \A x \in T : bound - x \in Nat OBVIOUS
  <2> QED BY <2>1
<1>2. PICK r \in Room2 : \A y \in Room2 : r <= y BY <1>1, LeastOfSet
<1>3. PICK x \in T : r = bound - x BY <1>2
<1>4. ASSUME NEW y \in T PROVE x >= y
  <2>1. bound - y \in Room2 OBVIOUS
  <2>2. r <= bound - y BY <1>2, <2>1
  <2> QED BY <1>3, <2>2
<1>5. Max(T) \in T /\ \A y \in T : Max(T) >= y BY <1>4 DEF Max
<1> QED BY <1>5

-----------------------------------------------------------------------------
(* Recursion along pointers: what is defined at a number from its value at  *)
(* another, of a lower rank, exists; and what carries over from there, and  *)
(* is so of 0, is so everywhere.                                            *)
Ranked(N, next, rank) ==
    /\ N \in Nat /\ next \in [1..N -> 0..N] /\ rank \in [0..N -> 0..N]
    /\ \A n \in 1..N : rank[next[n]] < rank[n]

Follows(f, N, S, s0, next, step) ==
    /\ f \in [0..N -> S] /\ f[0] = s0
    /\ \A n \in 1..N : f[n] = step[<<f[next[n]], n>>]

(* A function given by its value at 0 and by what it makes of the value at  *)
(* the next number exists.                                                  *)
LEMMA Following ==
    ASSUME NEW N, NEW next, NEW rank, Ranked(N, next, rank),
           NEW S, NEW s0 \in S, NEW step \in [S \X (1..N) -> S]
    PROVE  \E f : Follows(f, N, S, s0, next, step)
<1> USE DEF Ranked
<1> DEFINE UpTo(f, r) == /\ f \in [0..N -> S] /\ f[0] = s0
                         /\ \A n \in 1..N : rank[n] < r => f[n] = step[<<f[next[n]], n>>]
           Good == {r \in Nat : \E f : UpTo(f, r)}
<1>1. 0 \in Good
  <2>1. UpTo([n \in 0..N |-> s0], 0) OBVIOUS
  <2> QED BY <2>1
<1>2. ASSUME NEW r \in Nat, r \in Good PROVE r + 1 \in Good
  <2>1. PICK f : UpTo(f, r) BY <1>2
  <2> DEFINE g == [n \in 0..N |-> IF n = 0 THEN s0
                                  ELSE IF rank[n] = r THEN step[<<f[next[n]], n>>]
                                  ELSE f[n]]
  <2>2. g \in [0..N -> S] /\ g[0] = s0
    <3>1. \A n \in 1..N : step[<<f[next[n]], n>>] \in S
      <4> SUFFICES ASSUME NEW n \in 1..N PROVE step[<<f[next[n]], n>>] \in S OBVIOUS
      <4>1. f[next[n]] \in S BY <2>1
      <4>2. <<f[next[n]], n>> \in S \X (1..N) BY <4>1
      <4> QED BY <4>2
    <3>2. f \in [0..N -> S] BY <2>1
    <3>3. \A n \in 0..N : n # 0 => n \in 1..N OBVIOUS
    <3>4. \A n \in 0..N : (IF n = 0 THEN s0
                          ELSE IF rank[n] = r THEN step[<<f[next[n]], n>>] ELSE f[n]) \in S
      BY <3>1, <3>2, <3>3
    <3>5. 0 \in 0..N OBVIOUS
    <3>6. g \in [0..N -> S] BY <3>4, Zenon
    <3> QED BY <3>5, <3>6
  <2>3. \A n \in 1..N : rank[n] < r + 1 => g[next[n]] = f[next[n]]
    <3> SUFFICES ASSUME NEW n \in 1..N, rank[n] < r + 1 PROVE g[next[n]] = f[next[n]]
      OBVIOUS
    <3>1. next[n] \in 0..N /\ rank[next[n]] \in 0..N /\ rank[n] \in 0..N OBVIOUS
    <3>2. rank[next[n]] # r
      <4>1. rank[next[n]] < rank[n] OBVIOUS
      <4> QED BY <3>1, <4>1
    <3> QED BY <2>1, <3>1, <3>2
  <2>4. ASSUME NEW n \in 1..N, rank[n] < r + 1 PROVE g[n] = step[<<g[next[n]], n>>]
    <3> n # 0 /\ n \in 0..N OBVIOUS
    <3>1. CASE rank[n] = r
      <4>1. g[n] = step[<<f[next[n]], n>>] BY <3>1
      <4> QED BY <2>3, <2>4, <4>1
    <3>2. CASE rank[n] # r
      <4>1. rank[n] \in 0..N /\ rank[n] < r BY <2>4, <3>2, SMTT(30)
      <4>2. f[n] = step[<<f[next[n]], n>>] BY <2>1, <4>1
      <4>3. g[n] = f[n] BY <3>2
      <4> QED BY <2>3, <2>4, <4>2, <4>3
    <3> QED BY <3>1, <3>2
  <2>5. UpTo(g, r + 1) BY <2>2, <2>4
  <2> HIDE DEF UpTo
  <2> QED BY <2>5
<1>3. N + 1 \in Good
  <2> HIDE DEF Good
  <2> QED BY <1>1, <1>2, Induction
<1>4. PICK f : UpTo(f, N + 1) BY <1>3
<1>5. \A n \in 1..N : rank[n] < N + 1 OBVIOUS
<1> QED BY <1>4, <1>5 DEF Follows

(* What holds at 0, and at a number if it does at the next one, holds at    *)
(* all.                                                                     *)
LEMMA Carried ==
    ASSUME NEW N, NEW next, NEW rank, Ranked(N, next, rank),
           NEW Good, 0 \in Good, \A n \in 1..N : next[n] \in Good => n \in Good
    PROVE  \A n \in 0..N : n \in Good
<1> USE DEF Ranked
<1> DEFINE AtRank == {r \in Nat : \A n \in 0..N : rank[n] = r => n \in Good}
<1>1. ASSUME NEW r \in Nat, \A q \in Nat : q < r => q \in AtRank PROVE r \in AtRank
  <2> SUFFICES ASSUME NEW n \in 0..N, rank[n] = r, n # 0 PROVE n \in Good OBVIOUS
  <2>1. n \in 1..N /\ next[n] \in 0..N OBVIOUS
  <2>2. rank[next[n]] \in Nat /\ rank[next[n]] < r BY <2>1
  <2>3. rank[next[n]] \in AtRank BY <1>1, <2>2
  <2> QED BY <2>1, <2>3
<1>2. \A r \in Nat : r \in AtRank
  <2> HIDE DEF AtRank
  <2> QED BY <1>1, StrongInduction
<1>3. \A n \in 0..N : rank[n] \in Nat OBVIOUS
<1> QED BY <1>2, <1>3

(* Counting up is following the number before.                              *)
Before(N) == [n \in 1..N |-> n - 1]
Itself(N) == [n \in 0..N |-> n]

(* Counting down from a number ends at 0.                                   *)
LEMMA CountingRanked ==
    ASSUME NEW N \in Nat
    PROVE  Ranked(N, Before(N), Itself(N))
  BY DEF Ranked, Before, Itself

-----------------------------------------------------------------------------
(* The tree.                                                                *)

(* What Shape says of one node.                                             *)
LEMMA NodeFacts ==
    ASSUME Shape
    PROVE  /\ Len(tree) \in Nat /\ Nodes = 1..Len(tree)
           /\ root \in 0..Len(tree)
           /\ \A n \in Nodes :
                 /\ tree[n] \in [part : Parts, parent : Nat, child : Nat, sibling : Nat]
                 /\ tree[n].part \in Parts
                 /\ tree[n].parent \in 0..Len(tree) /\ tree[n].parent < n
                 /\ tree[n].child \in 0..Len(tree)
                 /\ tree[n].sibling \in 0..Len(tree)
                 /\ tree[n].sibling # NULL => n < tree[n].sibling
<1>1. tree \in Seq([part : Parts, parent : Nat, child : Nat, sibling : Nat])
  BY DEF Shape
<1>2. Len(tree) \in Nat /\ DOMAIN tree = 1..Len(tree) BY <1>1
<1>3. root \in 0..Len(tree)
  <2>1. root = IF tree = <<>> THEN NULL ELSE 1 BY DEF Shape
  <2>2. tree # <<>> => Len(tree) > 0 BY <1>1
  <2> QED BY <1>2, <2>1, <2>2 DEF NULL
<1>4. ASSUME NEW n \in Nodes
      PROVE  /\ tree[n] \in [part : Parts, parent : Nat, child : Nat, sibling : Nat]
             /\ tree[n].part \in Parts
             /\ tree[n].parent \in 0..Len(tree) /\ tree[n].parent < n
             /\ tree[n].child \in 0..Len(tree)
             /\ tree[n].sibling \in 0..Len(tree)
             /\ tree[n].sibling # NULL => n < tree[n].sibling
  <2>1. tree[n] \in [part : Parts, parent : Nat, child : Nat, sibling : Nat]
    <3>1. n \in 1..Len(tree) BY DEF Nodes
    <3> QED BY <1>1, <3>1, ElementOfSeq
  <2>2. /\ tree[n].part \in Parts /\ tree[n].parent \in Nat
        /\ tree[n].child \in Nat /\ tree[n].sibling \in Nat
    BY <2>1
  <2>3. /\ tree[n].parent < n
        /\ tree[n].child # NULL => tree[n].child \in Nodes
        /\ tree[n].sibling # NULL => n < tree[n].sibling /\ tree[n].sibling \in Nodes
    BY DEF Shape
  <2>4. n \in 1..Len(tree) BY DEF Nodes
  <2> QED BY <1>2, <2>1, <2>2, <2>3, <2>4 DEF Nodes, NULL
<1> QED BY <1>2, <1>3, <1>4 DEF Nodes

(* The first node of a level is a node, or there is none.                   *)
LEMMA FirstNode ==
    ASSUME Shape, NEW l \in 0..Len(tree)
    PROVE  First(l) \in 0..Len(tree)
<1>1. CASE l = NULL BY <1>1, NodeFacts DEF First
<1>2. CASE l # NULL
  <2>1. l \in Nodes BY <1>2, NodeFacts DEF NULL
  <2> QED BY <1>2, <2>1, NodeFacts DEF First
<1> QED BY <1>1, <1>2

(* The two pointers the functions below follow, each with its rank.         *)
SiblingPtr == [n \in 1..Len(tree) |-> tree[n].sibling]
ToLast     == [n \in 0..Len(tree) |-> IF n = 0 THEN 0 ELSE Len(tree) + 1 - n]
ParentPtr  == [n \in 1..Len(tree) |-> tree[n].parent]

(* Walks along the sibling and the parent pointers end.                     *)
LEMMA PointersRanked ==
    ASSUME Shape
    PROVE  /\ Ranked(Len(tree), SiblingPtr, ToLast)
           /\ Ranked(Len(tree), ParentPtr, Itself(Len(tree)))
<1> DEFINE N == Len(tree)
<1>1. N \in Nat /\ Nodes = 1..N BY NodeFacts
<1>2. Ranked(N, SiblingPtr, ToLast)
  <2>1. SiblingPtr \in [1..N -> 0..N] BY <1>1, NodeFacts DEF SiblingPtr
  <2>2. ToLast \in [0..N -> 0..N] BY <1>1 DEF ToLast
  <2>3. ASSUME NEW n \in 1..N PROVE ToLast[SiblingPtr[n]] < ToLast[n]
    <3>1. SiblingPtr[n] \in 0..N /\ (SiblingPtr[n] # 0 => n < SiblingPtr[n])
      BY <1>1, NodeFacts DEF NULL, SiblingPtr
    <3>2. ToLast[n] = N + 1 - n BY <1>1 DEF ToLast
    <3>3. ToLast[SiblingPtr[n]] = IF SiblingPtr[n] = 0 THEN 0 ELSE N + 1 - SiblingPtr[n]
      BY <3>1 DEF ToLast
    <3> QED BY <1>1, <3>1, <3>2, <3>3
  <2> QED BY <1>1, <2>1, <2>2, <2>3 DEF Ranked
<1>3. Ranked(N, ParentPtr, Itself(N))
  <2>1. ParentPtr \in [1..N -> 0..N] BY <1>1, NodeFacts DEF ParentPtr
  <2>2. Itself(N) \in [0..N -> 0..N] BY <1>1 DEF Itself
  <2>3. ASSUME NEW n \in 1..N PROVE Itself(N)[ParentPtr[n]] < Itself(N)[n]
    <3>1. ParentPtr[n] \in 0..N /\ ParentPtr[n] < n BY <1>1, NodeFacts DEF ParentPtr
    <3> QED BY <1>1, <3>1 DEF Itself
  <2> QED BY <1>1, <2>1, <2>2, <2>3 DEF Ranked
<1> QED BY <1>2, <1>3

(* The chain from a node is the node and the chain from its sibling.        *)
LEMMA SiblingsFrom ==
    ASSUME Shape
    PROVE  /\ Siblings \in [0..Len(tree) -> Seq(Nat)]
           /\ Siblings[0] = <<>>
           /\ \A n \in Nodes : Siblings[n] = <<n>> \o Siblings[tree[n].sibling]
<1> DEFINE N == Len(tree)
           step == [q \in Seq(Nat) \X (1..N) |-> <<q[2]>> \o q[1]]
<1>1. N \in Nat /\ Nodes = 1..N BY NodeFacts
<1>5. step \in [Seq(Nat) \X (1..N) -> Seq(Nat)]
  <2>1. ASSUME NEW q \in Seq(Nat) \X (1..N) PROVE <<q[2]>> \o q[1] \in Seq(Nat)
    <3>1. q[1] \in Seq(Nat) /\ q[2] \in Nat BY <1>1
    <3>2. <<q[2]>> \in Seq(Nat) BY <3>1
    <3> QED BY <3>1, <3>2
  <2> QED BY <2>1
<1>6. <<>> \in Seq(Nat) OBVIOUS
<1>7. Ranked(N, SiblingPtr, ToLast) BY PointersRanked
<1> HIDE DEF N, step
<1> PICK f : Follows(f, N, Seq(Nat), <<>>, SiblingPtr, step) BY <1>5, <1>6, <1>7, Following
<1>8. ASSUME NEW n \in 1..N PROVE f[n] = <<n>> \o f[tree[n].sibling]
  <2>1. f[n] = step[<<f[SiblingPtr[n]], n>>] BY DEF Follows
  <2>2. SiblingPtr[n] = tree[n].sibling /\ f[SiblingPtr[n]] \in Seq(Nat)
    BY <1>7 DEF SiblingPtr, Follows, Ranked, N
  <2>3. <<f[SiblingPtr[n]], n>> \in Seq(Nat) \X (1..N) BY <2>2
  <2> QED BY <2>1, <2>2, <2>3 DEF step
<1>9. f = [n \in 0..Len(tree) |-> IF n = NULL THEN <<>> ELSE <<n>> \o f[tree[n].sibling]]
  <2>1. \A n \in 0..N : n # 0 => n \in 1..N BY <1>1
  <2>2. \A n \in 0..N : f[n] = IF n = NULL THEN <<>> ELSE <<n>> \o f[tree[n].sibling]
    BY <1>8, <2>1 DEF NULL, Follows
  <2>3. f \in [0..N -> Seq(Nat)] BY DEF Follows
  <2> QED BY <2>2, <2>3 DEF N
<1>10. Siblings = [n \in 0..Len(tree) |->
                      IF n = NULL THEN <<>> ELSE <<n>> \o Siblings[tree[n].sibling]]
  BY <1>9 DEF Siblings
<1>11. Siblings[0] = <<>> BY <1>1, <1>10 DEF NULL
<1>12. ASSUME NEW n \in 1..N PROVE Siblings[n] = <<n>> \o Siblings[tree[n].sibling]
  <2>1. n \in 0..Len(tree) /\ n # NULL BY <1>1 DEF NULL, N
  <2> QED BY <1>10, <2>1
<1>13. \A n \in 0..N : Siblings[n] \in Seq(Nat)
  <2> DEFINE Good == {n \in 0..N : Siblings[n] \in Seq(Nat)}
  <2>1. 0 \in Good
    <3>1. 0 \in 0..N BY <1>1
    <3> QED BY <1>6, <1>11, <3>1
  <2>2. ASSUME NEW n \in 1..N, SiblingPtr[n] \in Good PROVE n \in Good
    <3>1. Siblings[tree[n].sibling] \in Seq(Nat) BY <2>2 DEF SiblingPtr, N
    <3>2. <<n>> \in Seq(Nat) BY <1>1
    <3>3. <<n>> \o Siblings[tree[n].sibling] \in Seq(Nat) BY <3>1, <3>2
    <3>4. n \in 0..N BY <1>1
    <3>5. Siblings[n] \in Seq(Nat) BY <1>12, <3>3, Zenon
    <3> QED BY <3>4, <3>5
  <2> HIDE DEF Good
  <2>3. \A n \in 0..N : n \in Good BY <1>7, <2>1, <2>2, Carried
  <2> QED BY <2>3 DEF Good
<1>14. Siblings \in [0..Len(tree) -> Seq(Nat)] BY <1>10, <1>13 DEF N
<1> QED BY <1>1, <1>11, <1>12, <1>14

(* A chain holds nodes of one parent, each with its sibling behind it, and  *)
(* ends with one that has none.                                             *)
Chained(s, l) ==
    /\ s \in Seq(Nodes)
    /\ \A i \in 1..Len(s) :
          /\ tree[s[i]].parent = l
          /\ tree[s[i]].sibling # NULL => \E j \in 1..Len(s) : s[j] = tree[s[i]].sibling
    /\ s # <<>> => tree[Last(s)].sibling = NULL

(* From a node the sibling pointers go through nodes of its level, the last *)
(* of which has no sibling.                                                 *)
LEMMA ChainFrom ==
    ASSUME Shape, NEW n \in Nodes
    PROVE  Chained(Siblings[n], tree[n].parent) /\ Siblings[n] # <<>> /\ Siblings[n][1] = n
<1> DEFINE N == Len(tree)
           Good == {k \in 0..N : k \in Nodes =>
                       /\ Chained(Siblings[k], tree[k].parent)
                       /\ Siblings[k] # <<>> /\ Siblings[k][1] = k}
<1>1. N \in Nat /\ Nodes = 1..N BY NodeFacts
<1>2. 0 \in Good BY <1>1
<1>3. ASSUME NEW k \in 1..N, SiblingPtr[k] \in Good PROVE k \in Good
  <2> DEFINE next == tree[k].sibling
             rest == Siblings[next]
             s == Siblings[k]
  <2> k \in Nodes BY <1>1
  <2>1. next = SiblingPtr[k] /\ next \in 0..N BY NodeFacts DEF SiblingPtr
  <2>2. s = <<k>> \o rest BY SiblingsFrom
  <2>3. CASE next = NULL
    <3>1. rest = <<>> BY <2>3, SiblingsFrom DEF NULL
    <3>2. s = <<k>> BY <2>2, <3>1
    <3>3. s \in Seq(Nodes) /\ Len(s) = 1 /\ s[1] = k BY <2>1, <3>2
    <3>4. Chained(s, tree[k].parent) BY <2>3, <3>3 DEF Chained, Last
    <3> QED BY <1>1, <3>3, <3>4
  <2>4. CASE next # NULL
    <3>1. next \in Nodes /\ tree[next].parent = tree[k].parent BY <2>1, <2>4 DEF Shape
    <3>2. Chained(rest, tree[k].parent) /\ rest # <<>> /\ rest[1] = next
      BY <1>3, <2>1, <3>1
    <3>3. rest \in Seq(Nodes) /\ <<k>> \in Seq(Nodes) BY <3>2 DEF Chained
    <3>4. /\ s \in Seq(Nodes) /\ Len(s) = 1 + Len(rest) /\ Len(rest) \in Nat
          /\ s[1] = k /\ \A i \in 1..Len(rest) : s[i + 1] = rest[i]
      BY <2>2, <3>3
    <3>5. Len(rest) > 0 BY <3>2, <3>3
    <3>6. Last(s) = Last(rest) BY <3>4, <3>5, SMTT(30) DEF Last
    <3>7. ASSUME NEW i \in 1..Len(s)
          PROVE  /\ tree[s[i]].parent = tree[k].parent
                 /\ tree[s[i]].sibling # NULL =>
                        \E j \in 1..Len(s) : s[j] = tree[s[i]].sibling
      <4>1. CASE i = 1
        <5>1. s[2] = next /\ 2 \in 1..Len(s) BY <3>2, <3>4, <3>5
        <5> QED BY <3>4, <4>1, <5>1
      <4>2. CASE i # 1
        <5>1. i - 1 \in 1..Len(rest) /\ s[i] = rest[i - 1] BY <3>4, <4>2
        <5>2. /\ tree[rest[i - 1]].parent = tree[k].parent
              /\ tree[rest[i - 1]].sibling # NULL =>
                     \E j \in 1..Len(rest) : rest[j] = tree[rest[i - 1]].sibling
          BY <3>2, <5>1 DEF Chained
        <5>3. \A j \in 1..Len(rest) : j + 1 \in 1..Len(s) /\ s[j + 1] = rest[j] BY <3>4
        <5> QED BY <5>1, <5>2, <5>3
      <4> QED BY <4>1, <4>2
    <3>8. tree[Last(s)].sibling = NULL BY <3>2, <3>6 DEF Chained
    <3>9. Chained(s, tree[k].parent) BY <3>4, <3>7, <3>8 DEF Chained
    <3>10. s # <<>> BY <3>4
    <3> QED BY <1>1, <3>4, <3>9, <3>10
  <2> QED BY <2>3, <2>4
<1>4. \A k \in 0..N : k \in Good
  <2> HIDE DEF Good
  <2> QED BY <1>2, <1>3, PointersRanked, Carried
<1> QED BY <1>1, <1>4

(* The chain below a node, or at the top, holds just what hangs there.      *)
LEMMA Below ==
    ASSUME Shape, NEW l \in 0..Len(tree)
    PROVE  LET s == Siblings[First(l)] IN
           /\ Chained(s, l) /\ (s = <<>> <=> First(l) = NULL)
           /\ \A n \in Nodes : tree[n].parent = l => \E i \in 1..Len(s) : s[i] = n
<1> DEFINE s == Siblings[First(l)]
<1>1. First(l) \in 0..Len(tree) /\ Len(tree) \in Nat /\ Nodes = 1..Len(tree)
  BY FirstNode, NodeFacts
<1>2. First(l) # NULL => First(l) \in Nodes /\ tree[First(l)].parent = l
  <2>1. First(l) # NULL => First(l) \in Nodes BY <1>1 DEF NULL
  <2>2. CASE l = NULL
    <3>1. First(l) # NULL => First(l) = 1 BY <2>2 DEF First, Shape
    <3>2. 1 \in Nodes => tree[1].parent = 0 BY NodeFacts
    <3> QED BY <2>1, <2>2, <3>1, <3>2 DEF NULL
  <2>3. CASE l # NULL
    <3>1. l \in Nodes BY <1>1, <2>3 DEF NULL
    <3> QED BY <2>1, <2>3, <3>1 DEF First, Shape
  <2> QED BY <2>2, <2>3
<1>3. Chained(s, l) /\ (s = <<>> <=> First(l) = NULL)
  <2>1. CASE First(l) = NULL
    <3>1. s = <<>> BY <2>1, SiblingsFrom DEF NULL
    <3>2. s \in Seq(Nodes) /\ Len(s) = 0 BY <3>1
    <3> QED BY <2>1, <3>1, <3>2 DEF Chained
  <2>2. CASE First(l) # NULL BY <1>2, <2>2, ChainFrom
  <2> QED BY <2>1, <2>2
<1>4. ASSUME NEW n \in Nodes, tree[n].parent = l PROVE \E i \in 1..Len(s) : s[i] = n
  <2> DEFINE Good == {m \in Nat : m \in Nodes /\ tree[m].parent = l =>
                                      \E i \in 1..Len(s) : s[i] = m}
  <2>1. ASSUME NEW m \in Nat, \A k \in Nat : k < m => k \in Good PROVE m \in Good
    <3> SUFFICES ASSUME m \in Nodes, tree[m].parent = l
                 PROVE  \E i \in 1..Len(s) : s[i] = m
      OBVIOUS
    <3>1. m = First(l) \/ \E k \in Nodes : tree[k].sibling = m BY DEF Shape
    <3>2. CASE m = First(l)
      <4>1. m # NULL BY <1>1 DEF NULL
      <4>2. s # <<>> /\ s[1] = m BY <3>2, <4>1, ChainFrom
      <4>3. 1 \in 1..Len(s) BY <1>3, <4>2 DEF Chained
      <4> QED BY <4>2, <4>3
    <3>3. CASE \E k \in Nodes : tree[k].sibling = m
      <4>1. PICK k \in Nodes : tree[k].sibling = m BY <3>3
      <4>2. m # NULL BY <1>1 DEF NULL
      <4>3. k < m /\ tree[m].parent = tree[k].parent BY <4>1, <4>2 DEF Shape
      <4>4. k \in Nat /\ k < m /\ tree[k].parent = l BY <1>1, <4>3
      <4>5. PICK i \in 1..Len(s) : s[i] = k BY <2>1, <4>4
      <4> QED BY <1>3, <4>1, <4>2, <4>5 DEF Chained
    <3> QED BY <3>1, <3>2, <3>3
  <2>2. \A m \in Nat : m \in Good
    <3> HIDE DEF Good
    <3> QED BY <2>1, StrongInduction
  <2> QED BY <1>1, <1>4, <2>2
<1> QED BY <1>3, <1>4

(* A lookup finds the node below l of that part, if there is one.           *)
LEMMA FindIs ==
    ASSUME Shape, NEW l \in 0..Len(tree), NEW part
    PROVE  /\ Find(l, part) \in 0..Len(tree)
           /\ Find(l, part) # NULL => /\ Find(l, part) \in Nodes
                                      /\ tree[Find(l, part)].parent = l
                                      /\ tree[Find(l, part)].part = part
           /\ \A n \in Nodes : tree[n].parent = l /\ tree[n].part = part
                                   => Find(l, part) = n
<1> DEFINE s == Siblings[First(l)]
           Hits == {k \in 1..Len(s) : tree[s[k]].part = part}
           i == SelectInSeq(s, LAMBDA n : tree[n].part = part)
<1>1. /\ Chained(s, l) /\ Len(s) \in Nat
      /\ \A n \in Nodes : tree[n].parent = l => \E k \in 1..Len(s) : s[k] = n
  <2>1. Chained(s, l) BY Below
  <2>2. Len(s) \in Nat BY <2>1 DEF Chained
  <2> QED BY <2>1, <2>2, Below
<1>2. i = IF Hits # {} THEN Min(Hits) ELSE 0 BY DEF SelectInSeq
<1>3. Hits # {} => Min(Hits) \in Hits
  <2>1. Hits \in SUBSET Nat BY <1>1
  <2>2. Hits # {} => \E x \in Hits : \A y \in Hits : x <= y BY <2>1, LeastOfSet
  <2> HIDE DEF Hits
  <2> QED BY <2>2 DEF Min
<1>4. Find(l, part) = IF i = 0 THEN NULL ELSE s[i] BY DEF Find
<1>5. Nodes = 1..Len(tree) /\ Len(tree) \in Nat BY NodeFacts
<1>6. CASE Hits = {}
  <2>1. Find(l, part) = NULL BY <1>2, <1>4, <1>6
  <2>2. \A n \in Nodes : ~(tree[n].parent = l /\ tree[n].part = part) BY <1>1, <1>6
  <2> QED BY <1>5, <2>1, <2>2 DEF NULL
<1>7. CASE Hits # {}
  <2>1. i \in 1..Len(s) /\ tree[s[i]].part = part BY <1>2, <1>3, <1>7
  <2>2. Find(l, part) = s[i] BY <1>4, <2>1
  <2>3. s[i] \in Nodes /\ tree[s[i]].parent = l
    <3>1. s \in Seq(Nodes) BY <1>1 DEF Chained
    <3>2. s[i] \in Nodes BY <2>1, <3>1, ElementOfSeq
    <3> QED BY <1>1, <2>1, <3>2 DEF Chained
  <2> HIDE DEF s, i
  <2>4. \A m, n \in Nodes :
            tree[m].parent = tree[n].parent /\ tree[m].part = tree[n].part => m = n
    BY DEF Shape
  <2>5. \A n \in Nodes : tree[n].parent = l /\ tree[n].part = part => n = s[i]
    BY <2>1, <2>3, <2>4
  <2> DEFINE k == s[i]
  <2>6. k \in Nodes /\ k \in 0..Len(tree) BY <1>5, <2>3
  <2> QED BY <2>1, <2>2, <2>3, <2>5, <2>6
<1> QED BY <1>6, <1>7

(* The path to a node is the path to its parent and its own part.           *)
LEMMA PathTo ==
    ASSUME Shape
    PROVE  /\ PathOf \in [0..Len(tree) -> Seq(Parts)]
           /\ PathOf[0] = <<>>
           /\ \A n \in Nodes : PathOf[n] = Append(PathOf[tree[n].parent], tree[n].part)
<1> DEFINE N == Len(tree)
           step == [q \in Seq(Parts) \X (1..N) |-> Append(q[1], tree[q[2]].part)]
<1>1. N \in Nat /\ Nodes = 1..N BY NodeFacts
<1>2. step \in [Seq(Parts) \X (1..N) -> Seq(Parts)]
  <2>1. ASSUME NEW q \in Seq(Parts) \X (1..N) PROVE Append(q[1], tree[q[2]].part) \in Seq(Parts)
    <3>1. q[1] \in Seq(Parts) /\ q[2] \in Nodes BY <1>1
    <3>2. tree[q[2]].part \in Parts BY <3>1, NodeFacts
    <3> QED BY <3>1, <3>2, AppendProperties
  <2> QED BY <2>1
<1>3. <<>> \in Seq(Parts) OBVIOUS
<1>4. Ranked(N, ParentPtr, Itself(N)) BY PointersRanked
<1> HIDE DEF N, step
<1> PICK f : Follows(f, N, Seq(Parts), <<>>, ParentPtr, step)
  BY <1>2, <1>3, <1>4, Following
<1>5. ASSUME NEW n \in 1..N PROVE f[n] = Append(f[tree[n].parent], tree[n].part)
  <2>1. f[n] = step[<<f[ParentPtr[n]], n>>] BY DEF Follows
  <2>2. ParentPtr[n] = tree[n].parent /\ f[ParentPtr[n]] \in Seq(Parts)
    BY <1>4 DEF ParentPtr, Follows, Ranked, N
  <2>3. <<f[ParentPtr[n]], n>> \in Seq(Parts) \X (1..N) BY <2>2
  <2> QED BY <2>1, <2>2, <2>3 DEF step
<1>6. f = [n \in 0..Len(tree) |->
              IF n = NULL THEN <<>> ELSE Append(f[tree[n].parent], tree[n].part)]
  <2>1. \A n \in 0..N : n # 0 => n \in 1..N BY <1>1
  <2>2. \A n \in 0..N :
            f[n] = IF n = NULL THEN <<>> ELSE Append(f[tree[n].parent], tree[n].part)
    BY <1>5, <2>1 DEF NULL, Follows
  <2>3. f \in [0..N -> Seq(Parts)] BY DEF Follows
  <2> QED BY <2>2, <2>3 DEF N
<1>7. PathOf = [n \in 0..Len(tree) |->
                   IF n = NULL THEN <<>> ELSE Append(PathOf[tree[n].parent], tree[n].part)]
  BY <1>6 DEF PathOf
<1>8. PathOf[0] = <<>> BY <1>1, <1>7 DEF NULL
<1>9. ASSUME NEW n \in 1..N PROVE PathOf[n] = Append(PathOf[tree[n].parent], tree[n].part)
  <2>1. n \in 0..Len(tree) /\ n # NULL BY <1>1 DEF NULL, N
  <2> QED BY <1>7, <2>1
<1>10. \A n \in 0..N : PathOf[n] \in Seq(Parts)
  <2> DEFINE Good == {n \in 0..N : PathOf[n] \in Seq(Parts)}
  <2>1. 0 \in Good
    <3>1. 0 \in 0..N BY <1>1
    <3> QED BY <1>3, <1>8, <3>1
  <2>2. ASSUME NEW n \in 1..N, ParentPtr[n] \in Good PROVE n \in Good
    <3>1. PathOf[tree[n].parent] \in Seq(Parts) BY <2>2 DEF ParentPtr, N
    <3>2. tree[n].part \in Parts BY <1>1, NodeFacts
    <3>3. Append(PathOf[tree[n].parent], tree[n].part) \in Seq(Parts)
      BY <3>1, <3>2, AppendProperties
    <3>4. n \in 0..N BY <1>1
    <3>5. PathOf[n] \in Seq(Parts) BY <1>9, <3>3, Zenon
    <3> QED BY <3>4, <3>5
  <2> HIDE DEF Good
  <2>3. \A n \in 0..N : n \in Good BY <1>4, <2>1, <2>2, Carried
  <2> QED BY <2>3 DEF Good
<1>11. PathOf \in [0..Len(tree) -> Seq(Parts)] BY <1>7, <1>10 DEF N
<1> QED BY <1>1, <1>8, <1>9, <1>11

(* The nodes along a path, looked up part by part.                          *)
Lookups(f, path) ==
    f = [k \in 0..Len(path) |-> IF k = 0 THEN NULL ELSE Find(f[k - 1], path[k])]

(* The lookups of a path part by part exist, and stay in the tree.          *)
LEMMA LookedUp ==
    ASSUME Shape, NEW path \in Seq(Parts)
    PROVE  \E f \in [0..Len(path) -> 0..Len(tree)] :
               Lookups(f, path) /\ Descend(path) = f[Len(path)]
<1> DEFINE N == Len(path)
           S == 0..Len(tree)
           step == [q \in S \X (1..N) |-> Find(q[1], path[q[2]])]
<1>1. N \in Nat /\ Len(tree) \in Nat BY NodeFacts
<1>2. step \in [S \X (1..N) -> S]
  <2>1. ASSUME NEW q \in S \X (1..N) PROVE Find(q[1], path[q[2]]) \in S
    BY FindIs
  <2> QED BY <2>1
<1>3. 0 \in S BY <1>1
<1>4. Ranked(N, Before(N), Itself(N)) BY <1>1, CountingRanked
<1> HIDE DEF N, step, S
<1> PICK g : Follows(g, N, S, 0, Before(N), step)
  BY <1>2, <1>3, <1>4, Following
<1>5. ASSUME NEW n \in 1..N PROVE g[n] = Find(g[n - 1], path[n])
  <2>1. g[n] = step[<<g[Before(N)[n]], n>>] BY DEF Follows
  <2>2. Before(N)[n] = n - 1 /\ g[Before(N)[n]] \in S
    BY <1>4 DEF Before, Follows, Ranked
  <2>3. <<g[n - 1], n>> \in S \X (1..N) BY <2>2
  <2> QED BY <2>1, <2>2, <2>3 DEF step
<1>6. Lookups(g, path)
  <2>1. \A n \in 0..N : n # 0 => n \in 1..N BY <1>1
  <2>2. \A n \in 0..N : g[n] = IF n = 0 THEN NULL ELSE Find(g[n - 1], path[n])
    BY <1>5, <2>1 DEF NULL, Follows
  <2>3. g \in [0..N -> S] BY DEF Follows
  <2> QED BY <2>2, <2>3 DEF N, Lookups
<1>7. PICK f : Lookups(f, path) /\ Descend(path) = f[Len(path)]
  BY <1>6 DEF Descend, Lookups
<1>8. f[0] = NULL /\ \A n \in 1..N : f[n] = Find(f[n - 1], path[n])
  <2>1. 0 \in 0..N /\ \A n \in 1..N : n \in 0..N /\ n # 0 BY <1>1
  <2> QED BY <1>7, <2>1 DEF Lookups, N
<1>9. \A n \in 0..N : f[n] \in S
  <2> DEFINE Good == {n \in 0..N : f[n] \in S}
  <2>1. 0 \in Good
    <3>1. 0 \in 0..N BY <1>1
    <3> QED BY <1>3, <1>8, <3>1 DEF NULL
  <2>2. ASSUME NEW n \in 1..N, Before(N)[n] \in Good PROVE n \in Good
    <3>1. f[n - 1] \in S BY <2>2 DEF Before
    <3>2. n \in 0..N BY <1>1
    <3>3. Find(f[n - 1], path[n]) \in S BY <3>1, FindIs DEF S
    <3> QED BY <1>8, <3>2, <3>3
  <2> HIDE DEF Good
  <2>3. \A n \in 0..N : n \in Good BY <1>4, <2>1, <2>2, Carried
  <2> QED BY <2>3 DEF Good
<1> QED BY <1>7, <1>9 DEF Lookups, N, S

(* Going down by no part stays at the top; by one more part looks that part *)
(* up.                                                                      *)
LEMMA Descending ==
    ASSUME Shape
    PROVE  /\ Descend(<<>>) = NULL
           /\ \A path \in Seq(Parts) : Descend(path) \in 0..Len(tree)
           /\ \A path \in Seq(Parts) : \A part \in Parts :
                  Descend(Append(path, part)) = Find(Descend(path), part)
<1>1. Descend(<<>>) = NULL
  <2>1. <<>> \in Seq(Parts) /\ Len(<<>>) = 0 OBVIOUS
  <2>2. PICK f : Lookups(f, <<>>) /\ Descend(<<>>) = f[0] BY <2>1, LookedUp
  <2> QED BY <2>1, <2>2 DEF Lookups
<1>2. \A path \in Seq(Parts) : Descend(path) \in 0..Len(tree)
  <2> SUFFICES ASSUME NEW path \in Seq(Parts) PROVE Descend(path) \in 0..Len(tree) OBVIOUS
  <2>1. PICK f \in [0..Len(path) -> 0..Len(tree)] : Descend(path) = f[Len(path)]
    BY LookedUp
  <2>2. Len(path) \in 0..Len(path) OBVIOUS
  <2> QED BY <2>1, <2>2
<1>3. ASSUME NEW path \in Seq(Parts), NEW part \in Parts
      PROVE  Descend(Append(path, part)) = Find(Descend(path), part)
  <2> DEFINE longer == Append(path, part)
             N == Len(path)
  <2>1. /\ longer \in Seq(Parts) /\ Len(longer) = N + 1 /\ N \in Nat
        /\ longer[N + 1] = part /\ \A k \in 1..N : longer[k] = path[k]
    BY AppendProperties
  <2>2. PICK f : Lookups(f, path) /\ Descend(path) = f[N] BY LookedUp
  <2>3. PICK g : Lookups(g, longer) /\ Descend(longer) = g[N + 1] BY <2>1, LookedUp
  <2> HIDE DEF longer, N
  <2>4. f[0] = NULL /\ \A k \in 1..N : f[k] = Find(f[k - 1], path[k])
    <3>1. 0 \in 0..N /\ \A k \in 1..N : k \in 0..N /\ k # 0 BY <2>1
    <3> QED BY <2>2, <3>1 DEF Lookups, N
  <2>5. g[0] = NULL /\ \A k \in 1..N + 1 : g[k] = Find(g[k - 1], longer[k])
    <3>1. 0 \in 0..N + 1 /\ \A k \in 1..N + 1 : k \in 0..N + 1 /\ k # 0 BY <2>1
    <3>2. g = [k \in 0..N + 1 |-> IF k = 0 THEN NULL ELSE Find(g[k - 1], longer[k])]
      BY <2>1, <2>3 DEF Lookups
    <3> QED BY <3>1, <3>2
  <2>6. \A k \in 0..N : f[k] = g[k]
    <3> DEFINE Good == {k \in 0..N : f[k] = g[k]}
    <3>1. 0 \in Good BY <2>1, <2>4, <2>5
    <3>2. ASSUME NEW k \in 1..N, Before(N)[k] \in Good PROVE k \in Good
      <4>1. k \in 1..N + 1 /\ k \in 0..N /\ k - 1 \in 0..N BY <2>1
      <4>2. f[k - 1] = g[k - 1] BY <3>2 DEF Before
      <4>3. f[k] = Find(f[k - 1], path[k]) BY <2>4
      <4>4. g[k] = Find(g[k - 1], path[k]) BY <2>1, <2>5, <4>1
      <4> QED BY <4>1, <4>2, <4>3, <4>4
    <3>3. Ranked(N, Before(N), Itself(N)) BY <2>1, CountingRanked
    <3> HIDE DEF Good
    <3>4. \A k \in 0..N : k \in Good BY <3>1, <3>2, <3>3, Carried
    <3> QED BY <3>4 DEF Good
  <2>7. g[N + 1] = Find(g[N], part)
    <3>1. N + 1 \in 1..N + 1 /\ (N + 1) - 1 = N BY <2>1
    <3> QED BY <2>1, <2>5, <3>1
  <2>8. g[N] = f[N] BY <2>1, <2>6
  <2> QED BY <2>2, <2>3, <2>7, <2>8 DEF longer
<1> QED BY <1>1, <1>2, <1>3

(* Going down by the path to a node leads to it, so no two share a path.    *)
LEMMA DescendToNode ==
    ASSUME Shape
    PROVE  /\ \A n \in 0..Len(tree) : Descend(PathOf[n]) = n
           /\ \A m, n \in 0..Len(tree) : PathOf[m] = PathOf[n] => m = n
<1> DEFINE Good == {n \in 0..Len(tree) : Descend(PathOf[n]) = n}
<1>1. Len(tree) \in Nat /\ Nodes = 1..Len(tree) BY NodeFacts
<1>2. 0 \in Good
  <2>1. 0 \in 0..Len(tree) BY <1>1
  <2> QED BY <2>1, PathTo, Descending DEF NULL
<1>3. ASSUME NEW n \in 1..Len(tree), ParentPtr[n] \in Good PROVE n \in Good
  <2> DEFINE l == tree[n].parent
  <2>1. n \in Nodes /\ n \in 0..Len(tree) BY <1>1
  <2>2. l \in 0..Len(tree) /\ tree[n].part \in Parts BY <2>1, NodeFacts
  <2>3. Descend(PathOf[l]) = l BY <1>3 DEF ParentPtr
  <2>4. PathOf[l] \in Seq(Parts) /\ PathOf[n] = Append(PathOf[l], tree[n].part)
    BY <2>1, <2>2, PathTo
  <2>5. Descend(PathOf[n]) = Find(l, tree[n].part) BY <2>2, <2>3, <2>4, Descending
  <2>6. Find(l, tree[n].part) = n BY <2>1, <2>2, FindIs
  <2> QED BY <2>1, <2>5, <2>6
<1>4. \A n \in 0..Len(tree) : n \in Good
  <2> HIDE DEF Good
  <2> QED BY <1>2, <1>3, PointersRanked, Carried
<1>5. \A n \in 0..Len(tree) : Descend(PathOf[n]) = n BY <1>4
<1>6. ASSUME NEW m \in 0..Len(tree), NEW n \in 0..Len(tree), PathOf[m] = PathOf[n]
      PROVE  m = n
  BY <1>5, <1>6
<1> QED BY <1>5, <1>6

(* A sequence with each of its elements where the other ends.               *)
EndsWith(t, s) ==
    Len(s) <= Len(t) /\ \A i \in 1..Len(s) : s[i] = t[Len(t) - Len(s) + i]

(* EndsWith is IsSuffix.                                                    *)
LEMMA SuffixByElements ==
    ASSUME NEW S, NEW s \in Seq(S), NEW t \in Seq(S), EndsWith(t, s)
    PROVE  IsSuffix(s, t)
<1> USE DEF EndsWith
<1> DEFINE rs == Reverse(s)
           rt == Reverse(t)
<1>1. /\ Len(s) \in Nat /\ Len(t) \in Nat
      /\ rs = [i \in 1..Len(s) |-> s[(Len(s) - i) + 1]]
      /\ rt = [i \in 1..Len(t) |-> t[(Len(t) - i) + 1]]
  BY DEF Reverse
<1>2. rs \in Seq(S) /\ rt \in Seq(S) /\ Len(rs) = Len(s) /\ Len(rt) = Len(t)
  <2>1. \A i \in 1..Len(s) : s[(Len(s) - i) + 1] \in S
    <3>1. \A i \in 1..Len(s) : (Len(s) - i) + 1 \in 1..Len(s) BY <1>1
    <3> QED BY <3>1, ElementOfSeq
  <2>2. \A i \in 1..Len(t) : t[(Len(t) - i) + 1] \in S
    <3>1. \A i \in 1..Len(t) : (Len(t) - i) + 1 \in 1..Len(t) BY <1>1
    <3> QED BY <3>1, ElementOfSeq
  <2> QED BY <1>1, <2>1, <2>2
<1> HIDE DEF rs, rt
<1>3. \A i \in 1..Len(s) : rs[i] = rt[i]
  <2> SUFFICES ASSUME NEW i \in 1..Len(s) PROVE rs[i] = rt[i] OBVIOUS
  <2>1. (Len(s) - i) + 1 \in 1..Len(s) /\ i \in 1..Len(t) BY <1>1
  <2>2. s[(Len(s) - i) + 1] = t[Len(t) - Len(s) + ((Len(s) - i) + 1)] BY <2>1
  <2>3. Len(t) - Len(s) + ((Len(s) - i) + 1) = (Len(t) - i) + 1 BY <1>1
  <2> QED BY <1>1, <2>1, <2>2, <2>3
<1>4. SubSeq(rs, 1, Len(rs)) = SubSeq(rt, 1, Len(rs))
  <2>1. /\ SubSeq(rs, 1, Len(rs)) \in Seq(S) /\ Len(SubSeq(rs, 1, Len(rs))) = Len(s)
        /\ SubSeq(rt, 1, Len(rs)) \in Seq(S) /\ Len(SubSeq(rt, 1, Len(rs))) = Len(s)
        /\ \A i \in 1..Len(s) : /\ SubSeq(rs, 1, Len(rs))[i] = rs[i]
                                /\ SubSeq(rt, 1, Len(rs))[i] = rt[i]
    BY <1>1, <1>2
  <2> QED BY <1>3, <2>1, SeqEqual
<1> QED BY <1>2, <1>4 DEF IsSuffix, IsPrefix, rs, rt

(* Whatever going down by a path leads to, the path ends with its path.     *)
LEMMA DescendEnds ==
    ASSUME Shape, NEW path \in Seq(Parts)
    PROVE  IsSuffix(PathOf[Descend(path)], path)
<1> DEFINE Good == {L \in Nat : \A p \in Seq(Parts) :
                                    Len(p) = L => EndsWith(p, PathOf[Descend(p)])}
<1>1. Len(tree) \in Nat /\ Nodes = 1..Len(tree) BY NodeFacts
<1>2. \A p \in Seq(Parts) :
          Descend(p) \in 0..Len(tree) /\ PathOf[Descend(p)] \in Seq(Parts)
  BY Descending, PathTo
<1>3. 0 \in Good
  <2> SUFFICES ASSUME NEW p \in Seq(Parts), Len(p) = 0
               PROVE  EndsWith(p, PathOf[Descend(p)])
    OBVIOUS
  <2>1. p = <<>> OBVIOUS
  <2>2. PathOf[Descend(p)] = <<>> BY <2>1, Descending, PathTo DEF NULL
  <2> QED BY <2>1, <2>2 DEF EndsWith
<1>4. ASSUME NEW L \in Nat, L \in Good PROVE L + 1 \in Good
  <2> SUFFICES ASSUME NEW q \in Seq(Parts), Len(q) = L + 1
               PROVE  EndsWith(q, PathOf[Descend(q)])
    OBVIOUS
  <2>1. q # <<>> OBVIOUS
  <2>2. PICK p \in Seq(Parts), part \in Parts : q = Append(p, part)
    BY <2>1, SequenceEmptyOrAppend
  <2>3. Len(p) = L /\ q[L + 1] = part /\ \A i \in 1..L : q[i] = p[i]
    BY <2>2, AppendProperties
  <2> DEFINE l == Descend(p)
             n == Descend(q)
             s == PathOf[l]
  <2>4. EndsWith(p, s) BY <1>4, <2>3
  <2>5. n = Find(l, part) /\ l \in 0..Len(tree) /\ n \in 0..Len(tree)
    BY <1>2, <2>2, Descending
  <2>6. CASE n = NULL
    <3>1. PathOf[n] = <<>> BY <2>6, PathTo DEF NULL
    <3> QED BY <3>1 DEF EndsWith
  <2>7. CASE n # NULL
    <3>1. n \in Nodes /\ tree[n].parent = l /\ tree[n].part = part
      BY <2>5, <2>7, FindIs
    <3>2. PathOf[n] = Append(s, part) BY <3>1, PathTo
    <3>3. s \in Seq(Parts) BY <1>2
    <3> HIDE DEF s
    <3>4. Len(Append(s, part)) = Len(s) + 1 /\ Len(s) \in Nat
          /\ Append(s, part)[Len(s) + 1] = part
          /\ \A i \in 1..Len(s) : Append(s, part)[i] = s[i]
      BY <3>3, AppendProperties
    <3>5. EndsWith(q, Append(s, part))
      <4>1. Len(s) <= L /\ \A i \in 1..Len(s) : s[i] = p[L - Len(s) + i]
        BY <2>3, <2>4 DEF EndsWith
      <4>2. ASSUME NEW i \in 1..(Len(s) + 1)
            PROVE  Append(s, part)[i] = q[(L + 1) - (Len(s) + 1) + i]
        <5>1. CASE i = Len(s) + 1
          <6>1. (L + 1) - (Len(s) + 1) + i = L + 1 BY <3>4, <5>1
          <6> QED BY <2>3, <3>4, <5>1, <6>1
        <5>2. CASE i # Len(s) + 1
          <6>1. i \in 1..Len(s) BY <3>4, <5>2
          <6>2. (L + 1) - (Len(s) + 1) + i = L - Len(s) + i /\ L - Len(s) + i \in 1..L
            BY <3>4, <4>1, <6>1
          <6> QED BY <2>3, <3>4, <4>1, <6>1, <6>2
        <5> QED BY <5>1, <5>2
      <4> QED BY <3>4, <4>1, <4>2 DEF EndsWith
    <3> QED BY <3>2, <3>5
  <2> QED BY <2>6, <2>7
<1>5. \A L \in Nat : L \in Good
  <2> HIDE DEF Good
  <2> QED BY <1>3, <1>4, Induction
<1>6. EndsWith(path, PathOf[Descend(path)])
  <2>1. Len(path) \in Nat OBVIOUS
  <2> QED BY <1>5, <2>1
<1> QED BY <1>2, <1>6, SuffixByElements

-----------------------------------------------------------------------------
(* Adding a part.                                                           *)

Records == [part : Parts, parent : Nat, child : Nat, sibling : Nat]

(* What a new node does to the others: one of them points to it.            *)
LEMMA AddedNode ==
    ASSUME Shape, NEW l \in 0..Len(tree), NEW part \in Parts, AddTopicPart(l, part)
    PROVE  LET new == Len(tree) + 1 IN
           /\ tree' \in Seq(Records) /\ Len(tree') = new /\ Nodes' = Nodes \cup {new}
           /\ root' = 1
           /\ tree'[new] = [part |-> part, parent |-> l, child |-> NULL, sibling |-> NULL]
           /\ \A n \in Nodes :
                 /\ tree'[n].part = tree[n].part /\ tree'[n].parent = tree[n].parent
                 /\ tree'[n].child = IF First(l) = NULL /\ n = l THEN new
                                                                 ELSE tree[n].child
                 /\ tree'[n].sibling =
                        IF First(l) # NULL /\ n = Last(Siblings[First(l)])
                        THEN new ELSE tree[n].sibling
<1> DEFINE new == Len(tree) + 1
           node == [part |-> part, parent |-> l, child |-> NULL, sibling |-> NULL]
           last == Last(Siblings[First(l)])
           Described(t) ==
               /\ t \in Seq(Records) /\ Len(t) = Len(tree)
               /\ \A n \in Nodes :
                     /\ t[n].part = tree[n].part /\ t[n].parent = tree[n].parent
                     /\ t[n].child = IF First(l) = NULL /\ n = l THEN new ELSE tree[n].child
                     /\ t[n].sibling = IF First(l) # NULL /\ n = last
                                       THEN new ELSE tree[n].sibling
           old == CASE First(l) # NULL -> Attach(First(l), new)
                    [] First(l) = NULL /\ l # NULL -> [tree EXCEPT ![l].child = new]
                    [] OTHER -> tree
<1>1. /\ tree \in Seq(Records) /\ Len(tree) \in Nat /\ Nodes = 1..Len(tree)
      /\ new \in Nat /\ DOMAIN tree = Nodes
      /\ \A n \in Nodes : tree[n] \in Records
  <2>1. tree \in Seq(Records) BY DEF Shape, Records
  <2>2. Len(tree) \in Nat /\ DOMAIN tree = 1..Len(tree) BY <2>1
  <2>3. \A n \in Nodes : tree[n] \in Records BY NodeFacts DEF Records
  <2> QED BY <2>1, <2>2, <2>3 DEF Nodes
<1>2. ASSUME First(l) # NULL PROVE Described(old)
  <2>1. last \in Nodes
    <3>1. Chained(Siblings[First(l)], l) /\ Siblings[First(l)] # <<>> BY <1>2, Below
    <3>2. Siblings[First(l)] \in Seq(Nodes) BY <3>1 DEF Chained
    <3>3. Len(Siblings[First(l)]) \in 1..Len(Siblings[First(l)])
      BY <3>1, <3>2, EmptySeq
    <3> QED BY <3>2, <3>3, ElementOfSeq DEF Last
  <2>2. old = [tree EXCEPT ![last].sibling = new] BY <1>2 DEF Attach
  <2> HIDE DEF last, old, new
  <2>3. [tree[last] EXCEPT !.sibling = new] \in Records BY <1>1, <2>1 DEF Records
  <2>4. old = [tree EXCEPT ![last] = [tree[last] EXCEPT !.sibling = new]] BY <2>2
  <2>5. /\ old \in Seq(Records) /\ Len(old) = Len(tree)
        /\ \A n \in Nodes : old[n] = IF n = last THEN [tree[last] EXCEPT !.sibling = new]
                                                 ELSE tree[n]
    BY <1>1, <2>1, <2>3, <2>4, ExceptSeq
  <2>6. ASSUME NEW n \in Nodes
        PROVE  /\ old[n].part = tree[n].part /\ old[n].parent = tree[n].parent
               /\ old[n].child = tree[n].child
               /\ old[n].sibling = IF n = last THEN new ELSE tree[n].sibling
    <3>1. tree[n] \in Records BY <1>1
    <3> QED BY <2>5, <3>1 DEF Records
  <2> QED BY <1>2, <2>5, <2>6
<1>3. ASSUME First(l) = NULL, l # NULL PROVE Described(old)
  <2>1. l \in Nodes BY <1>1, <1>3 DEF NULL
  <2>2. old = [tree EXCEPT ![l].child = new] BY <1>3
  <2> HIDE DEF last, old, new
  <2>3. [tree[l] EXCEPT !.child = new] \in Records BY <1>1, <2>1 DEF Records
  <2>4. old = [tree EXCEPT ![l] = [tree[l] EXCEPT !.child = new]] BY <2>2
  <2>5. /\ old \in Seq(Records) /\ Len(old) = Len(tree)
        /\ \A n \in Nodes : old[n] = IF n = l THEN [tree[l] EXCEPT !.child = new]
                                              ELSE tree[n]
    BY <1>1, <2>1, <2>3, <2>4, ExceptSeq
  <2>6. ASSUME NEW n \in Nodes
        PROVE  /\ old[n].part = tree[n].part /\ old[n].parent = tree[n].parent
               /\ old[n].child = IF n = l THEN new ELSE tree[n].child
               /\ old[n].sibling = tree[n].sibling
    <3>1. tree[n] \in Records BY <1>1
    <3> QED BY <2>5, <3>1 DEF Records
  <2> QED BY <1>3, <2>5, <2>6
<1>4. ASSUME First(l) = NULL, l = NULL PROVE Described(old)
  <2>1. old = tree BY <1>4
  <2>2. \A n \in Nodes : n # l BY <1>1, <1>4 DEF NULL
  <2> QED BY <1>1, <1>4, <2>1, <2>2
<1>5. Described(old) BY <1>2, <1>3, <1>4
<1>6. tree' = Append(old, node) BY DEF AddTopicPart
<1>7. node \in Records
  <2>1. l \in Nat BY <1>1
  <2> QED BY <2>1 DEF Records, NULL
<1>8. /\ tree' \in Seq(Records) /\ Len(tree') = new /\ tree'[new] = node
      /\ \A n \in Nodes : tree'[n] = old[n]
  <2> HIDE DEF old, node, last
  <2> QED BY <1>1, <1>5, <1>6, <1>7, AppendProperties
<1>9. Nodes' = Nodes \cup {new} BY <1>1, <1>8 DEF Nodes
<1>10. root' = 1
  <2>1. root' = IF root = NULL THEN new ELSE root BY DEF AddTopicPart
  <2>2. root = IF tree = <<>> THEN NULL ELSE 1 BY DEF Shape
  <2>3. tree = <<>> => new = 1 OBVIOUS
  <2> QED BY <2>1, <2>2, <2>3 DEF NULL
<1> HIDE DEF old, node
<1> QED BY <1>5, <1>8, <1>9, <1>10 DEF node

(* A part that is not there yet can be added.                               *)
LEMMA ShapeKept ==
    ASSUME Shape, NEW l \in 0..Len(tree), NEW part \in Parts, AddTopicPart(l, part),
           Find(l, part) = NULL
    PROVE  Shape'
<1> DEFINE new == Len(tree) + 1
           last == Last(Siblings[First(l)])
           F(m) == IF m = NULL THEN root' ELSE tree'[m].child
<1>1. /\ tree' \in Seq(Records) /\ Len(tree') = new /\ Nodes' = Nodes \cup {new}
      /\ root' = 1
      /\ tree'[new] = [part |-> part, parent |-> l, child |-> NULL, sibling |-> NULL]
      /\ \A n \in Nodes :
            /\ tree'[n].part = tree[n].part /\ tree'[n].parent = tree[n].parent
            /\ tree'[n].child = IF First(l) = NULL /\ n = l THEN new ELSE tree[n].child
            /\ tree'[n].sibling = IF First(l) # NULL /\ n = last
                                  THEN new ELSE tree[n].sibling
  BY AddedNode
<1>2. /\ Len(tree) \in Nat /\ Nodes = 1..Len(tree) /\ new \notin Nodes /\ new # NULL
      /\ new \in Nodes' /\ Nodes \subseteq Nodes' /\ \A n \in Nodes : n < new
  BY <1>1, NodeFacts DEF NULL
<1>3. First(l) # NULL => last \in Nodes /\ tree[last].parent = l /\ tree[last].sibling = NULL
  <2> SUFFICES ASSUME First(l) # NULL
               PROVE  last \in Nodes /\ tree[last].parent = l /\ tree[last].sibling = NULL
    OBVIOUS
  <2>1. Chained(Siblings[First(l)], l) /\ Siblings[First(l)] # <<>> BY Below
  <2>2. Siblings[First(l)] \in Seq(Nodes) BY <2>1 DEF Chained
  <2>3. Len(Siblings[First(l)]) \in 1..Len(Siblings[First(l)]) BY <2>1, <2>2, EmptySeq
  <2> QED BY <2>1, <2>2, <2>3, ElementOfSeq DEF Last, Chained
<1> HIDE DEF new, last
<1>4. tree'[new].parent = l /\ tree'[new].part = part
      /\ tree'[new].child = NULL /\ tree'[new].sibling = NULL
  BY <1>1
<1>5. root' = IF tree' = <<>> THEN NULL ELSE 1
  <2>1. Len(tree') > 0 BY <1>1, <1>2 DEF new
  <2>2. tree' # <<>> BY <2>1
  <2> QED BY <1>1, <2>2
<1>6. First(l) = NULL => \A n \in Nodes : tree[n].parent # l
  <2> SUFFICES ASSUME First(l) = NULL, NEW n \in Nodes, tree[n].parent = l PROVE FALSE
    OBVIOUS
  <2>1. Siblings[First(l)] = <<>> BY Below
  <2>2. PICK i \in 1..Len(Siblings[First(l)]) : TRUE BY Below
  <2> QED BY <2>1, <2>2
<1>7. \A m \in 0..Len(tree) : F(m) = IF First(l) = NULL /\ m = l THEN new ELSE First(m)
  <2> SUFFICES ASSUME NEW m \in 0..Len(tree)
               PROVE  F(m) = IF First(l) = NULL /\ m = l THEN new ELSE First(m)
    OBVIOUS
  <2>1. CASE m = NULL
    <3>1. First(m) = root /\ F(m) = root' BY <2>1 DEF First
    <3>2. root = IF tree = <<>> THEN NULL ELSE 1 BY DEF Shape
    <3>3. tree = <<>> => new = 1 /\ l = NULL BY DEF new, NULL
    <3>4. root = NULL => tree = <<>> BY <3>2 DEF NULL
    <3> QED BY <1>1, <2>1, <3>1, <3>2, <3>3, <3>4
  <2>2. CASE m # NULL
    <3>1. m \in Nodes BY <1>2, <2>2 DEF NULL
    <3>2. First(m) = tree[m].child /\ F(m) = tree'[m].child BY <2>2 DEF First
    <3> QED BY <1>1, <3>1, <3>2
  <2> QED BY <2>1, <2>2
<1>8. ASSUME NEW n \in Nodes'
      PROVE  /\ tree'[n].parent < n
             /\ tree'[n].child # NULL => /\ n < tree'[n].child /\ tree'[n].child \in Nodes'
                                         /\ tree'[tree'[n].child].parent = n
             /\ tree'[n].sibling # NULL =>
                   /\ n < tree'[n].sibling /\ tree'[n].sibling \in Nodes'
                   /\ tree'[tree'[n].sibling].parent = tree'[n].parent
  <2>1. CASE n \in Nodes
    <3>1. /\ tree[n].parent < n
          /\ tree[n].child # NULL => /\ n < tree[n].child /\ tree[n].child \in Nodes
                                     /\ tree[tree[n].child].parent = n
          /\ tree[n].sibling # NULL => /\ n < tree[n].sibling /\ tree[n].sibling \in Nodes
                                       /\ tree[tree[n].sibling].parent = tree[n].parent
      BY <2>1 DEF Shape
    <3>2. tree'[n].parent < n BY <1>1, <2>1, <3>1
    <3>3. tree'[n].child # NULL => /\ n < tree'[n].child /\ tree'[n].child \in Nodes'
                                   /\ tree'[tree'[n].child].parent = n
      <4>1. CASE First(l) = NULL /\ n = l
        <5>1. tree'[n].child = new BY <1>1, <2>1, <4>1
        <5> QED BY <1>2, <1>4, <2>1, <4>1, <5>1
      <4>2. CASE ~(First(l) = NULL /\ n = l)
        <5>1. tree'[n].child = tree[n].child BY <1>1, <2>1, <4>2
        <5> QED BY <1>1, <1>2, <3>1, <5>1
      <4> QED BY <4>1, <4>2
    <3>4. tree'[n].sibling # NULL => /\ n < tree'[n].sibling /\ tree'[n].sibling \in Nodes'
                                     /\ tree'[tree'[n].sibling].parent = tree'[n].parent
      <4>1. CASE First(l) # NULL /\ n = last
        <5>1. tree'[n].sibling = new /\ tree'[n].parent = l BY <1>1, <1>3, <2>1, <4>1
        <5> QED BY <1>2, <1>4, <2>1, <5>1
      <4>2. CASE ~(First(l) # NULL /\ n = last)
        <5>1. tree'[n].sibling = tree[n].sibling BY <1>1, <2>1, <4>2
        <5> QED BY <1>1, <1>2, <2>1, <3>1, <5>1
      <4> QED BY <4>1, <4>2
    <3> QED BY <3>2, <3>3, <3>4
  <2>2. CASE n = new
    <3>1. l < new BY <1>2 DEF new
    <3> QED BY <1>4, <2>2, <3>1
  <2> QED BY <1>1, <2>1, <2>2
<1>9. ASSUME NEW n \in Nodes'
      PROVE  n = F(tree'[n].parent) \/ \E m \in Nodes' : tree'[m].sibling = n
  <2>1. CASE n \in Nodes
    <3>1. tree'[n].parent = tree[n].parent /\ tree[n].parent \in 0..Len(tree)
      BY <1>1, <2>1, NodeFacts
    <3>2. n = First(tree[n].parent) \/ \E m \in Nodes : tree[m].sibling = n
      BY <2>1 DEF Shape
    <3>3. CASE n = First(tree[n].parent)
      <4>1. ~(First(l) = NULL /\ tree[n].parent = l) BY <1>6, <2>1
      <4> QED BY <1>7, <3>1, <3>3, <4>1
    <3>4. CASE \E m \in Nodes : tree[m].sibling = n
      <4>1. PICK m \in Nodes : tree[m].sibling = n BY <3>4
      <4>2. n # NULL BY <1>2, <2>1 DEF NULL
      <4>3. tree'[m].sibling = n BY <1>1, <1>3, <4>1, <4>2
      <4> QED BY <1>2, <4>3
    <3> QED BY <3>2, <3>3, <3>4
  <2>2. CASE n = new
    <3>1. CASE First(l) = NULL BY <1>4, <1>7, <2>2, <3>1
    <3>2. CASE First(l) # NULL
      <4>1. last \in Nodes' /\ tree'[last].sibling = new BY <1>1, <1>2, <1>3, <3>2
      <4> QED BY <2>2, <4>1
    <3> QED BY <3>1, <3>2
  <2> QED BY <1>1, <2>1, <2>2
<1>10. ASSUME NEW m \in Nodes', NEW n \in Nodes',
              tree'[m].parent = tree'[n].parent, tree'[m].part = tree'[n].part
       PROVE  m = n
  <2>1. \A k \in Nodes : ~(tree[k].parent = l /\ tree[k].part = part)
    <3> SUFFICES ASSUME NEW k \in Nodes, tree[k].parent = l, tree[k].part = part
                 PROVE  FALSE
      OBVIOUS
    <3>1. Find(l, part) = k BY FindIs
    <3> QED BY <1>2, <3>1 DEF NULL
  <2>2. CASE m \in Nodes /\ n \in Nodes
    <3>1. tree[m].parent = tree[n].parent /\ tree[m].part = tree[n].part
      BY <1>1, <1>10, <2>2
    <3> QED BY <2>2, <3>1 DEF Shape
  <2>3. CASE m = new /\ n \in Nodes BY <1>1, <1>4, <1>10, <2>1, <2>3
  <2>4. CASE m \in Nodes /\ n = new BY <1>1, <1>4, <1>10, <2>1, <2>4
  <2> QED BY <1>1, <2>2, <2>3, <2>4
<1> HIDE DEF F
<1>11. tree' \in Seq([part : Parts, parent : Nat, child : Nat, sibling : Nat])
  BY <1>1 DEF Records
<1> QED BY <1>5, <1>8, <1>9, <1>10, <1>11 DEF Shape, First, F

(* The paths of the nodes that were there stay, and the new one's is the    *)
(* path it was added for.                                                   *)
PathFacts ==
    /\ PathOf \in [0..Len(tree) -> Seq(Parts)]
    /\ PathOf[0] = <<>>
    /\ \A n \in Nodes : PathOf[n] = Append(PathOf[tree[n].parent], tree[n].part)

(* PathTo in the next state.                                                *)
LEMMA PathToNext == Shape' => PathFacts'
<1>1. Shape => PathFacts BY PathTo DEF PathFacts
<1> QED BY <1>1, PTL

NodesCounted == Len(tree) \in Nat /\ Nodes = 1..Len(tree)

(* The nodes in the next state are numbered from 1 on.                      *)
LEMMA NodesNext == Shape' => Len(tree') \in Nat /\ Nodes' = 1..Len(tree')
<1>1. Shape => NodesCounted BY NodeFacts DEF NodesCounted
<1>2. Shape' => NodesCounted' BY <1>1, PTL
<1> QED BY <1>2 DEF NodesCounted

(* Adding a part leaves the paths there are and gives the new node the path *)
(* it was added for.                                                        *)
LEMMA PathsKept ==
    ASSUME Shape, Shape', NEW l \in 0..Len(tree), NEW part \in Parts, AddTopicPart(l, part)
    PROVE  /\ \A n \in 0..Len(tree) : PathOf'[n] = PathOf[n]
           /\ PathOf'[Len(tree) + 1] = Append(PathOf[l], part)
<1> DEFINE N == Len(tree)
           new == N + 1
<1>1. /\ Nodes' = Nodes \cup {new} /\ Nodes = 1..N /\ N \in Nat
      /\ tree'[new].parent = l /\ tree'[new].part = part
      /\ \A n \in Nodes : tree'[n].part = tree[n].part /\ tree'[n].parent = tree[n].parent
  <2>1. tree'[new] = [part |-> part, parent |-> l, child |-> NULL, sibling |-> NULL]
    BY AddedNode
  <2>2. tree'[new].parent = l /\ tree'[new].part = part BY <2>1
  <2> QED BY <2>2, AddedNode, NodeFacts
<1>2. /\ PathOf'[0] = <<>>
      /\ \A n \in Nodes' : PathOf'[n] = Append(PathOf'[tree'[n].parent], tree'[n].part)
  BY PathToNext DEF PathFacts
<1>3. \A n \in 0..N : PathOf'[n] = PathOf[n]
  <2> DEFINE Good == {n \in 0..N : PathOf'[n] = PathOf[n]}
  <2>1. 0 \in Good BY <1>1, <1>2, PathTo
  <2>2. ASSUME NEW n \in 1..N, ParentPtr[n] \in Good PROVE n \in Good
    <3>1. PathOf'[tree[n].parent] = PathOf[tree[n].parent] BY <2>2 DEF ParentPtr
    <3>2. n \in Nodes /\ n \in 0..N BY <1>1
    <3>3. PathOf[n] = Append(PathOf[tree[n].parent], tree[n].part) BY <3>2, PathTo
    <3>4. PathOf'[n] = Append(PathOf'[tree[n].parent], tree[n].part) BY <1>1, <1>2, <3>2
    <3> QED BY <3>1, <3>2, <3>3, <3>4
  <2> HIDE DEF Good
  <2>3. \A n \in 0..N : n \in Good BY <2>1, <2>2, PointersRanked, Carried
  <2> QED BY <2>3 DEF Good
<1>4. PathOf'[new] = Append(PathOf[l], part) BY <1>1, <1>2, <1>3
<1> QED BY <1>3, <1>4

(* What leads to a path with one more part.                                 *)
LEMMA PathsToAppend ==
    ASSUME NEW path \in Seq(Parts), NEW part \in Parts
    PROVE  /\ PathsTo(Append(path, part)) = PathsTo(path) \cup {Append(path, part)}
           /\ PathsTo(<<>>) = {}
<1> DEFINE longer == Append(path, part)
           N == Len(path)
<1>1. /\ longer \in Seq(Parts) /\ Len(longer) = N + 1 /\ N \in Nat
      /\ \A k \in 1..N : longer[k] = path[k]
  BY AppendProperties
<1>2. SubSeq(longer, 1, N + 1) = longer BY <1>1, SubSeqFull
<1>3. ASSUME NEW k \in 1..N PROVE SubSeq(longer, 1, k) = SubSeq(path, 1, k)
  <2> HIDE DEF longer
  <2>1. /\ SubSeq(longer, 1, k) \in Seq(Parts) /\ Len(SubSeq(longer, 1, k)) = k
        /\ SubSeq(path, 1, k) \in Seq(Parts) /\ Len(SubSeq(path, 1, k)) = k
        /\ \A i \in 1..k : SubSeq(longer, 1, k)[i] = longer[i] /\ SubSeq(path, 1, k)[i] = path[i]
    BY <1>1
  <2> QED BY <1>1, <2>1, SeqEqual
<1>4. 1..(N + 1) = (1..N) \cup {N + 1} BY <1>1
<1>5. PathsTo(longer) = PathsTo(path) \cup {longer}
  <2> HIDE DEF longer
  <2>1. PathsTo(longer) = {SubSeq(longer, 1, k) : k \in 1..(N + 1)} BY <1>1 DEF PathsTo
  <2>2. PathsTo(path) = {SubSeq(path, 1, k) : k \in 1..N} BY DEF PathsTo
  <2> HIDE DEF N
  <2> QED BY <1>2, <1>3, <1>4, <2>1, <2>2
<1>6. PathsTo(<<>>) = {} BY DEF PathsTo
<1> QED BY <1>5, <1>6

PathsOfNodes == {PathOf[n] : n \in Nodes}

(* Where AddPart leaves the part: at a node with the path it belongs to.    *)
LEMMA PartPlaced ==
    ASSUME Shape, Building, AddPart
    PROVE  LET part == Head(Head(todo))
               path == Append(PathOf[level], part)
               at   == IF Find(level, part) = NULL THEN Len(tree) + 1 ELSE Find(level, part)
           IN  /\ Shape' /\ part \in Parts
               /\ at \in Nodes' /\ PathOf'[at] = path /\ PathOf[level] \in Seq(Parts)
               /\ PathsOfNodes' = PathsOfNodes \cup {path}
<1> DEFINE part == Head(Head(todo))
           there == Find(level, part)
           path == Append(PathOf[level], part)
           new == Len(tree) + 1
           at == IF there = NULL THEN new ELSE there
<1>1. part \in Parts
  <2>1. Head(todo) \in Seq(Parts) \ {<<>>} BY HeadTailProperties DEF AddPart, Building
  <2> QED BY <2>1, HeadTailProperties
<1>2. level \in 0..Len(tree) /\ Len(tree) \in Nat /\ Nodes = 1..Len(tree)
  BY NodeFacts DEF Building
<1>3. PathOf[level] \in Seq(Parts) BY <1>2, PathTo
<1>4. CASE there = NULL
  <2>1. AddTopicPart(level, part) BY <1>4 DEF AddPart
  <2>2. Shape' BY <1>1, <1>2, <1>4, <2>1, ShapeKept
  <2>3. Nodes' = Nodes \cup {new} BY <1>1, <1>2, <2>1, AddedNode
  <2>4. \A n \in 0..Len(tree) : PathOf'[n] = PathOf[n]
    BY <1>1, <1>2, <2>1, <2>2, PathsKept
  <2>5. PathOf'[new] = path BY <1>1, <1>2, <2>1, <2>2, PathsKept
  <2>6. PathsOfNodes' = PathsOfNodes \cup {path}
    <3>1. \A n \in Nodes : PathOf'[n] = PathOf[n] BY <1>2, <2>4
    <3>2. PathsOfNodes' = {PathOf'[n] : n \in Nodes \cup {new}} BY <2>3 DEF PathsOfNodes
    <3> HIDE DEF path, new
    <3> QED BY <2>5, <3>1, <3>2 DEF PathsOfNodes
  <2> QED BY <1>1, <1>3, <1>4, <2>2, <2>3, <2>5, <2>6
<1>5. CASE there # NULL
  <2>1. UNCHANGED <<tree, root>> BY <1>5 DEF AddPart
  <2>2. Shape' BY <2>1 DEF Shape, Nodes, First
  <2>3. Nodes' = Nodes /\ PathOf' = PathOf BY <2>1 DEF Nodes, PathOf
  <2>4. there \in Nodes /\ tree[there].parent = level /\ tree[there].part = part
    BY <1>2, <1>5, FindIs
  <2>5. PathOf[there] = path BY <2>4, PathTo
  <2>6. PathsOfNodes' = PathsOfNodes /\ path \in PathsOfNodes
    BY <2>3, <2>4, <2>5 DEF PathsOfNodes
  <2> QED BY <1>1, <1>3, <1>5, <2>2, <2>3, <2>4, <2>5, <2>6
<1> QED BY <1>4, <1>5

(* A turn of the host's loop adds the part it has got to and no other path. *)
LEMMA BuildingKept ==
    ASSUME Shape, Building, AddPart
    PROVE  Building'
<1> DEFINE topic1 == Head(todo)
           part == Head(topic1)
           rest == Tail(topic1)
           path == Append(PathOf[level], part)
           at == IF Find(level, part) = NULL THEN Len(tree) + 1 ELSE Find(level, part)
           T == Seq(Parts) \ {<<>>}
           Names2 == UNION {PathsTo(setup[i]) : i \in 1..Done}
<1>1. /\ part \in Parts /\ at \in Nodes' /\ PathOf'[at] = path /\ PathOf[level] \in Seq(Parts)
      /\ PathsOfNodes' = PathsOfNodes \cup {path} /\ Shape'
  BY PartPlaced
<1>2. /\ setup \in Setups /\ setup \in Seq(T) /\ todo \in Seq(T) /\ todo # <<>>
      /\ Len(todo) \in Nat /\ Len(todo) >= 1 /\ Len(todo) <= Len(setup) /\ Len(setup) \in Nat
      /\ setup' = setup /\ setup[Done + 1] = PathOf[level] \o topic1
      /\ \A k \in 2..Len(todo) : todo[k] = setup[Done + k]
      /\ PathsOfNodes = Names2 \cup PathsTo(PathOf[level])
  <2>1. setup \in Setups /\ todo \in Seq(T) /\ todo # <<>> /\ Len(todo) <= Len(setup)
    BY DEF Building, AddPart
  <2>2. setup \in Seq(T) BY <2>1, InputsAssumption
  <2>3. Len(todo) \in Nat /\ Len(todo) >= 1 /\ Len(setup) \in Nat BY <2>1, <2>2, EmptySeq
  <2>4. /\ setup[Done + 1] = PathOf[level] \o topic1
        /\ \A k \in 2..Len(todo) : todo[k] = setup[Done + k]
        /\ PathsOfNodes = Names2 \cup PathsTo(PathOf[level])
    <3>1. setup[Done + 1] = PathOf[level] \o topic1 BY <2>1 DEF Building
    <3>2. \A k \in 2..Len(todo) : todo[k] = setup[Done + k] BY DEF Building
    <3>3. PathsOfNodes = Names2 \cup PathsTo(PathOf[level]) BY DEF Building, PathsOfNodes
    <3> QED BY <3>1, <3>2, <3>3
  <2>5. setup' = setup BY DEF AddPart
  <2> QED BY <2>1, <2>2, <2>3, <2>4, <2>5
<1>3. topic1 \in T /\ Tail(todo) \in Seq(T) /\ Len(Tail(todo)) = Len(todo) - 1
      /\ \A k \in 1..Len(todo) - 1 : Tail(todo)[k] = todo[k + 1]
  BY <1>2, HeadTailProperties
<1>4. topic1 \in Seq(Parts) /\ rest \in Seq(Parts) /\ topic1 = <<part>> \o rest
  BY <1>3, HeadTailProperties
<1>T. T = Seq(Parts) \ {<<>>} OBVIOUS
<1>5. path = PathOf[level] \o <<part>> /\ path \in Seq(Parts)
  BY <1>1, AppendIsConcat, AppendProperties
<1> HIDE DEF T
<1>6. PathsTo(path) = PathsTo(PathOf[level]) \cup {path} BY <1>1, PathsToAppend
<1>7. Shape' /\ Len(tree') \in Nat /\ Nodes' = 1..Len(tree') /\ PathOf'[0] = <<>>
  BY <1>1, NodesNext, PathToNext DEF PathFacts
<1>8. CASE rest = <<>>
  <2>1. todo' = Tail(todo) /\ level' = NULL BY <1>8 DEF AddPart
  <2>2. Done' = Done + 1 /\ Done \in Nat BY <1>2, <1>3, <2>1 DEF Done
  <2>3. setup[Done + 1] = path
    <3>1. topic1 = <<part>>
      <4>1. <<part>> \in Seq(Parts) BY <1>1
      <4> HIDE DEF topic1, part, rest
      <4> QED BY <1>4, <1>8, <4>1, ConcatEmptySeq
    <3> QED BY <1>2, <1>5, <3>1
  <2>4. todo' # <<>> => setup[Done' + 1] = PathOf'[level'] \o Head(todo')
    <3> SUFFICES ASSUME todo' # <<>> PROVE setup[Done' + 1] = PathOf'[level'] \o Head(todo')
      OBVIOUS
    <3>1. Len(todo') \in Nat \ {0} /\ Len(todo') = Len(todo) - 1 BY <1>3, <2>1, EmptySeq
    <3>2. Head(todo') = todo'[1] /\ Head(todo') \in T BY <1>3, <2>1, HeadTailProperties
    <3>3. 1 \in 1..Len(todo) - 1 /\ 1 + 1 \in 2..Len(todo) BY <1>2, <3>1
    <3>4. Head(todo') = setup[Done + (1 + 1)] BY <1>2, <1>3, <2>1, <3>2, <3>3
    <3>5. <<>> \o Head(todo') = Head(todo') BY <1>T, <3>2, ConcatEmptySeq
    <3>6. Done' + 1 = Done + (1 + 1) BY <2>2
    <3> QED BY <1>7, <2>1, <3>4, <3>5, <3>6 DEF NULL
  <2>5. \A k \in 2..Len(todo') : todo'[k] = setup[Done' + k]
    <3> SUFFICES ASSUME NEW k \in 2..Len(todo') PROVE todo'[k] = setup[Done' + k] OBVIOUS
    <3>1. k \in 2..Len(todo) - 1 BY <1>3, <2>1
    <3>2. k \in 1..Len(todo) - 1 /\ k + 1 \in 2..Len(todo) BY <1>2, <3>1
    <3>3. todo'[k] = setup[Done + (k + 1)] BY <1>2, <1>3, <2>1, <3>2
    <3>4. Done' + k = Done + (k + 1) BY <2>2, <3>2
    <3> QED BY <3>3, <3>4
  <2>6. PathsOfNodes' = (UNION {PathsTo(setup[i]) : i \in 1..Done'}) \cup PathsTo(PathOf'[level'])
    <3>1. 1..Done' = (1..Done) \cup {Done + 1} BY <2>2
    <3>2. UNION {PathsTo(setup[i]) : i \in 1..Done'} = Names2 \cup PathsTo(path)
      BY <2>3, <3>1
    <3>3. PathsTo(PathOf'[level']) = {} BY <1>1, <1>7, <2>1, PathsToAppend DEF NULL
    <3> QED BY <1>1, <1>2, <1>6, <3>2, <3>3
  <2>7. level' \in 0..Len(tree') BY <1>7, <2>1 DEF NULL
  <2>8. todo' \in Seq(T) /\ Len(todo') <= Len(setup) BY <1>2, <1>3, <2>1
  <2>9. PathsOfNodes' = {PathOf'[n] : n \in Nodes'} BY DEF PathsOfNodes
  <2>10. {PathOf'[n] : n \in Nodes'} =
             (UNION {PathsTo(setup'[i]) : i \in 1..Done'}) \cup PathsTo(PathOf'[level'])
    <3>1. setup' = setup BY <1>2
    <3> QED BY <2>6, <2>9, <3>1
  <2> HIDE DEF path, rest, part, topic1, at
  <2> QED BY <1>2, <2>1, <2>4, <2>5, <2>7, <2>8, <2>10 DEF Building, T
<1>9. CASE rest # <<>>
  <2>1. todo' = <<rest>> \o Tail(todo) /\ level' = at BY <1>9 DEF AddPart
  <2>2. /\ todo' \in Seq(T) /\ Len(todo') = Len(todo) /\ Head(todo') = rest /\ todo' # <<>>
        /\ \A k \in 2..Len(todo) : todo'[k] = todo[k]
    <3>1. <<rest>> \in Seq(T) BY <1>T, <1>4, <1>9
    <3> HIDE DEF rest
    <3>2. /\ todo' \in Seq(T) /\ Len(todo') = 1 + Len(Tail(todo))
          /\ \A k \in 1..1 + Len(Tail(todo)) :
                 todo'[k] = IF k <= 1 THEN rest ELSE Tail(todo)[k - 1]
      BY <1>3, <2>1, <3>1
    <3>3. todo'[1] = rest BY <1>2, <1>3, <3>2
    <3>4. todo' # <<>> /\ Head(todo') = rest BY <1>2, <1>3, <3>2, <3>3
    <3>5. ASSUME NEW k \in 2..Len(todo) PROVE todo'[k] = todo[k]
      <4>1. k \in 1..1 + Len(Tail(todo)) /\ ~(k <= 1) /\ k - 1 \in 1..Len(todo) - 1
        BY <1>2, <1>3
      <4> QED BY <1>3, <3>2, <4>1
    <3> QED BY <1>2, <1>3, <3>2, <3>4, <3>5
  <2>3. Done' = Done BY <1>2, <2>2 DEF Done
  <2>4. setup[Done' + 1] = PathOf'[level'] \o Head(todo')
    <3>1. PathOf[level] \o topic1 = path \o rest
      <4>1. <<part>> \in Seq(Parts) BY <1>1
      <4> HIDE DEF topic1, part, rest, path
      <4>2. topic1 = <<part>> \o rest /\ rest \in Seq(Parts) BY <1>4
      <4>3. path = PathOf[level] \o <<part>> /\ PathOf[level] \in Seq(Parts) BY <1>1, <1>5
      <4>4. ASSUME NEW x \in Seq(Parts), NEW y \in Seq(Parts), NEW z \in Seq(Parts)
            PROVE  (x \o y) \o z = x \o (y \o z)
        BY ConcatAssociative
      <4>5. (PathOf[level] \o <<part>>) \o rest = PathOf[level] \o (<<part>> \o rest)
        BY <4>1, <4>2, <4>3, <4>4
      <4> QED BY <4>2, <4>3, <4>5
    <3> QED BY <1>1, <1>2, <2>1, <2>2, <2>3, <3>1
  <2>5. \A k \in 2..Len(todo') : todo'[k] = setup[Done' + k] BY <1>2, <2>2, <2>3
  <2>6. PathsOfNodes' = (UNION {PathsTo(setup[i]) : i \in 1..Done'}) \cup PathsTo(PathOf'[level'])
    <3>1. PathsTo(PathOf'[level']) = PathsTo(path) BY <1>1, <2>1
    <3>2. UNION {PathsTo(setup[i]) : i \in 1..Done'} = Names2 BY <2>3
    <3> HIDE DEF Names2, path
    <3>3. PathsOfNodes' = Names2 \cup PathsTo(PathOf'[level']) BY <1>1, <1>2, <1>6, <3>1
    <3> QED BY <3>2, <3>3
  <2>7. level' \in 0..Len(tree') BY <1>1, <1>7, <2>1
  <2>8. PathsOfNodes' = {PathOf'[n] : n \in Nodes'} BY DEF PathsOfNodes
  <2>9. {PathOf'[n] : n \in Nodes'} =
            (UNION {PathsTo(setup'[i]) : i \in 1..Done'}) \cup PathsTo(PathOf'[level'])
    <3>1. setup' = setup BY <1>2
    <3> QED BY <2>6, <2>8, <3>1
  <2> HIDE DEF path, rest, part, topic1, at
  <2> QED BY <1>2, <2>2, <2>4, <2>5, <2>7, <2>9 DEF Building, T
<1> QED BY <1>8, <1>9

(* What does not touch the tree leaves every lookup as it is.               *)
LEMMA TreeStays ==
    ASSUME UNCHANGED <<tree, root>>
    PROVE  /\ PathOf' = PathOf /\ Nodes' = Nodes
           /\ \A path : Descend(path)' = Descend(path)
           /\ Shape => Shape'
<1>1. Siblings' = Siblings BY DEF Siblings
<1>2. ASSUME NEW l, NEW part PROVE Find(l, part)' = Find(l, part)
  BY <1>1 DEF Find, First, SelectInSeq, Min
<1>3. ASSUME NEW path PROVE Descend(path)' = Descend(path) BY <1>2 DEF Descend
<1>4. PathOf' = PathOf /\ Nodes' = Nodes BY DEF PathOf, Nodes
<1>5. Shape => Shape' BY DEF Shape, Nodes, First
<1> QED BY <1>3, <1>4, <1>5

-----------------------------------------------------------------------------
(* The text buffer.                                                         *)

Texts == [mem : [1..Room -> Chars], head : 0..Room]

(* A byte goes behind the others, where there is room.                      *)
LEMMA PutIs ==
    ASSUME NEW b \in Texts, NEW c \in Chars
    PROVE  /\ Put(b, c) \in Texts /\ Emptied(b) \in Texts
           /\ Emptied(b).head = 0 /\ Emptied(b).mem = b.mem
           /\ b.head < Room => /\ Put(b, c).head = b.head + 1
                               /\ Put(b, c).mem[b.head + 1] = c
                               /\ \A k \in 1..Room : k # b.head + 1 =>
                                      Put(b, c).mem[k] = b.mem[k]
           /\ b.head >= Room => Put(b, c) = b
<1>1. b.mem \in [1..Room -> Chars] /\ b.head \in 0..Room /\ Room \in Nat
  BY RoomAssumption DEF Texts
<1>2. Emptied(b) \in Texts /\ Emptied(b).head = 0 /\ Emptied(b).mem = b.mem
  BY <1>1 DEF Texts, Emptied
<1>3. CASE b.head < Room
  <2>1. b.head + 1 \in 1..Room BY <1>1, <1>3
  <2>2. Put(b, c) = [mem |-> [b.mem EXCEPT ![b.head + 1] = c], head |-> b.head + 1]
    BY <1>3 DEF Put
  <2> DEFINE m == [b.mem EXCEPT ![b.head + 1] = c]
  <2>3. m \in [1..Room -> Chars] BY <1>1, <2>1
  <2>4. m[b.head + 1] = c /\ \A k \in 1..Room : k # b.head + 1 => m[k] = b.mem[k]
    BY <1>1, <2>1
  <2> HIDE DEF m
  <2>5. Put(b, c).mem = m /\ Put(b, c).head = b.head + 1 /\ Put(b, c) \in Texts
    <3>1. Put(b, c) = [mem |-> m, head |-> b.head + 1] BY <2>2 DEF m
    <3>2. b.head + 1 \in 0..Room BY <1>1, <2>1
    <3> QED BY <2>3, <3>1, <3>2 DEF Texts
  <2> QED BY <1>1, <1>2, <1>3, <2>4, <2>5
<1>4. CASE ~(b.head < Room)
  <2>1. Put(b, c) = b BY <1>4 DEF Put
  <2> QED BY <1>1, <1>2, <1>4, <2>1
<1> QED BY <1>3, <1>4

(* A part is a sequence of bytes that is not empty.                         *)
LEMMA PartFacts ==
    ASSUME NEW part \in Parts
    PROVE  /\ part \in Seq(Letters) /\ part # <<>> /\ part \in Seq(Chars)
           /\ Len(part) \in Nat /\ Len(part) > 0
           /\ \A k \in 1..Len(part) : part[k] \in Letters
<1>1. part \in Seq(Letters) /\ part # <<>> BY DEF Parts
<1>2. Letters \subseteq Chars BY DEF Chars
<1>3. part \in Seq(Chars) BY <1>1, <1>2, SeqMonotonic
<1>4. Len(part) \in Nat /\ Len(part) > 0 BY <1>1, EmptySeq
<1>5. \A k \in 1..Len(part) : part[k] \in Letters BY <1>1, ElementOfSeq
<1> QED BY <1>1, <1>3, <1>4, <1>5

(* A letter ends nothing.                                                   *)
LEMMA LettersAre ==
    \A c \in Letters : c \in Chars /\ c # Nul /\ c # "/" /\ c # "#"
  BY LettersAssumption DEF Chars, Nul

(* A part with a NUL behind it is what strcmp sees.                         *)
LEMMA CStringIs ==
    ASSUME NEW b \in Texts, NEW part \in Parts, Len(part) < Room,
           \A k \in 1..Len(part) : b.mem[k] = part[k],
           b.mem[Len(part) + 1] = Nul
    PROVE  CString(b) = part
<1> DEFINE ends == {i \in 1..Room : b.mem[i] = Nul}
           e == Len(part) + 1
<1>1. /\ part \in Seq(Chars) /\ Len(part) \in Nat /\ Len(part) > 0 /\ Room \in Nat
      /\ \A k \in 1..Len(part) : part[k] \in Letters
      /\ b.mem \in [1..Room -> Chars]
  BY PartFacts, RoomAssumption DEF Texts
<1>2. e \in ends BY <1>1
<1>3. \A i \in ends : e <= i
  <2> SUFFICES ASSUME NEW i \in ends, ~(e <= i) PROVE FALSE OBVIOUS
  <2>1. i \in 1..Len(part) BY <1>1
  <2>2. b.mem[i] \in Letters /\ b.mem[i] = Nul BY <1>1, <2>1
  <2> QED BY <2>2, LettersAre
<1>4. (CHOOSE i \in ends : \A j \in ends : i <= j) = e
  <2>1. \A i \in ends : i \in Nat BY <1>1
  <2>2. \A i \in ends : (\A j \in ends : i <= j) => i = e BY <1>1, <1>2, <1>3, <2>1
  <2> HIDE DEF ends, e
  <2> QED BY <1>2, <1>3, <2>2
<1>5. CString(b) = SubSeq(b.mem, 1, e - 1)
  <2>1. ends # {} BY <1>2
  <2>2. CString(b) = SubSeq(b.mem, 1, (CHOOSE i \in ends : \A j \in ends : i <= j) - 1)
    BY <2>1 DEF CString
  <2> QED BY <1>4, <2>2
<1>6. /\ SubSeq(b.mem, 1, Len(part)) \in Seq(Chars)
      /\ Len(SubSeq(b.mem, 1, Len(part))) = Len(part)
      /\ \A k \in 1..Len(part) : SubSeq(b.mem, 1, Len(part))[k] = b.mem[k]
  <2>1. \A k \in 1..Len(part) : b.mem[k] \in Chars BY <1>1
  <2> QED BY <1>1, <2>1, SubSeqProperties
<1>7. e - 1 = Len(part) BY <1>1
<1>8. SubSeq(b.mem, 1, Len(part)) = part BY <1>1, <1>6, SeqEqual
<1> QED BY <1>5, <1>7, <1>8

(* The parts of a name, and the bytes between them.                         *)
Formed(name) ==
    name.path \in Seq(Parts) /\ name.path # <<>> /\ name.wild \in BOOLEAN

Fits(name) ==
    /\ Formed(name)
    /\ \A i \in 1..Len(name.path) : Len(name.path[i]) < Room

(* The names that are asked for fit into the text buffer part by part.      *)
LEMMA NamesFit == \A name \in Names : Fits(name)
<1> SUFFICES ASSUME NEW name \in Names PROVE Fits(name) OBVIOUS
<1>1. name.path \in Seq(Parts) /\ name.path # <<>> /\ name.wild \in BOOLEAN
  BY InputsAssumption
<1>2. \A i \in DOMAIN name.path : Len(name.path[i]) < Room BY RoomAssumption
<1>3. DOMAIN name.path = 1..Len(name.path) BY <1>1
<1> QED BY <1>1, <1>2, <1>3 DEF Fits, Formed

(* The bytes after a part: a slash, the next part and the bytes after that  *)
(* one.                                                                     *)
LEMMA BytesAfterIs ==
    ASSUME NEW name, Formed(name)
    PROVE  LET N == Len(name.path)
               after == BytesAfter(name)
           IN  /\ \A k \in 1..N : after[k] \in Seq(Chars)
               /\ \A k \in 1..N : k < N => after[k] = <<"/">> \o name.path[k + 1] \o after[k + 1]
               /\ after[N] = IF name.wild THEN <<"/", "#">> ELSE <<>>
<1> DEFINE N == Len(name.path)
           path == name.path
           end == IF name.wild THEN <<"/", "#">> ELSE <<>>
           next == [k \in 1..N |-> IF k < N THEN k + 1 ELSE 0]
           rank == [k \in 0..N |-> IF k = 0 THEN 0 ELSE N + 1 - k]
           step == [q \in Seq(Chars) \X (1..N) |->
                       IF q[2] < N THEN <<"/">> \o path[q[2] + 1] \o q[1] ELSE end]
           Equation(f) == f = [k \in 1..N |-> IF k < N THEN <<"/">> \o path[k + 1] \o f[k + 1]
                                              ELSE end]
<1>1. N \in Nat \ {0} /\ path \in Seq(Parts) BY EmptySeq DEF Formed
<1>2. end \in Seq(Chars)
  <2>1. "/" \in Chars /\ "#" \in Chars BY DEF Chars
  <2>2. <<"/", "#">> \in Seq(Chars) /\ <<>> \in Seq(Chars) BY <2>1
  <2> QED BY <2>2
<1>3. ASSUME NEW k \in 1..N, k < N, NEW s \in Seq(Chars)
      PROVE  <<"/">> \o path[k + 1] \o s \in Seq(Chars)
  <2>1. path[k + 1] \in Parts BY <1>1, <1>3, ElementOfSeq
  <2>2. path[k + 1] \in Seq(Chars) BY <2>1, PartFacts
  <2>3. <<"/">> \in Seq(Chars) BY DEF Chars
  <2>4. <<"/">> \o path[k + 1] \in Seq(Chars) BY <2>2, <2>3, ConcatProperties
  <2> QED BY <2>4, ConcatProperties
<1>4. Ranked(N, next, rank) BY <1>1 DEF Ranked
<1>5. step \in [Seq(Chars) \X (1..N) -> Seq(Chars)]
  <2>1. ASSUME NEW q \in Seq(Chars) \X (1..N)
        PROVE  (IF q[2] < N THEN <<"/">> \o path[q[2] + 1] \o q[1] ELSE end) \in Seq(Chars)
    <3>1. q[1] \in Seq(Chars) /\ q[2] \in 1..N OBVIOUS
    <3> HIDE DEF path, end, N
    <3> QED BY <1>2, <1>3, <3>1
  <2> HIDE DEF end, path, N
  <2> QED BY <2>1
<1>6. <<>> \in Seq(Chars) OBVIOUS
<1> HIDE DEF N, path, end, step
<1>7. PICK f : Follows(f, N, Seq(Chars), <<>>, next, step)
  <2> HIDE DEF next, rank
  <2> QED BY <1>4, <1>5, <1>6, Following
<1> DEFINE g == [k \in 1..N |-> f[k]]
<1>8. Equation(g)
  <2>1. ASSUME NEW k \in 1..N
        PROVE  g[k] = IF k < N THEN <<"/">> \o path[k + 1] \o g[k + 1] ELSE end
    <3>1. next[k] \in 0..N /\ f[next[k]] \in Seq(Chars) BY <1>1, <1>7 DEF Follows
    <3>2. <<f[next[k]], k>> \in Seq(Chars) \X (1..N) BY <3>1
    <3>3. f[k] = step[<<f[next[k]], k>>] BY <1>7 DEF Follows
    <3>4. f[k] = IF k < N THEN <<"/">> \o path[k + 1] \o f[next[k]] ELSE end
      BY <3>2, <3>3 DEF step
    <3>5. k < N => k + 1 \in 1..N /\ next[k] = k + 1 BY <1>1
    <3> QED BY <3>4, <3>5
  <2> QED BY <2>1
<1> HIDE DEF g
<1>9. Equation(BytesAfter(name)) BY <1>8 DEF BytesAfter, N, path, end
<1> DEFINE after == BytesAfter(name)
<1> HIDE DEF after
<1>10. \A k \in 1..N : after[k] = IF k < N THEN <<"/">> \o path[k + 1] \o after[k + 1] ELSE end
  BY <1>9 DEF after
<1>11. \A k \in 1..N : after[k] \in Seq(Chars)
  <2> DEFINE Good == {k \in 0..N : k # 0 => after[k] \in Seq(Chars)}
  <2>1. 0 \in Good BY <1>1
  <2>2. ASSUME NEW k \in 1..N, next[k] \in Good PROVE k \in Good
    <3>1. CASE k < N
      <4>1. after[k + 1] \in Seq(Chars) BY <1>1, <2>2, <3>1
      <4>2. after[k] = <<"/">> \o path[k + 1] \o after[k + 1] BY <1>10, <3>1
      <4>3. after[k] \in Seq(Chars) BY <1>3, <3>1, <4>1, <4>2
      <4> QED BY <1>1, <4>3
    <3>2. CASE ~(k < N)
      <4>1. after[k] \in Seq(Chars) BY <1>2, <1>10, <3>2
      <4> QED BY <1>1, <4>1
    <3> QED BY <3>1, <3>2
  <2> HIDE DEF Good
  <2>3. \A k \in 0..N : k \in Good
    <3> HIDE DEF next, rank
    <3> QED BY <1>4, <2>1, <2>2, Carried
  <2> QED BY <1>1, <2>3 DEF Good
<1>12. after[N] = end BY <1>1, <1>10
<1>13. \A k \in 1..N : k < N => after[k] = <<"/">> \o path[k + 1] \o after[k + 1] BY <1>10
<1> QED BY <1>11, <1>12, <1>13 DEF after, N, path, end

(* The bytes of a name are bytes.                                           *)
LEMMA BytesAre ==
    ASSUME NEW name, Formed(name)
    PROVE  Bytes(name) \in Seq(Chars)
<1>1. 1 \in 1..Len(name.path) /\ name.path \in Seq(Parts) BY EmptySeq DEF Formed
<1>2. name.path[1] \in Parts BY <1>1, ElementOfSeq
<1>3. name.path[1] \in Seq(Chars) BY <1>2, PartFacts
<1>4. BytesAfter(name)[1] \in Seq(Chars) BY <1>1, BytesAfterIs
<1> QED BY <1>3, <1>4, ConcatProperties DEF Bytes

-----------------------------------------------------------------------------
(* Reading a name.                                                          *)

(* Where a reader is depends on nothing but the tree and its registers.     *)
LEMMA MidwayNext ==
    ASSUME UNCHANGED <<tree, root>>, NEW name, NEW rest, NEW b, NEW t
    PROVE  Midway(name, rest, b, t)' <=> Midway(name, rest, b, t)
  BY TreeStays DEF Midway

(* Being in the middle of a part is being on the way.                       *)
LEMMA MidwayAt ==
    ASSUME NEW name, NEW rest, NEW b, NEW t,
           NEW j \in DOMAIN name.path, NEW o \in 0..Len(name.path[j]),
           rest = SubSeq(name.path[j], o + 1, Len(name.path[j])) \o BytesAfter(name)[j],
           b.head = o, \A k \in 1..o : b.mem[k] = name.path[j][k],
           t = Descend(SubSeq(name.path, 1, j - 1))
    PROVE  Midway(name, rest, b, t)
  BY DEF Midway

(* Putting bytes together is associative.                                   *)
LEMMA CharsConcat ==
    ASSUME NEW x \in Seq(Chars), NEW y \in Seq(Chars), NEW z \in Seq(Chars)
    PROVE  (x \o y) \o z = x \o (y \o z)
  BY ConcatAssociative

(* What is empty has been put together of nothing.                          *)
LEMMA CharsEmpty ==
    ASSUME NEW x \in Seq(Chars), NEW y \in Seq(Chars), x \o y = <<>>
    PROVE  x = <<>> /\ y = <<>>
  BY ConcatEqualIffEmpty

(* Going down by the first parts of a path, one by one.                     *)
LEMMA DescendPart ==
    ASSUME Shape, NEW path \in Seq(Parts), NEW j \in 1..Len(path)
    PROVE  /\ SubSeq(path, 1, j - 1) \in Seq(Parts) /\ path[j] \in Parts
           /\ Descend(SubSeq(path, 1, j)) = Find(Descend(SubSeq(path, 1, j - 1)), path[j])
           /\ SubSeq(path, 1, Len(path)) = path
<1> DEFINE front == SubSeq(path, 1, j - 1)
<1>1. Len(path) \in Nat /\ j - 1 \in 0..Len(path) BY LenProperties
<1>2. \A i \in 1..Len(path) : path[i] \in Parts BY ElementOfSeq
<1>3. \A i \in 1..(j - 1) : path[i] \in Parts BY <1>1, <1>2
<1>4. front \in Seq(Parts) BY <1>1, <1>3, SubSeqProperties
<1>5. SubSeq(path, 1, j) = front \o <<path[j]>>
  <2>1. 1 \in 1..Len(path) /\ j \in 1..Len(path) BY <1>1
  <2> QED BY <2>1, SubSeqRecursiveSecond
<1> HIDE DEF front
<1>6. Append(front, path[j]) = front \o <<path[j]>> BY <1>2, <1>4, AppendIsConcat
<1>7. Descend(SubSeq(path, 1, j)) = Find(Descend(front), path[j])
  BY <1>2, <1>4, <1>5, <1>6, Descending
<1> QED BY <1>2, <1>4, <1>7, SubSeqFull DEF front

(* Before the first byte nothing has come and nothing was looked up.        *)
LEMMA MidwayStart ==
    ASSUME Shape, NEW name, Fits(name), NEW b, b.head = 0
    PROVE  Midway(name, Bytes(name), b, NULL)
<1> DEFINE part == name.path[1]
<1>1. 1 \in 1..Len(name.path) /\ DOMAIN name.path = 1..Len(name.path)
      /\ name.path \in Seq(Parts)
  BY EmptySeq, LenProperties DEF Fits, Formed
<1>2. part \in Parts BY <1>1, ElementOfSeq
<1>3. part \in Seq(Chars) /\ Len(part) \in Nat BY <1>2, PartFacts
<1>4. SubSeq(part, 0 + 1, Len(part)) = part BY <1>3, SubSeqFull
<1>5. Bytes(name) = SubSeq(part, 0 + 1, Len(part)) \o BytesAfter(name)[1]
  BY <1>4 DEF Bytes
<1>6. NULL = Descend(SubSeq(name.path, 1, 1 - 1))
  <2>1. SubSeq(name.path, 1, 1 - 1) = <<>> BY SubSeqEmpty
  <2> QED BY <2>1, Descending
<1>7. 0 \in 0..Len(part) BY <1>3
<1>8. \A k \in 1..0 : b.mem[k] = part[k] OBVIOUS
<1> QED BY <1>1, <1>5, <1>6, <1>7, <1>8, MidwayAt

(* A byte further, the name is still being read.                            *)
LEMMA MidwayKept ==
    ASSUME Shape, NEW name, Fits(name), NEW rest \in Seq(Chars), rest # <<>>,
           NEW b \in Texts, NEW t, Midway(name, rest, b, t)
    PROVE  LET m == Munch(b, t, Head(rest)) IN Midway(name, Tail(rest), m.text, m.topic)
<1> DEFINE path == name.path
           after == BytesAfter(name)
           N == Len(path)
           m == Munch(b, t, Head(rest))
           Reading(j, o, r) ==
               /\ r = SubSeq(path[j], o + 1, Len(path[j])) \o after[j]
               /\ t = Descend(SubSeq(path, 1, j - 1))
               /\ b.head = o /\ \A k \in 1..o : b.mem[k] = path[j][k]
           Wildcard == name.wild /\ rest \in {<<"#">>, <<>>} /\ b.head = 0 /\ t = Descend(path)
<1>1. /\ path \in Seq(Parts) /\ N \in Nat \ {0} /\ DOMAIN path = 1..N
      /\ \A j \in 1..N : path[j] \in Parts /\ Len(path[j]) < Room
      /\ \A j \in 1..N : after[j] \in Seq(Chars)
      /\ \A j \in 1..N : j < N => after[j] = <<"/">> \o path[j + 1] \o after[j + 1]
      /\ after[N] = IF name.wild THEN <<"/", "#">> ELSE <<>>
  BY EmptySeq, LenProperties, ElementOfSeq, BytesAfterIs DEF Fits, Formed
<1>2. Wildcard \/ \E j \in 1..N : \E o \in 0..Len(path[j]) : Reading(j, o, rest)
  BY <1>1 DEF Midway
<1>3. ASSUME Wildcard PROVE Midway(name, Tail(rest), m.text, m.topic)
  <2>1. rest = <<"#">> BY <1>3
  <2>2. Head(rest) = "#" /\ Tail(rest) = <<>> BY <2>1
  <2>3. m.text = b /\ m.topic = t BY <2>2 DEF Munch
  <2> QED BY <1>3, <2>2, <2>3 DEF Midway
<1>4. ASSUME NEW j \in 1..N, NEW o \in 0..Len(path[j]), Reading(j, o, rest)
      PROVE  Midway(name, Tail(rest), m.text, m.topic)
  <2> DEFINE part == path[j]
             L == Len(part)
  <2>1. /\ part \in Parts /\ part \in Seq(Chars) /\ L \in Nat /\ L > 0 /\ L < Room
        /\ Room \in Nat /\ \A k \in 1..L : part[k] \in Letters
    BY <1>1, PartFacts, RoomAssumption
  <2>2. CASE o < L
    <3> DEFINE c == part[o + 1]
    <3>1. o + 1 \in 1..L /\ c \in Letters BY <2>1, <2>2
    <3>2. SubSeq(part, o + 1, L) = <<c>> \o SubSeq(part, o + 2, L)
      <4>1. L \in (o + 1)..L /\ (o + 1) + 1 = o + 2 BY <2>1, <2>2
      <4> QED BY <2>1, <3>1, <4>1, SubSeqRecursiveFirst
    <3>3. SubSeq(part, o + 2, L) \in Seq(Chars) /\ <<c>> \in Seq(Chars)
      <4>1. \A i \in (o + 2)..L : part[i] \in Chars BY <2>1, LettersAre
      <4>2. o + 2 \in Int /\ L \in Int BY <2>1
      <4> QED BY <3>1, <4>1, <4>2, SubSeqProperties, LettersAre
    <3> DEFINE more == SubSeq(part, o + 2, L) \o after[j]
    <3>4. more \in Seq(Chars) BY <1>1, <3>3, ConcatProperties
    <3>5. rest = <<c>> \o more
      <4>1. rest = (<<c>> \o SubSeq(part, o + 2, L)) \o after[j] BY <1>4, <3>2
      <4>2. after[j] \in Seq(Chars) BY <1>1
      <4> DEFINE x == <<c>>
                 y == SubSeq(part, o + 2, L)
                 z == after[j]
      <4>3. x \in Seq(Chars) /\ y \in Seq(Chars) /\ z \in Seq(Chars) BY <3>3, <4>2
      <4> HIDE DEF x, y, z
      <4>4. (x \o y) \o z = x \o (y \o z) BY <4>3, CharsConcat
      <4> QED BY <4>1, <4>4 DEF x, y, z
    <3>6. Head(rest) = c /\ Tail(rest) = more
      <4> HIDE DEF more, c
      <4> QED BY <3>3, <3>4, <3>5
    <3>7. m.text = Put(b, c) /\ m.topic = t
      <4>1. c # "/" /\ c # "#" BY <3>1, LettersAre
      <4> QED BY <3>6, <4>1 DEF Munch
    <3>8. /\ Put(b, c).head = o + 1 /\ Put(b, c).mem[o + 1] = c
          /\ \A k \in 1..o : Put(b, c).mem[k] = part[k]
      <4>1. c \in Chars /\ b.head = o /\ o < Room BY <1>4, <2>1, <2>2, <3>1, LettersAre
      <4>2. \A k \in 1..o : k \in 1..Room /\ k # o + 1 BY <2>1, <2>2
      <4> HIDE DEF c
      <4> QED BY <1>4, <4>1, <4>2, PutIs
    <3>9. \A k \in 1..(o + 1) : Put(b, c).mem[k] = part[k]
      <4>1. \A k \in 1..(o + 1) : k = o + 1 \/ k \in 1..o BY <2>1
      <4> QED BY <3>8, <4>1
    <3>10. o + 1 \in 0..L /\ (o + 1) + 1 = o + 2 BY <2>1, <2>2
    <3>11. Tail(rest) = SubSeq(path[j], (o + 1) + 1, Len(path[j])) \o after[j] BY <3>6, <3>10
    <3>12. j \in DOMAIN path BY <1>1
    <3>13. m.text.head = o + 1 /\ \A k \in 1..(o + 1) : m.text.mem[k] = path[j][k]
      BY <3>7, <3>8, <3>9
    <3>14. m.topic = Descend(SubSeq(path, 1, j - 1)) BY <1>4, <3>7
    <3> HIDE DEF m
    <3> QED BY <3>10, <3>11, <3>12, <3>13, <3>14, MidwayAt
  <2>3. CASE o = L
    <3>1. rest = after[j]
      <4>1. SubSeq(part, o + 1, L) = <<>>
        <5>1. o + 1 \in Int /\ L \in Int /\ L < o + 1 BY <2>1, <2>3
        <5> QED BY <5>1, SubSeqEmpty
      <4> QED BY <1>1, <1>4, <4>1, ConcatEmptySeq
    <3>2. Head(rest) = "/" => m.text.head = 0 /\ m.topic = Descend(SubSeq(path, 1, j))
      <4> SUFFICES ASSUME Head(rest) = "/"
                   PROVE  m.text.head = 0 /\ m.topic = Descend(SubSeq(path, 1, j))
        OBVIOUS
      <4> DEFINE ended == Put(b, Nul)
      <4>1. b.head = L /\ Nul \in Chars BY <1>4, <2>3 DEF Chars
      <4>2. m.text = Emptied(ended) /\ m.topic = Find(t, CString(ended))
        BY <2>1, <4>1 DEF Munch
      <4>3. /\ ended \in Texts /\ ended.mem[L + 1] = Nul
            /\ \A k \in 1..Room : k # L + 1 => ended.mem[k] = b.mem[k]
        BY <2>1, <4>1, PutIs
      <4>4. \A k \in 1..L : ended.mem[k] = part[k]
        <5>1. \A k \in 1..L : k \in 1..Room /\ k # L + 1 BY <2>1
        <5> QED BY <1>4, <2>3, <4>3, <5>1
      <4> HIDE DEF ended
      <4>5. CString(ended) = part BY <2>1, <4>3, <4>4, CStringIs
      <4>6. m.text.head = 0 BY <4>2, <4>3, PutIs
      <4> QED BY <1>1, <1>4, <4>2, <4>5, <4>6, DescendPart
    <3>3. CASE j < N
      <4>1. path[j + 1] \in Parts /\ j + 1 \in 1..N BY <1>1, <3>3
      <4>2. path[j + 1] \in Seq(Chars) /\ Len(path[j + 1]) \in Nat BY <4>1, PartFacts
      <4> DEFINE more == path[j + 1] \o after[j + 1]
      <4>3. more \in Seq(Chars) BY <1>1, <4>1, <4>2, ConcatProperties
      <4>4. <<"/">> \in Seq(Chars) BY DEF Chars
      <4>5. rest = <<"/">> \o more
        <5>1. rest = (<<"/">> \o path[j + 1]) \o after[j + 1] BY <1>1, <3>1, <3>3
        <5>2. after[j + 1] \in Seq(Chars) BY <1>1, <4>1
        <5> DEFINE x == <<"/">>
                   y == path[j + 1]
                   z == after[j + 1]
        <5>3. x \in Seq(Chars) /\ y \in Seq(Chars) /\ z \in Seq(Chars) BY <4>2, <4>4, <5>2
        <5> HIDE DEF x, y, z
        <5>4. (x \o y) \o z = x \o (y \o z) BY <5>3, CharsConcat
        <5> QED BY <5>1, <5>4 DEF x, y, z
      <4>6. Head(rest) = "/" /\ Tail(rest) = more
        <5> HIDE DEF more
        <5> QED BY <4>3, <4>4, <4>5
      <4>7. SubSeq(path[j + 1], 0 + 1, Len(path[j + 1])) = path[j + 1]
        BY <4>2, SubSeqFull
      <4>8. Tail(rest) = SubSeq(path[j + 1], 0 + 1, Len(path[j + 1])) \o after[j + 1]
        BY <4>6, <4>7
      <4>9. 0 \in 0..Len(path[j + 1]) /\ (j + 1) - 1 = j BY <1>1, <4>2
      <4>10. j + 1 \in DOMAIN path BY <1>1, <4>1
      <4>11. m.text.head = 0 /\ m.topic = Descend(SubSeq(path, 1, (j + 1) - 1))
        BY <3>2, <4>6, <4>9
      <4>12. \A k \in 1..0 : m.text.mem[k] = path[j + 1][k] OBVIOUS
      <4> HIDE DEF m
      <4> QED BY <4>8, <4>9, <4>10, <4>11, <4>12, MidwayAt
    <3>4. CASE ~(j < N)
      <4>1. j = N BY <1>1, <3>4
      <4>2. name.wild /\ rest = <<"/", "#">> BY <1>1, <3>1, <4>1
      <4>3. Head(rest) = "/" /\ Tail(rest) = <<"#">> BY <4>2
      <4>4. SubSeq(path, 1, j) = path BY <1>1, <4>1, SubSeqFull
      <4> QED BY <3>2, <4>2, <4>3, <4>4 DEF Midway
    <3> QED BY <3>3, <3>4
  <2> QED BY <2>1, <2>2, <2>3
<1> QED BY <1>2, <1>3, <1>4

(* With the last byte read, the last part is in the buffer and what led to  *)
(* it in the register; or the register has it all, after a wildcard.        *)
LEMMA MidwayEnd ==
    ASSUME Shape, NEW name, Fits(name), NEW b, NEW t, Midway(name, <<>>, b, t)
    PROVE  LET last == Last(name.path) IN
           \/ /\ ~name.wild /\ last \in Parts /\ Len(last) < Room
              /\ b.head = Len(last) /\ \A k \in 1..Len(last) : b.mem[k] = last[k]
              /\ Find(t, last) = Descend(name.path)
           \/ name.wild /\ b.head = 0 /\ t = Descend(name.path)
<1> DEFINE path == name.path
           after == BytesAfter(name)
           N == Len(path)
<1>1. /\ path \in Seq(Parts) /\ N \in Nat \ {0} /\ DOMAIN path = 1..N
      /\ \A j \in 1..N : path[j] \in Parts /\ Len(path[j]) < Room
      /\ \A j \in 1..N : after[j] \in Seq(Chars)
      /\ \A j \in 1..N : j < N => after[j] = <<"/">> \o path[j + 1] \o after[j + 1]
      /\ after[N] = IF name.wild THEN <<"/", "#">> ELSE <<>>
  BY EmptySeq, LenProperties, ElementOfSeq, BytesAfterIs DEF Fits, Formed
<1> SUFFICES ASSUME NEW j \in 1..N, NEW o \in 0..Len(path[j]),
                    <<>> = SubSeq(path[j], o + 1, Len(path[j])) \o after[j],
                    b.head = o, \A k \in 1..o : b.mem[k] = path[j][k],
                    t = Descend(SubSeq(path, 1, j - 1))
             PROVE  /\ ~name.wild /\ Last(path) \in Parts /\ Len(Last(path)) < Room
                    /\ b.head = Len(Last(path))
                    /\ \A k \in 1..Len(Last(path)) : b.mem[k] = Last(path)[k]
                    /\ Find(t, Last(path)) = Descend(path)
  BY <1>1 DEF Midway
<1> DEFINE part == path[j]
           L == Len(part)
           left == SubSeq(part, o + 1, L)
<1>2. part \in Parts /\ part \in Seq(Chars) /\ L \in Nat BY <1>1, PartFacts
<1>3. left \in Seq(Chars) /\ Len(left) = IF o + 1 <= L THEN L - (o + 1) + 1 ELSE 0
  <2>1. \A i \in (o + 1)..L : part[i] \in Chars BY <1>2, ElementOfSeq
  <2>2. o + 1 \in Int /\ L \in Int BY <1>2
  <2> QED BY <2>1, <2>2, SubSeqProperties
<1>4. left = <<>> /\ after[j] = <<>>
  <2> HIDE DEF left
  <2>1. <<>> = left \o after[j] BY DEF left
  <2>2. after[j] \in Seq(Chars) BY <1>1
  <2> QED BY <1>3, <2>1, <2>2, CharsEmpty
<1>5. o = L
  <2>1. Len(left) = 0 /\ o \in 0..L BY <1>4
  <2> HIDE DEF left, part, L
  <2> QED BY <1>2, <1>3, <2>1
<1>6. j = N
  <2> SUFFICES ASSUME j < N PROVE FALSE BY <1>1
  <2>1. path[j + 1] \in Parts /\ j + 1 \in 1..N BY <1>1
  <2>2. path[j + 1] \in Seq(Chars) /\ path[j + 1] # <<>> BY <2>1, PartFacts
  <2>3. <<"/">> \in Seq(Chars) /\ after[j + 1] \in Seq(Chars) BY <1>1, <2>1 DEF Chars
  <2>4. (<<"/">> \o path[j + 1]) \o after[j + 1] = <<>> BY <1>1, <1>4
  <2>5. <<"/">> \o path[j + 1] \in Seq(Chars) BY <2>2, <2>3, ConcatProperties
  <2>6. <<"/">> \o path[j + 1] = <<>> BY <2>3, <2>4, <2>5, CharsEmpty
  <2> QED BY <2>2, <2>3, <2>6, CharsEmpty
<1>7. ~name.wild
  <2>1. <<"/", "#">> # <<>> OBVIOUS
  <2>2. after[N] = <<>> BY <1>4, <1>6
  <2> HIDE DEF after, N
  <2> QED BY <1>1, <2>1, <2>2
<1>8. Last(path) = part BY <1>6 DEF Last
<1>9. Find(t, part) = Descend(path) BY <1>1, <1>6, DescendPart
<1> QED BY <1>1, <1>2, <1>5, <1>7, <1>8, <1>9

(* What a byte does to the text and to the register.                        *)
LEMMA MunchIs ==
    ASSUME Shape, NEW b \in Texts, NEW t \in 0..Len(tree), NEW c \in Chars
    PROVE  LET m == Munch(b, t, c) IN
           /\ m.text \in Texts /\ m.topic \in 0..Len(tree)
           /\ \A k \in 1..Room : m.text.mem[k] # Nul => b.mem[k] # Nul \/ k <= m.text.head
<1> DEFINE m == Munch(b, t, c)
           ended == Put(b, Nul)
<1>1. Nul \in Chars /\ Room \in Nat /\ b.head \in 0..Room
  BY RoomAssumption DEF Chars, Texts
<1>2. CASE c = "/" /\ b.head > 0
  <2>1. m.text = Emptied(ended) /\ m.topic = Find(t, CString(ended)) BY <1>2 DEF Munch
  <2>2. ended \in Texts BY <1>1, PutIs
  <2>3. \A k \in 1..Room : ended.mem[k] # Nul => b.mem[k] # Nul
    <3>1. CASE b.head < Room
      <4>1. /\ ended.mem[b.head + 1] = Nul
            /\ \A k \in 1..Room : k # b.head + 1 => ended.mem[k] = b.mem[k]
        BY <1>1, <3>1, PutIs
      <4> QED BY <4>1
    <3>2. CASE ~(b.head < Room) BY <1>1, <3>2, PutIs
    <3> QED BY <3>1, <3>2
  <2> HIDE DEF ended
  <2>4. m.text \in Texts /\ m.text.mem = ended.mem BY <2>1, <2>2, PutIs
  <2>5. m.topic \in 0..Len(tree) BY <2>1, FindIs
  <2> QED BY <2>3, <2>4, <2>5
<1>3. CASE c = "/" /\ b.head = 0
  <2>1. m.text = b /\ m.topic = t BY <1>3 DEF Munch
  <2> QED BY <2>1
<1>4. CASE c = "#"
  <2>1. m.text = b /\ m.topic = t BY <1>4 DEF Munch
  <2> QED BY <2>1
<1>5. CASE c # "/" /\ c # "#"
  <2>1. m.text = Put(b, c) /\ m.topic = t BY <1>5 DEF Munch
  <2>2. Put(b, c) \in Texts BY PutIs
  <2>3. \A k \in 1..Room : Put(b, c).mem[k] # Nul => b.mem[k] # Nul \/ k <= Put(b, c).head
    <3>1. CASE b.head < Room
      <4>1. /\ Put(b, c).head = b.head + 1
            /\ \A k \in 1..Room : k # b.head + 1 => Put(b, c).mem[k] = b.mem[k]
        BY <3>1, PutIs
      <4>2. \A k \in 1..Room : k = b.head + 1 => k <= Put(b, c).head BY <1>1, <4>1
      <4> QED BY <4>1, <4>2
    <3>2. CASE ~(b.head < Room) BY <1>1, <3>2, PutIs
    <3> QED BY <3>1, <3>2
  <2> QED BY <2>1, <2>2, <2>3
<1>6. b.head = 0 \/ b.head > 0 BY <1>1
<1> QED BY <1>2, <1>3, <1>4, <1>5, <1>6

(* The text never grows past the part it is of.                             *)
LEMMA MidwayWithin ==
    ASSUME NEW name, Fits(name), NEW rest, NEW b, NEW t, Midway(name, rest, b, t)
    PROVE  b.head = 0 \/ \E n \in Lengths(name.path) : b.head <= n
<1>1. CASE b.head = 0 BY <1>1
<1>2. CASE b.head # 0
  <2>1. PICK j \in DOMAIN name.path : b.head \in 0..Len(name.path[j]) BY <1>2 DEF Midway
  <2>2. name.path \in Seq(Parts) /\ DOMAIN name.path = 1..Len(name.path)
    BY LenProperties DEF Fits, Formed
  <2>3. name.path[j] \in Parts BY <2>1, <2>2, ElementOfSeq
  <2>4. Len(name.path[j]) \in Nat BY <2>3, PartFacts
  <2>5. b.head <= Len(name.path[j]) BY <2>1, <2>4
  <2> QED BY <2>1, <2>5 DEF Lengths
<1> QED BY <1>1, <1>2

-----------------------------------------------------------------------------
(* The inductive invariant.                                                 *)

(* The invariant holds at the start.                                        *)
LEMMA TopicsInit == Init => TopicsInv
<1> SUFFICES ASSUME Init PROVE TopicsInv OBVIOUS
<1> USE DEF Init
<1>1. Nodes = {} /\ Len(tree) = 0 /\ NULL = 0 BY DEF Nodes, NULL
<1>2. Shape
  <2>1. tree \in Seq(Records) OBVIOUS
  <2> QED BY <1>1, <2>1 DEF Shape, Records
<1>3. Building
  <2> DEFINE T == Seq(Parts) \ {<<>>}
  <2>1. setup \in Setups /\ setup \in Seq(T) /\ todo = setup BY InputsAssumption
  <2>2. Len(setup) \in Nat /\ Done = 0 BY <2>1 DEF Done
  <2>3. PathOf[level] = <<>> BY <1>1, <1>2, PathTo
  <2>4. todo # <<>> => setup[Done + 1] = PathOf[level] \o Head(todo)
    <3> SUFFICES ASSUME todo # <<>> PROVE setup[Done + 1] = PathOf[level] \o Head(todo)
      OBVIOUS
    <3>1. Head(todo) \in Seq(Parts) /\ Head(todo) = setup[1] BY <2>1, HeadTailProperties
    <3>2. <<>> \o Head(todo) = Head(todo) BY <3>1, ConcatEmptySeq
    <3> QED BY <2>2, <2>3, <3>1, <3>2
  <2>5. \A k \in 2..Len(todo) : todo[k] = setup[Done + k] BY <2>1, <2>2
  <2>6. {PathOf[n] : n \in Nodes} =
            (UNION {PathsTo(setup[i]) : i \in 1..Done}) \cup PathsTo(PathOf[level])
    <3>1. PathsTo(<<>>) = {} BY DEF PathsTo
    <3>2. {PathOf[n] : n \in Nodes} = {} BY <1>1
    <3>3. {PathsTo(setup[i]) : i \in 1..Done} = {} BY <2>2
    <3> QED BY <2>3, <3>1, <3>2, <3>3
  <2>7. level \in 0..Len(tree) /\ Len(todo) <= Len(setup) BY <1>1, <2>1, <2>2
  <2>8. level = NULL OBVIOUS
  <2> QED BY <2>1, <2>4, <2>5, <2>6, <2>7, <2>8 DEF Building
<1>4. ReadTypes
  <2>1. text \in [mem : [1..Room -> Chars], head : 0..Room]
    <3>1. Nul \in Chars /\ 0 \in 0..Room BY RoomAssumption DEF Chars
    <3> QED BY <3>1
  <2>2. strings \in Seq(Seq(Chars)) /\ found \in Seq(0..Len(tree)) /\ topic \in 0..Len(tree)
    BY <1>1
  <2> QED BY <2>1, <2>2 DEF ReadTypes
<1>5. Asking /\ Resolving BY DEF Asking, Resolving
<1>6. LeftOver BY DEF LeftOver
<1> QED BY <1>2, <1>3, <1>4, <1>5, <1>6 DEF TopicsInv

(* Every action but AddPart leaves the tree and what is still to be added.  *)
LEMMA TreeRests ==
    ASSUME Shape, Building, UNCHANGED treeVars
    PROVE  Shape' /\ Building'
<1>1. UNCHANGED <<tree, root>> /\ UNCHANGED <<setup, todo, level>> BY DEF treeVars
<1>2. PathOf' = PathOf /\ Nodes' = Nodes /\ Shape' BY <1>1, TreeStays
<1>3. Done' = Done BY <1>1 DEF Done
<1>4. tree' = tree /\ setup' = setup /\ todo' = todo /\ level' = level BY <1>1
<1>5. {PathOf'[n] : n \in Nodes'} =
          (UNION {PathsTo(setup'[i]) : i \in 1..Done'}) \cup PathsTo(PathOf'[level'])
  <2>1. {PathOf[n] : n \in Nodes} =
            (UNION {PathsTo(setup[i]) : i \in 1..Done}) \cup PathsTo(PathOf[level])
    BY DEF Building
  <2>2. {PathOf'[n] : n \in Nodes'} = {PathOf[n] : n \in Nodes} BY <1>2
  <2>3. {PathsTo(setup'[i]) : i \in 1..Done'} = {PathsTo(setup[i]) : i \in 1..Done}
    BY <1>3, <1>4
  <2>4. PathsTo(PathOf'[level']) = PathsTo(PathOf[level]) BY <1>2, <1>4
  <2> QED BY <2>1, <2>2, <2>3, <2>4
<1> QED BY <1>2, <1>3, <1>4, <1>5 DEF Building

(* AddPart keeps the invariant.                                             *)
LEMMA AddPartStep ==
    ASSUME TopicsInv, AddPart
    PROVE  TopicsInv'
<1> USE DEF TopicsInv
<1>1. Shape' BY PartPlaced
<1>2. Building' BY BuildingKept
<1>3. /\ UNCHANGED <<kind, asked, strings, text, topic, found, who, fresh, longest>>
      /\ kind = "none" /\ topic = NULL /\ asked = <<>> /\ strings = <<>> /\ found = <<>>
  BY DEF AddPart, readVars, ReadTypes, Asking
<1>4. ReadTypes'
  <2>1. topic' \in 0..Len(tree') /\ found' \in Seq(0..Len(tree'))
    <3>1. Len(tree') \in Nat BY <1>1, NodesNext
    <3> QED BY <1>3, <3>1 DEF NULL
  <2> QED BY <1>3, <2>1 DEF ReadTypes
<1>5. Asking' BY <1>3 DEF Asking
<1>6. Resolving' BY <1>3 DEF Resolving
<1>7. LeftOver' BY <1>3 DEF LeftOver
<1> QED BY <1>1, <1>2, <1>4, <1>5, <1>6, <1>7

(* What a packet begins with.                                               *)
LEMMA StartsFacts ==
    ASSUME TopicsInv, NEW k, NEW S, NEW names \in Seq(S), \A n \in S : Formed(n),
           names # <<>>, Starts(k, names)
    PROVE  /\ Shape' /\ Building' /\ UNCHANGED <<tree, root, todo>>
           /\ kind = "none" /\ todo = <<>> /\ kind' = k /\ asked' = names
           /\ found = <<>> /\ found' = <<>>
           /\ strings' \in Seq(Seq(Chars)) /\ Len(strings') = Len(names)
           /\ strings' # <<>> /\ Head(strings') = Bytes(names[1])
           /\ UNCHANGED <<who, fresh, longest>>
<1> USE DEF TopicsInv
<1>1. /\ kind = "none" /\ todo = <<>> /\ kind' = k /\ asked' = names /\ found' = found
      /\ UNCHANGED treeVars /\ UNCHANGED <<who, fresh, longest>>
      /\ strings' = [i \in DOMAIN names |-> Bytes(names[i])]
  BY DEF Starts
<1>2. Shape' /\ Building' BY <1>1, TreeRests
<1>3. found = <<>> BY <1>1 DEF Asking
<1>4. Len(names) \in Nat \ {0} /\ DOMAIN names = 1..Len(names) BY EmptySeq, LenProperties
<1>5. \A i \in 1..Len(names) : Bytes(names[i]) \in Seq(Chars)
  <2> SUFFICES ASSUME NEW i \in 1..Len(names) PROVE Bytes(names[i]) \in Seq(Chars) OBVIOUS
  <2>1. names[i] \in S BY ElementOfSeq
  <2> QED BY <2>1, BytesAre
<1>6. strings' \in Seq(Seq(Chars)) /\ Len(strings') = Len(names) BY <1>1, <1>4, <1>5
<1>7. strings' # <<>> /\ strings'[1] = Bytes(names[1]) BY <1>1, <1>4, <1>6
<1>8. Head(strings') = strings'[1] BY <1>6, <1>7, HeadTailProperties
<1> QED BY <1>1, <1>2, <1>3, <1>6, <1>7, <1>8 DEF treeVars

(* A packet that asks for names begins with an empty text and register.     *)
LEMMA AskingStarts ==
    ASSUME TopicsInv, NEW k \in {"publish", "subunsub", "remote"},
           NEW names \in Seq(Names), Len(names) \in 1..MaxFilters,
           k # "subunsub" => Len(names) = 1 /\ ~names[1].wild,
           k = "remote" <=> who = "remote",
           Starts(k, names), text' \in Texts, text'.head = 0, topic' = NULL
    PROVE  Shape' /\ Building' /\ ReadTypes' /\ Asking' /\ Resolving'
<1> USE DEF TopicsInv
<1>1. names # <<>> /\ \A n \in Names : Formed(n) BY NamesFit DEF Fits
<1>2. /\ Shape' /\ Building' /\ UNCHANGED <<tree, root, todo>>
      /\ todo = <<>> /\ kind' = k /\ asked' = names /\ found' = <<>>
      /\ strings' \in Seq(Seq(Chars)) /\ Len(strings') = Len(names)
      /\ Head(strings') = Bytes(names[1])
      /\ UNCHANGED <<who, fresh, longest>>
  BY <1>1, StartsFacts
<1>3. names[1] \in Names /\ Fits(names[1])
  <2>1. 1 \in 1..Len(names) BY <1>1, EmptySeq
  <2> QED BY <2>1, ElementOfSeq, NamesFit
<1>4. ReadTypes'
  <2>1. topic' \in 0..Len(tree') /\ found' \in Seq(0..Len(tree'))
    <3>1. Len(tree) \in Nat BY NodeFacts
    <3> QED BY <1>2, <3>1 DEF NULL
  <2>2. who \in {"client", "remote"} /\ fresh \in BOOLEAN /\ longest \in Nat
    BY DEF ReadTypes
  <2>3. kind' \in IF who' = "client" THEN {"none", "connect", "publish", "subunsub"}
                                     ELSE {"none", "remote"}
    BY <1>2, <2>2
  <2> QED BY <1>2, <2>1, <2>2, <2>3 DEF ReadTypes, Texts
<1>5. Asking'
  <2>1. Len(found') = 0 /\ Len(names) \in Nat BY <1>2
  <2> QED BY <1>2, <2>1 DEF Asking
<1>6. Resolving'
  <2>1. Midway(names[1], Bytes(names[1]), text', topic') BY <1>3, MidwayStart
  <2>2. Midway(asked[1], Head(strings), text, topic)' BY <1>2, <2>1, MidwayNext
  <2> QED BY <1>2, <2>2 DEF Resolving
<1> QED BY <1>2, <1>4, <1>5, <1>6

(* ClientSends keeps the invariant: its first name is asked for at the top  *)
(* with an empty buffer.                                                    *)
LEMMA ClientSendsStep ==
    ASSUME TopicsInv, ClientSends
    PROVE  TopicsInv'
<1> USE DEF TopicsInv
<1>1. who = "client" /\ UNCHANGED <<text, topic>> BY DEF ClientSends
<1>2. text \in Texts BY DEF ReadTypes, Texts
<1>3. ASSUME fresh, NEW id \in Ids, Starts("connect", <<[path |-> <<id>>, wild |-> FALSE]>>)
      PROVE  TopicsInv'
  <2> DEFINE name == [path |-> <<id>>, wild |-> FALSE]
             names == <<name>>
  <2>1. Formed(name)
    <3>1. id \in Parts BY InputsAssumption
    <3>2. <<id>> \in Seq(Parts) /\ <<id>> # <<>> BY <3>1
    <3> QED BY <3>2 DEF Formed
  <2>2. names \in Seq({name}) /\ names # <<>> /\ Len(names) = 1 /\ names[1] = name OBVIOUS
  <2> HIDE DEF name
  <2>3. \A n \in {name} : Formed(n) BY <2>1
  <2>4. Starts("connect", names) BY <1>3 DEF name
  <2> HIDE DEF names
  <2>5. /\ Shape' /\ Building' /\ UNCHANGED <<tree, root, todo>>
        /\ kind = "none" /\ todo = <<>> /\ kind' = "connect" /\ asked' = names /\ found' = <<>>
        /\ strings' \in Seq(Seq(Chars)) /\ Len(strings') = Len(names)
        /\ UNCHANGED <<who, fresh, longest>>
    BY <2>2, <2>3, <2>4, StartsFacts
  <2>6. topic = NULL BY <1>1, <2>5 DEF Resolving
  <2>7. ReadTypes'
    <3>1. Len(tree) \in Nat BY NodeFacts
    <3>2. topic' \in 0..Len(tree') /\ found' \in Seq(0..Len(tree'))
      BY <1>1, <2>5, <2>6, <3>1 DEF NULL
    <3> QED BY <1>1, <2>5, <3>2 DEF ReadTypes
  <2>8. Asking'
    <3>1. asked'[1].path # <<>> BY <2>1, <2>2, <2>5 DEF Formed
    <3> QED BY <2>2, <2>5, <3>1 DEF Asking
  <2>9. Resolving' BY <1>1, <2>5, <2>6 DEF Resolving
  <2>10. LeftOver' BY <1>1, <2>5 DEF LeftOver
  <2> QED BY <2>5, <2>7, <2>8, <2>9, <2>10
<1>4. ASSUME ~fresh, NEW k \in {"publish", "subunsub"}, NEW names \in Seq(Names),
             Len(names) \in 1..MaxFilters, k = "publish" => Len(names) = 1 /\ ~names[1].wild,
             Starts(k, names)
      PROVE  TopicsInv'
  <2>1. kind = "none" /\ UNCHANGED <<who, longest>> BY <1>4 DEF Starts
  <2>2. text.head = 0 /\ topic = NULL BY <1>1, <1>4, <2>1 DEF Resolving
  <2>3. Shape' /\ Building' /\ ReadTypes' /\ Asking' /\ Resolving'
    BY <1>1, <1>2, <1>4, <2>2, AskingStarts
  <2>4. LeftOver' BY <1>1, <2>1 DEF LeftOver
  <2> QED BY <2>3, <2>4
<1>5. CASE fresh
  <2>1. PICK id \in Ids : Starts("connect", <<[path |-> <<id>>, wild |-> FALSE]>>)
    BY <1>5 DEF ClientSends
  <2> QED BY <1>3, <1>5, <2>1
<1>6. CASE ~fresh
  <2>1. MaxFilters \in Nat \ {0} BY InputsAssumption
  <2>2. CASE \E n \in Names : ~n.wild /\ Starts("publish", <<n>>)
    <3>1. PICK n \in Names : ~n.wild /\ Starts("publish", <<n>>) BY <2>2
    <3>2. <<n>> \in Seq(Names) /\ Len(<<n>>) = 1 /\ <<n>>[1] = n OBVIOUS
    <3>3. 1 \in 1..MaxFilters BY <2>1
    <3> QED BY <1>4, <1>6, <3>1, <3>2, <3>3
  <2>3. CASE \E k \in 1..MaxFilters : \E ns \in [1..k -> Names] : Starts("subunsub", ns)
    <3>1. PICK k \in 1..MaxFilters : \E ns \in [1..k -> Names] : Starts("subunsub", ns)
      BY <2>3
    <3>2. PICK ns \in [1..k -> Names] : Starts("subunsub", ns) BY <3>1
    <3>3. ns \in Seq(Names) /\ Len(ns) = k BY <2>1
    <3> QED BY <1>4, <1>6, <3>2, <3>3
  <2> QED BY <1>6, <2>2, <2>3 DEF ClientSends
<1> QED BY <1>5, <1>6

(* ReadByte keeps the invariant: the reader gets on by one byte of its      *)
(* name.                                                                    *)
LEMMA ReadByteStep ==
    ASSUME TopicsInv, ReadByte
    PROVE  TopicsInv'
<1> USE DEF TopicsInv
<1> DEFINE c == Head(Head(strings))
           m == Munch(text, topic, c)
<1>1. /\ kind # "none" /\ strings # <<>> /\ Head(strings) # <<>>
      /\ UNCHANGED treeVars /\ UNCHANGED <<kind, asked, found, who, fresh, longest>>
      /\ strings' = [strings EXCEPT ![1] = Tail(strings[1])]
      /\ kind = "connect" => text' = Put(text, c) /\ topic' = topic
      /\ kind # "connect" => text' = m.text /\ topic' = m.topic
  BY DEF ReadByte
<1>2. Shape' /\ Building' /\ UNCHANGED <<tree, root, todo>> /\ todo = <<>>
  <2>1. Shape' /\ Building' BY <1>1, TreeRests
  <2>2. todo = <<>> BY <1>1 DEF ReadTypes
  <2> QED BY <1>1, <2>1, <2>2 DEF treeVars
<1>3. text \in Texts /\ topic \in 0..Len(tree) /\ strings \in Seq(Seq(Chars))
  BY DEF ReadTypes, Texts
<1>4. Head(strings) \in Seq(Chars) /\ Head(strings) = strings[1] /\ 1 \in 1..Len(strings)
  BY <1>1, <1>3, HeadTailProperties, EmptySeq
<1>5. c \in Chars /\ Tail(Head(strings)) \in Seq(Chars) BY <1>1, <1>4, HeadTailProperties
<1>6. /\ strings' \in Seq(Seq(Chars)) /\ Len(strings') = Len(strings)
      /\ strings' # <<>> /\ Head(strings') = Tail(Head(strings))
  <2>1. /\ strings' \in Seq(Seq(Chars)) /\ Len(strings') = Len(strings)
        /\ strings'[1] = Tail(Head(strings))
    BY <1>1, <1>3, <1>4, <1>5, ExceptSeq
  <2>2. strings' # <<>> BY <1>4, <2>1
  <2> QED BY <2>1, <2>2, HeadTailProperties
<1> HIDE DEF c
<1>7. /\ m.text \in Texts /\ m.topic \in 0..Len(tree)
      /\ \A k \in 1..Room : m.text.mem[k] # Nul => text.mem[k] # Nul \/ k <= m.text.head
  BY <1>3, <1>5, MunchIs
<1> HIDE DEF m
<1>8. text' \in Texts /\ topic' \in 0..Len(tree') BY <1>1, <1>2, <1>3, <1>5, <1>7, PutIs
<1>9. ReadTypes' BY <1>1, <1>2, <1>6, <1>8 DEF ReadTypes, Texts
<1>10. Asking' BY <1>1, <1>6 DEF Asking
<1>11. kind \in {"publish", "subunsub", "remote"} /\ found = <<>> =>
           Fits(asked[1]) /\ Midway(asked[1], Head(strings'), text', topic')
  <2> SUFFICES ASSUME kind \in {"publish", "subunsub", "remote"}, found = <<>>
               PROVE  Fits(asked[1]) /\ Midway(asked[1], Head(strings'), text', topic')
    OBVIOUS
  <2>1. Midway(asked[1], Head(strings), text, topic) BY DEF Resolving
  <2>2. Fits(asked[1])
    <3>1. asked \in Seq(Names) /\ 1 \in 1..Len(asked) BY InputsAssumption DEF Asking
    <3> QED BY <3>1, ElementOfSeq, NamesFit
  <2>3. Midway(asked[1], Tail(Head(strings)), m.text, m.topic)
    BY <1>1, <1>3, <1>4, <2>1, <2>2, MidwayKept DEF c, m
  <2> QED BY <1>1, <1>6, <2>2, <2>3
<1>12. Resolving'
  <2>1. kind \in {"publish", "subunsub", "remote"} /\ found = <<>> =>
            Midway(asked[1], Head(strings), text, topic)'
    BY <1>1, <1>2, <1>11, MidwayNext
  <2>2. Descend(asked[1].path)' = Descend(asked[1].path) BY <1>1, <1>2, TreeStays
  <2>3. kind = "connect" => topic' = topic BY <1>1
  <2> QED BY <1>1, <2>1, <2>2, <2>3 DEF Resolving
<1>13. LeftOver'
  <2> SUFFICES ASSUME who = "remote", NEW k \in 1..Room, text'.mem[k] # Nul
               PROVE  k <= longest \/ (kind = "remote" /\ \E n \in Lengths(asked[1].path) : k <= n)
    BY <1>1 DEF LeftOver
  <2>1. kind = "remote" /\ text' = m.text BY <1>1 DEF ReadTypes
  <2>2. CASE text.mem[k] # Nul BY <2>2 DEF LeftOver
  <2>3. CASE k <= m.text.head
    <3>1. found = <<>>
      <4>1. Len(found) + Len(strings) = 1 BY <2>1 DEF Asking
      <4>2. Len(strings) \in Nat \ {0} BY <1>1, <1>3, EmptySeq
      <4>3. found \in Seq(0..Len(tree)) BY DEF ReadTypes
      <4>4. Len(found) = 0 BY <4>1, <4>2, <4>3, LenProperties
      <4> QED BY <4>3, <4>4, EmptySeq
    <3>2. Fits(asked[1]) /\ Midway(asked[1], Head(strings'), text', topic')
      BY <1>11, <2>1, <3>1
    <3>3. text'.head = 0 \/ \E n \in Lengths(asked[1].path) : text'.head <= n
      BY <3>2, MidwayWithin
    <3>4. \A n \in Lengths(asked[1].path) : n \in Nat
      <4>1. asked[1].path \in Seq(Parts) BY <3>2 DEF Fits, Formed
      <4>2. \A i \in 1..Len(asked[1].path) : asked[1].path[i] \in Parts BY <4>1, ElementOfSeq
      <4> QED BY <4>1, <4>2, PartFacts DEF Lengths
    <3>5. text'.head \in Nat /\ Room \in Nat BY <1>8, RoomAssumption DEF Texts
    <3> QED BY <2>1, <2>3, <3>3, <3>4, <3>5
  <2> QED BY <1>7, <2>1, <2>2, <2>3
<1> QED BY <1>2, <1>9, <1>10, <1>12, <1>13

(* EndClientId keeps the invariant.                                         *)
LEMMA EndClientIdStep ==
    ASSUME TopicsInv, EndClientId
    PROVE  TopicsInv'
<1> USE DEF TopicsInv
<1>1. /\ kind = "connect" /\ UNCHANGED treeVars
      /\ UNCHANGED <<kind, asked, topic, found, who, fresh, longest>>
      /\ text' = Emptied(text) /\ strings' = <<>>
  BY DEF EndClientId
<1>2. Shape' /\ Building' /\ UNCHANGED <<tree, root, todo>> BY <1>1, TreeRests DEF treeVars
<1>3. who = "client" BY <1>1 DEF ReadTypes
<1>4. text' \in Texts
  <2>1. text \in Texts BY DEF ReadTypes, Texts
  <2>2. Nul \in Chars BY DEF Chars
  <2> QED BY <1>1, <2>1, <2>2, PutIs
<1>5. ReadTypes'
  <2>1. strings' \in Seq(Seq(Chars)) BY <1>1
  <2> QED BY <1>1, <1>2, <1>4, <2>1 DEF ReadTypes, Texts
<1>6. Asking' BY <1>1 DEF Asking
<1>7. Resolving' BY <1>1 DEF Resolving
<1>8. LeftOver' BY <1>1, <1>3 DEF LeftOver
<1> QED BY <1>2, <1>5, <1>6, <1>7, <1>8

(* What the end of the first name resolves to.                              *)
LEMMA AskedFirst ==
    ASSUME TopicsInv, kind \in {"publish", "subunsub", "remote"}
    PROVE  /\ asked \in Seq(Names) /\ asked # <<>> /\ asked[1] \in Names
           /\ Fits(asked[1]) /\ asked[1].path \in Seq(Parts)
<1>1. asked \in Seq(Names) /\ 1 \in 1..Len(asked) BY InputsAssumption DEF TopicsInv, Asking
<1>2. asked[1] \in Names BY <1>1, ElementOfSeq
<1>3. Fits(asked[1]) BY <1>2, NamesFit
<1> QED BY <1>1, <1>2, <1>3 DEF Fits, Formed

(* What a sequence begins with once something is added at its end.          *)
LEMMA Appended ==
    ASSUME NEW S, NEW s \in Seq(S), NEW e \in S
    PROVE  /\ Append(s, e) \in Seq(S) /\ Append(s, e) # <<>>
           /\ Len(s) \in Nat /\ Len(Append(s, e)) = Len(s) + 1
           /\ Append(s, e)[1] = IF s = <<>> THEN e ELSE s[1]
<1>1. /\ Append(s, e) \in Seq(S) /\ Append(s, e) # <<>>
      /\ Len(Append(s, e)) = Len(s) + 1
      /\ Append(s, e)[Len(s) + 1] = e
      /\ \A k \in 1..Len(s) : Append(s, e)[k] = s[k]
  BY AppendProperties
<1>2. Len(s) \in Nat BY LenProperties
<1>3. CASE s = <<>>
  <2>1. Len(s) + 1 = 1 BY <1>3
  <2> QED BY <1>1, <1>2, <1>3, <2>1
<1>4. CASE s # <<>>
  <2>1. 1 \in 1..Len(s) BY <1>4, EmptySeq
  <2> QED BY <1>1, <1>2, <1>4, <2>1
<1> QED BY <1>3, <1>4

(* EndString keeps the invariant: the lookup of the last part ends the way  *)
(* down.                                                                    *)
LEMMA EndStringStep ==
    ASSUME TopicsInv, EndString
    PROVE  TopicsInv'
<1> USE DEF TopicsInv
<1> DEFINE last == IF text.head > 0 THEN Put(text, Nul) ELSE text
           node == IF text.head > 0 THEN Find(topic, CString(last)) ELSE topic
           N == Len(tree)
<1>1. /\ kind \in {"publish", "subunsub"} /\ strings # <<>> /\ Head(strings) = <<>>
      /\ UNCHANGED treeVars /\ UNCHANGED <<kind, asked, who, fresh, longest>>
      /\ text' = last /\ found' = Append(found, node) /\ topic' = NULL
      /\ strings' = Tail(strings)
  BY DEF EndString, AtEnd
<1>2. Shape' /\ Building' /\ UNCHANGED <<tree, root, todo>> BY <1>1, TreeRests DEF treeVars
<1>3. who = "client" /\ todo = <<>> BY <1>1 DEF ReadTypes
<1>4. /\ text \in Texts /\ topic \in 0..N /\ N \in Nat /\ Nul \in Chars
      /\ strings \in Seq(Seq(Chars)) /\ found \in Seq(0..N)
  BY NodeFacts DEF ReadTypes, Texts, Chars
<1>5. last \in Texts BY <1>4, PutIs
<1>6. node \in 0..N BY <1>4, FindIs
<1> HIDE DEF last
<1>7. found = <<>> => node = Descend(asked[1].path)
  <2> SUFFICES ASSUME found = <<>> PROVE node = Descend(asked[1].path) OBVIOUS
  <2> DEFINE part == Last(asked[1].path)
  <2>1. Fits(asked[1]) BY <1>1, AskedFirst
  <2>2. Midway(asked[1], <<>>, text, topic) BY <1>1 DEF Resolving
  <2>3. \/ /\ part \in Parts /\ Len(part) < Room
           /\ text.head = Len(part) /\ \A k \in 1..Len(part) : text.mem[k] = part[k]
           /\ Find(topic, part) = Descend(asked[1].path)
        \/ text.head = 0 /\ topic = Descend(asked[1].path)
    BY <2>1, <2>2, MidwayEnd
  <2>4. CASE /\ part \in Parts /\ Len(part) < Room
             /\ text.head = Len(part) /\ \A k \in 1..Len(part) : text.mem[k] = part[k]
             /\ Find(topic, part) = Descend(asked[1].path)
    <3> HIDE DEF part
    <3>1. Len(part) \in Nat /\ Len(part) > 0 /\ Room \in Nat
      BY <2>4, PartFacts, RoomAssumption
    <3>2. last = Put(text, Nul) BY <2>4, <3>1 DEF last
    <3>3. /\ last.mem[Len(part) + 1] = Nul
          /\ \A k \in 1..Room : k # Len(part) + 1 => last.mem[k] = text.mem[k]
      BY <1>4, <2>4, <3>2, PutIs
    <3>4. \A k \in 1..Len(part) : last.mem[k] = part[k]
      <4>1. \A k \in 1..Len(part) : k \in 1..Room /\ k # Len(part) + 1 BY <2>4, <3>1
      <4> QED BY <2>4, <3>3, <4>1
    <3>5. CString(last) = part BY <1>5, <2>4, <3>3, <3>4, CStringIs
    <3> QED BY <2>4, <3>1, <3>5
  <2>5. CASE text.head = 0 /\ topic = Descend(asked[1].path) BY <2>5
  <2> QED BY <2>3, <2>4, <2>5
<1> HIDE DEF node, N
<1>8. /\ found' \in Seq(0..N) /\ Len(found') = Len(found) + 1 /\ found' # <<>>
      /\ found'[1] = IF found = <<>> THEN node ELSE found[1]
      /\ Len(found) \in Nat
  <2> DEFINE S == 0..N
  <2>1. found \in Seq(S) /\ node \in S BY <1>4, <1>6
  <2> HIDE DEF S
  <2>2. /\ Append(found, node) \in Seq(S) /\ Append(found, node) # <<>>
        /\ Len(found) \in Nat /\ Len(Append(found, node)) = Len(found) + 1
        /\ Append(found, node)[1] = IF found = <<>> THEN node ELSE found[1]
    BY <2>1, Appended
  <2> QED BY <1>1, <2>2 DEF S
<1>9. strings' \in Seq(Seq(Chars)) /\ Len(strings') = Len(strings) - 1 /\ Len(strings) \in Nat
  BY <1>1, <1>4, HeadTailProperties, LenProperties
<1>10. ReadTypes'
  <2>1. topic' \in 0..Len(tree') /\ found' \in Seq(0..Len(tree'))
    BY <1>1, <1>2, <1>4, <1>8 DEF N, NULL
  <2> QED BY <1>1, <1>2, <1>3, <1>5, <1>9, <2>1 DEF ReadTypes, Texts
<1>11. Asking'
  <2>1. asked \in Seq(Names) /\ Len(asked) \in 1..MaxFilters
        /\ Len(found) + Len(strings) = Len(asked) /\ (kind = "publish" => Len(asked) = 1)
    BY <1>1 DEF Asking
  <2> DEFINE f == Len(found)
             r == Len(strings)
             g == Len(found')
             q == Len(strings')
             a == Len(asked)
  <2>2. f \in Nat /\ r \in Nat /\ f + r = a /\ g = f + 1 /\ q = r - 1
    BY <1>8, <1>9, <2>1
  <2>3. g + q = a
    <3> HIDE DEF f, r, g, q, a
    <3> QED BY <2>2
  <2> QED BY <1>1, <2>1, <2>3 DEF Asking
<1>12. Resolving'
  <2>1. found'[1] = Descend(asked[1].path)
    <3>1. found # <<>> => found[1] = Descend(asked[1].path) BY <1>1 DEF Resolving
    <3> QED BY <1>7, <1>8, <3>1
  <2>2. Descend(asked[1].path)' = Descend(asked[1].path) BY <1>1, <1>2, TreeStays
  <2> QED BY <1>1, <1>8, <2>1, <2>2 DEF Resolving
<1>13. LeftOver' BY <1>1, <1>3 DEF LeftOver
<1> QED BY <1>2, <1>10, <1>11, <1>12, <1>13

(* A packet is over: there is nothing being asked any more.                 *)
LEMMA BetweenStep ==
    ASSUME TopicsInv, Between, UNCHANGED treeVars, UNCHANGED who, who = "client",
           strings' = <<>>, longest' = longest, text' \in Texts, fresh' \in BOOLEAN,
           ~fresh' => text'.head = 0
    PROVE  TopicsInv'
<1> USE DEF TopicsInv
<1>1. kind' = "none" /\ asked' = <<>> /\ found' = <<>> /\ topic' = NULL BY DEF Between
<1>2. Shape' /\ Building' /\ UNCHANGED <<tree, root, todo>> BY TreeRests DEF treeVars
<1>3. ReadTypes'
  <2>1. Len(tree) \in Nat BY NodeFacts
  <2>2. topic' \in 0..Len(tree') /\ found' \in Seq(0..Len(tree')) BY <1>1, <1>2, <2>1 DEF NULL
  <2>3. strings' \in Seq(Seq(Chars)) OBVIOUS
  <2> QED BY <1>1, <1>2, <2>2, <2>3 DEF ReadTypes, Texts
<1>4. Asking' BY <1>1 DEF Asking
<1>5. Resolving' BY <1>1 DEF Resolving
<1>6. LeftOver' BY DEF LeftOver
<1> QED BY <1>2, <1>3, <1>4, <1>5, <1>6

(* Handled keeps the invariant: the next packet finds an empty buffer.      *)
LEMMA HandledStep ==
    ASSUME TopicsInv, Handled
    PROVE  TopicsInv'
<1>1. /\ who = "client" /\ strings = <<>> /\ Between /\ text' = Emptied(text) /\ fresh' = FALSE
      /\ UNCHANGED treeVars /\ UNCHANGED <<strings, who, longest>>
  BY DEF Handled
<1>2. text' \in Texts /\ text'.head = 0
  <2>1. text \in Texts /\ Nul \in Chars BY DEF TopicsInv, ReadTypes, Texts, Chars
  <2> QED BY <1>1, <2>1, PutIs
<1> QED BY <1>1, <1>2, BetweenStep

(* Lost keeps the invariant: the next client begins with a CONNECT, whose   *)
(* end empties the buffer.                                                  *)
LEMMA LostStep ==
    ASSUME TopicsInv, Lost
    PROVE  TopicsInv'
<1>1. /\ who = "client" /\ Between /\ strings' = <<>> /\ fresh' = TRUE
      /\ UNCHANGED treeVars /\ UNCHANGED <<text, who, longest>>
  BY DEF Lost
<1>2. text' \in Texts BY <1>1 DEF TopicsInv, ReadTypes, Texts
<1> QED BY <1>1, <1>2, BetweenStep

(* RemoteSends keeps the invariant.                                         *)
LEMMA RemoteSendsStep ==
    ASSUME TopicsInv, RemoteSends
    PROVE  TopicsInv'
<1> USE DEF TopicsInv
<1>1. who = "remote" /\ text' = Emptied(text) /\ topic' = NULL BY DEF RemoteSends
<1>2. PICK n \in Names : ~n.wild /\ Starts("remote", <<n>>) BY DEF RemoteSends
<1>3. text \in Texts /\ Nul \in Chars BY DEF ReadTypes, Texts, Chars
<1>4. text' \in Texts /\ text'.head = 0 /\ text'.mem = text.mem BY <1>1, <1>3, PutIs
<1>5. <<n>> \in Seq(Names) /\ Len(<<n>>) = 1 /\ <<n>>[1] = n OBVIOUS
<1>6. 1 \in 1..MaxFilters BY InputsAssumption
<1>7. Shape' /\ Building' /\ ReadTypes' /\ Asking' /\ Resolving'
  BY <1>1, <1>2, <1>4, <1>5, <1>6, AskingStarts
<1>8. kind = "none" /\ UNCHANGED <<who, longest>> BY <1>2 DEF Starts
<1>9. LeftOver' BY <1>4, <1>8 DEF LeftOver
<1> QED BY <1>7, <1>9

(* The lengths of a name's parts are numbers below the room.                *)
LEMMA LengthsAre ==
    ASSUME NEW name, Fits(name)
    PROVE  /\ \A n \in Lengths(name.path) : n \in Nat /\ n < Room
           /\ Last(name.path) \in Parts /\ Len(Last(name.path)) \in Lengths(name.path)
<1>1. /\ name.path \in Seq(Parts) /\ DOMAIN name.path = 1..Len(name.path)
      /\ Len(name.path) \in 1..Len(name.path)
  BY EmptySeq, LenProperties DEF Fits, Formed
<1>2. \A i \in 1..Len(name.path) : name.path[i] \in Parts BY <1>1, ElementOfSeq
<1>3. \A i \in 1..Len(name.path) : Len(name.path[i]) \in Nat /\ Len(name.path[i]) < Room
  BY <1>2, PartFacts DEF Fits
<1> QED BY <1>1, <1>2, <1>3 DEF Lengths, Last

(* RemoteEnd keeps the invariant: behind a part that is as long as any      *)
(* before it there is a NUL.                                                *)
LEMMA RemoteEndStep ==
    ASSUME TopicsInv, RemoteEnd
    PROVE  TopicsInv'
<1> USE DEF TopicsInv
<1> DEFINE path == asked[1].path
           part == Last(path)
           node == Find(topic, CString(text))
<1>1. /\ kind = "remote" /\ strings # <<>> /\ Head(strings) = <<>>
      /\ UNCHANGED treeVars /\ UNCHANGED <<kind, asked, text, who, fresh, longest>>
      /\ topic' = node /\ found' = <<node>> /\ strings' = <<>>
  BY DEF RemoteEnd, AtEnd
<1>2. Shape' /\ Building' /\ UNCHANGED <<tree, root, todo>> BY <1>1, TreeRests DEF treeVars
<1>3. who = "remote" /\ todo = <<>> BY <1>1 DEF ReadTypes
<1>4. text \in Texts /\ topic \in 0..Len(tree) /\ Len(tree) \in Nat
  BY NodeFacts DEF ReadTypes, Texts
<1>5. node \in 0..Len(tree) BY <1>4, FindIs
<1>6. /\ Fits(asked[1]) /\ asked \in Seq(Names) /\ Len(asked) = 1 /\ ~asked[1].wild
      /\ Len(asked) \in 1..MaxFilters /\ Len(found) + Len(strings) = 1
  BY <1>1, AskedFirst DEF Asking
<1>7. found = <<>>
  <2>1. strings \in Seq(Seq(Chars)) /\ found \in Seq(0..Len(tree)) BY DEF ReadTypes
  <2>2. Len(strings) \in Nat \ {0} BY <1>1, <2>1, EmptySeq
  <2>3. Len(found) = 0 BY <1>6, <2>1, <2>2, LenProperties
  <2> QED BY <2>1, <2>3, EmptySeq
<1>8. ASSUME \A n \in Lengths(path) \cup {longest} : n <= Len(part)
      PROVE  node = Descend(path)
  <2>1. Midway(asked[1], <<>>, text, topic) BY <1>1, <1>7 DEF Resolving
  <2>2. /\ part \in Parts /\ Len(part) < Room
        /\ text.head = Len(part) /\ \A k \in 1..Len(part) : text.mem[k] = part[k]
        /\ Find(topic, part) = Descend(path)
    BY <1>6, <2>1, MidwayEnd
  <2>3. Len(part) \in Nat /\ Room \in Nat /\ longest \in Nat
    BY <2>2, PartFacts, RoomAssumption DEF ReadTypes
  <2>4. text.mem[Len(part) + 1] = Nul
    <3> SUFFICES ASSUME text.mem[Len(part) + 1] # Nul PROVE FALSE OBVIOUS
    <3>1. Len(part) + 1 \in 1..Room BY <2>2, <2>3
    <3>2. \/ Len(part) + 1 <= longest
          \/ \E n \in Lengths(path) : Len(part) + 1 <= n
      BY <1>3, <3>1 DEF LeftOver
    <3>3. \A n \in Lengths(path) \cup {longest} : n \in Nat BY <1>6, <2>3, LengthsAre
    <3>4. PICK n \in Lengths(path) \cup {longest} : Len(part) + 1 <= n BY <3>2
    <3>5. n \in Nat /\ n <= Len(part) BY <1>8, <3>3
    <3> HIDE DEF part, path
    <3> QED BY <2>3, <3>4, <3>5
  <2> HIDE DEF part
  <2>5. CString(text) = part BY <1>4, <2>2, <2>4, CStringIs
  <2> QED BY <2>2, <2>5
<1> HIDE DEF node
<1>9. ReadTypes'
  <2>1. topic' \in 0..Len(tree') /\ found' \in Seq(0..Len(tree')) BY <1>1, <1>2, <1>5
  <2>2. strings' \in Seq(Seq(Chars)) BY <1>1
  <2> QED BY <1>1, <1>2, <1>3, <2>1, <2>2 DEF ReadTypes
<1>10. Asking'
  <2>1. Len(found') + Len(strings') = 1 BY <1>1
  <2> QED BY <1>1, <1>6, <2>1 DEF Asking
<1>11. Resolving'
  <2>1. Descend(asked[1].path)' = Descend(asked[1].path) BY <1>1, <1>2, TreeStays
  <2>2. found' # <<>> /\ found'[1] = node BY <1>1
  <2> QED BY <1>1, <1>3, <1>8, <2>1, <2>2 DEF Resolving
<1>12. LeftOver' BY <1>1 DEF LeftOver
<1> QED BY <1>2, <1>9, <1>10, <1>11, <1>12

(* RemoteHandsOn keeps the invariant: what is in the buffer is not longer   *)
(* than longest.                                                            *)
LEMMA RemoteHandsOnStep ==
    ASSUME TopicsInv, RemoteHandsOn
    PROVE  TopicsInv'
<1> USE DEF TopicsInv
<1> DEFINE S == {longest} \cup Lengths(asked[1].path)
<1>1. /\ kind = "remote" /\ strings = <<>> /\ UNCHANGED treeVars
      /\ UNCHANGED <<strings, text, topic, who, fresh>>
      /\ kind' = "none" /\ asked' = <<>> /\ found' = <<>> /\ longest' = Max(S)
  BY DEF RemoteHandsOn
<1>2. Shape' /\ Building' /\ UNCHANGED <<tree, root, todo>> BY <1>1, TreeRests DEF treeVars
<1>3. who = "remote" /\ todo = <<>> BY <1>1 DEF ReadTypes
<1>4. Max(S) \in Nat /\ \A n \in S : n <= Max(S)
  <2>1. Fits(asked[1]) BY <1>1, AskedFirst
  <2>2. \A n \in Lengths(asked[1].path) : n \in Nat /\ n < Room BY <2>1, LengthsAre
  <2>3. longest \in Nat /\ Room \in Nat BY RoomAssumption DEF ReadTypes
  <2>4. S \in SUBSET Nat /\ S # {} /\ longest + Room \in Nat BY <2>2, <2>3
  <2>5. \A n \in S : n <= longest + Room BY <2>2, <2>3
  <2> HIDE DEF S
  <2>6. Max(S) \in S /\ \A n \in S : n <= Max(S) BY <2>4, <2>5, GreatestOfSet
  <2> QED BY <2>4, <2>6
<1>5. ReadTypes'
  <2>1. found' \in Seq(0..Len(tree')) BY <1>1
  <2> QED BY <1>1, <1>2, <1>3, <1>4, <2>1 DEF ReadTypes
<1>6. Asking' BY <1>1 DEF Asking
<1>7. Resolving' BY <1>1, <1>3 DEF Resolving
<1>8. LeftOver'
  <2> SUFFICES ASSUME NEW k \in 1..Room, text.mem[k] # Nul PROVE k <= Max(S)
    BY <1>1 DEF LeftOver
  <2>1. k <= longest \/ \E n \in Lengths(asked[1].path) : k <= n BY <1>3 DEF LeftOver
  <2>2. PICK n \in S : k <= n BY <2>1
  <2>3. \A i \in S : i \in Nat
    <3>1. Fits(asked[1]) BY <1>1, AskedFirst
    <3>2. \A i \in Lengths(asked[1].path) : i \in Nat BY <3>1, LengthsAre
    <3> QED BY <3>2 DEF ReadTypes
  <2>4. Room \in Nat BY RoomAssumption
  <2> HIDE DEF S
  <2> QED BY <1>4, <2>2, <2>3, <2>4
<1> QED BY <1>2, <1>5, <1>6, <1>7, <1>8

(* Every step keeps the invariant.                                          *)
LEMMA TopicsNext == TopicsInv /\ [Next]_vars => TopicsInv'
<1> SUFFICES ASSUME TopicsInv, [Next]_vars PROVE TopicsInv' OBVIOUS
<1>1. CASE AddPart BY <1>1, AddPartStep
<1>2. CASE ReadByte BY <1>2, ReadByteStep
<1>3. CASE ClientSends BY <1>3, ClientSendsStep
<1>4. CASE EndClientId BY <1>4, EndClientIdStep
<1>5. CASE EndString BY <1>5, EndStringStep
<1>6. CASE Handled BY <1>6, HandledStep
<1>7. CASE Lost BY <1>7, LostStep
<1>8. CASE RemoteSends BY <1>8, RemoteSendsStep
<1>9. CASE RemoteEnd BY <1>9, RemoteEndStep
<1>10. CASE RemoteHandsOn BY <1>10, RemoteHandsOnStep
<1>11. CASE UNCHANGED vars
  <2> USE DEF TopicsInv
  <2>1. UNCHANGED treeVars /\ UNCHANGED <<tree, root, todo>>
        /\ UNCHANGED <<kind, asked, strings, text, topic, found, who, fresh, longest>>
    BY <1>11 DEF vars, treeVars, readVars
  <2>2. Shape' /\ Building' BY <2>1, TreeRests
  <2>3. ReadTypes' BY <2>1 DEF ReadTypes
  <2>4. Asking' BY <2>1 DEF Asking
  <2>5. Resolving'
    <3>1. Descend(asked[1].path)' = Descend(asked[1].path) BY <2>1, TreeStays
    <3>2. Midway(asked[1], Head(strings), text, topic)' <=>
          Midway(asked[1], Head(strings), text, topic)
      BY <2>1, MidwayNext
    <3> QED BY <2>1, <3>1, <3>2 DEF Resolving
  <2>6. LeftOver' BY <2>1 DEF LeftOver
  <2> QED BY <2>2, <2>3, <2>4, <2>5, <2>6
<1> QED BY <1>1, <1>2, <1>3, <1>4, <1>5, <1>6, <1>7, <1>8, <1>9, <1>10, <1>11 DEF Next

(* Everything that follows rests on this.                                   *)
THEOREM ResolverInPlace == Spec => []TopicsInv
<1>1. Init => TopicsInv BY TopicsInit
<1>2. TopicsInv /\ [Next]_vars => TopicsInv' BY TopicsNext
<1> QED BY <1>1, <1>2, PTL DEF Spec

-----------------------------------------------------------------------------
(* What the invariant says of the tree and of the names.                    *)

(* Every variable has its type, and the text buffer is never filled past    *)
(* its end, whatever the topics, the names and the room.                    *)
THEOREM TypeCorrect == Spec => []TypeOK
<1>1. ASSUME TopicsInv PROVE TypeOK
  <2> USE <1>1 DEF TopicsInv
  <2>1. \A n \in Nodes : tree[n] \in Node
    <3> SUFFICES ASSUME NEW n \in Nodes PROVE tree[n] \in Node OBVIOUS
    <3>1. /\ tree[n] \in [part : Parts, parent : Nat, child : Nat, sibling : Nat]
          /\ tree[n].part \in Parts /\ tree[n].parent \in 0..Len(tree)
          /\ tree[n].child \in 0..Len(tree) /\ tree[n].sibling \in 0..Len(tree)
      BY NodeFacts
    <3> QED BY <3>1 DEF Node
  <2>2. {root, level, topic} \subseteq 0..Len(tree) BY NodeFacts DEF Building, ReadTypes
  <2>3. kind \in {"none", "connect", "publish", "subunsub", "remote"} BY DEF ReadTypes
  <2>4. asked = <<>> \/ \A i \in DOMAIN asked : asked[i].path # <<>>
    <3>1. CASE kind \in {"publish", "subunsub", "remote"}
      <4>1. asked \in Seq(Names) BY <3>1 DEF Asking
      <4>2. \A i \in DOMAIN asked : asked[i] \in Names
        <5>1. DOMAIN asked = 1..Len(asked) BY <4>1, LenProperties
        <5> QED BY <4>1, <5>1, ElementOfSeq
      <4> QED BY <4>2, InputsAssumption
    <3> QED BY <2>3, <3>1 DEF Asking
  <2>5. Len(found) + Len(strings) <= MaxFilters
    <3>1. /\ Len(strings) \in Nat /\ Len(<<>>) = 0 /\ MaxFilters \in Nat \ {0}
      BY LenProperties, InputsAssumption DEF ReadTypes
    <3>2. CASE kind \in {"publish", "subunsub", "remote"}
      <4>1. Len(found) + Len(strings) = Len(asked) /\ Len(asked) \in 1..MaxFilters
        BY <3>2 DEF Asking
      <4> QED BY <3>1, <4>1
    <3>3. CASE kind = "connect"
      <4>1. Len(strings) <= 1 /\ found = <<>> BY <3>3 DEF Asking
      <4> QED BY <3>1, <4>1
    <3>4. CASE kind = "none"
      <4>1. strings = <<>> /\ found = <<>> BY <3>4 DEF Asking
      <4> QED BY <3>1, <4>1
    <3> QED BY <2>3, <3>2, <3>3, <3>4
  <2>6. \A i \in DOMAIN found : found[i] \in 0..Len(tree)
    <3>1. found \in Seq(0..Len(tree)) BY DEF ReadTypes
    <3>2. DOMAIN found = 1..Len(found) BY <3>1, LenProperties
    <3> QED BY <3>1, <3>2, ElementOfSeq
  <2>7. text.head \in 0..Room /\ DOMAIN text.mem = 1..Room BY DEF ReadTypes
  <2>8. who \in {"client", "remote"} /\ fresh \in BOOLEAN /\ longest \in Nat BY DEF ReadTypes
  <2> QED BY <2>1, <2>2, <2>3, <2>4, <2>5, <2>6, <2>7, <2>8 DEF TypeOK
<1> QED BY <1>1, ResolverInPlace, PTL

(* addtopicpart and attach keep every node in reach by its own path, and    *)
(* the topics that have been added are those that were asked for.           *)
THEOREM TreeStaysSound == Spec => []TreeSound
<1>1. ASSUME TopicsInv PROVE TreeSound
  <2> USE <1>1 DEF TopicsInv
  <2>1. \A n \in Nodes : Descend(PathOf[n]) = n
    <3>1. \A n \in Nodes : n \in 0..Len(tree) BY NodeFacts
    <3> QED BY <3>1, DescendToNode
  <2>2. ASSUME todo = <<>>
        PROVE  {PathOf[n] : n \in Nodes} = UNION {PathsTo(setup[i]) : i \in DOMAIN setup}
    <3>1. setup \in Seq(Seq(Parts) \ {<<>>}) BY InputsAssumption DEF Building
    <3>2. Done = Len(setup) /\ DOMAIN setup = 1..Len(setup)
      BY <2>2, <3>1, LenProperties DEF Done
    <3>3. level = 0 /\ PathOf[0] = <<>> BY <2>2, PathTo DEF Building, NULL
    <3>4. PathsTo(PathOf[level]) = {} BY <3>3 DEF PathsTo
    <3> HIDE DEF PathsTo
    <3>5. {PathOf[n] : n \in Nodes} =
          (UNION {PathsTo(setup[i]) : i \in 1..Done}) \cup PathsTo(PathOf[level])
      BY DEF Building
    <3> QED BY <3>2, <3>4, <3>5
  <2> QED BY <2>1, <2>2 DEF TreeSound
<1> QED BY <1>1, ResolverInPlace, PTL

(* A path of the tree leads down to the node it is the path of.             *)
LEMMA KnownDescends ==
    ASSUME Shape, NEW path, Known(path)
    PROVE  Descend(path) # NULL /\ PathOf[Descend(path)] = path
<1>1. PICK n \in Nodes : PathOf[n] = path BY DEF Known
<1>2. n \in 0..Len(tree) /\ n # 0 BY NodeFacts
<1>3. Descend(PathOf[n]) = n BY <1>2, DescendToNode
<1> QED BY <1>1, <1>2, <1>3 DEF NULL

(* A topic published to, or the first filter of a packet, that names a      *)
(* topic of the broker resolves to it, whatever the buffer held before.     *)
THEOREM KnownNamesResolve == Spec => []KnownTopicResolves
<1>1. ASSUME TopicsInv PROVE KnownTopicResolves
  <2> SUFFICES ASSUME kind \in {"publish", "subunsub"}, found # <<>>, Known(asked[1].path)
               PROVE  found[1] # NULL /\ PathOf[found[1]] = asked[1].path
    BY DEF KnownTopicResolves
  <2>1. found[1] = Descend(asked[1].path) BY <1>1 DEF TopicsInv, Resolving
  <2> QED BY <1>1, <2>1, KnownDescends DEF TopicsInv
<1> QED BY <1>1, ResolverInPlace, PTL

(* No topic is reached by text that does not end with its own path.         *)
THEOREM NothingIsInvented == Spec => []NothingInvented
<1>1. ASSUME TopicsInv PROVE NothingInvented
  <2> SUFFICES ASSUME kind \in {"publish", "subunsub"}, found # <<>>
               PROVE  IsSuffix(PathOf[found[1]], asked[1].path)
    BY DEF NothingInvented
  <2>1. found[1] = Descend(asked[1].path) BY <1>1 DEF TopicsInv, Resolving
  <2>2. asked[1].path \in Seq(Parts) BY <1>1, AskedFirst
  <2>3. Shape BY <1>1 DEF TopicsInv
  <2> QED BY <2>1, <2>2, <2>3, DescendEnds
<1> QED BY <1>1, ResolverInPlace, PTL

(* A publish of the remote on a topic of the broker resolves to it, as long *)
(* as no part before its last one was longer, here or in earlier publishes. *)
THEOREM RemoteNamesResolve == Spec => []RemoteResolves
<1>1. ASSUME TopicsInv PROVE RemoteResolves
  <2> DEFINE path == asked[1].path
             last == Len(Last(path))
  <2> SUFFICES ASSUME kind = "remote", found # <<>>, Known(path),
                      \A i \in DOMAIN path : Len(path[i]) <= last, longest <= last
               PROVE  found[1] # NULL /\ PathOf[found[1]] = path
    BY DEF RemoteResolves
  <2>1. \A n \in Lengths(path) \cup {longest} : n <= last BY DEF Lengths
  <2>2. found[1] = Descend(path) BY <1>1, <2>1 DEF TopicsInv, Resolving
  <2> QED BY <1>1, <2>2, KnownDescends DEF TopicsInv
<1> QED BY <1>1, ResolverInPlace, PTL

-----------------------------------------------------------------------------
(* The name of a node, written and read again.                              *)

WrittenBy(f) ==
    f = [n \in 1..Len(tree) |->
            (IF tree[n].parent = NULL THEN <<>> ELSE f[tree[n].parent] \o <<"/">>)
                \o tree[n].part]

(* What is written for a node: what is written for its parent, a slash, and *)
(* its part.                                                                *)
LEMMA WrittenIs ==
    ASSUME Shape
    PROVE  \A n \in Nodes :
               /\ Written(n) \in Seq(Chars)
               /\ Written(n) = (IF tree[n].parent = NULL THEN <<>>
                                ELSE Written(tree[n].parent) \o <<"/">>) \o tree[n].part
<1> DEFINE N == Len(tree)
           Lead(l, s) == IF l = NULL THEN <<>> ELSE s \o <<"/">>
           step == [q \in Seq(Chars) \X (1..N) |->
                       Lead(tree[q[2]].parent, q[1]) \o tree[q[2]].part]
<1>1. N \in Nat /\ Nodes = 1..N BY NodeFacts
<1>2. ASSUME NEW n \in 1..N, NEW s \in Seq(Chars)
      PROVE  Lead(tree[n].parent, s) \o tree[n].part \in Seq(Chars)
  <2>1. tree[n].part \in Seq(Chars) BY <1>1, NodeFacts, PartFacts
  <2>2. <<"/">> \in Seq(Chars) /\ <<>> \in Seq(Chars) BY DEF Chars
  <2>3. s \o <<"/">> \in Seq(Chars) BY <2>2, ConcatProperties
  <2>4. Lead(tree[n].parent, s) \in Seq(Chars) BY <2>2, <2>3
  <2> HIDE DEF Lead
  <2> QED BY <2>1, <2>4, ConcatProperties
<1>3. <<>> \in Seq(Chars) OBVIOUS
<1>4. Ranked(N, ParentPtr, Itself(N)) BY PointersRanked
<1>5. step \in [Seq(Chars) \X (1..N) -> Seq(Chars)]
  <2>1. ASSUME NEW q \in Seq(Chars) \X (1..N)
        PROVE  Lead(tree[q[2]].parent, q[1]) \o tree[q[2]].part \in Seq(Chars)
    <3>1. q[1] \in Seq(Chars) /\ q[2] \in 1..N OBVIOUS
    <3> HIDE DEF Lead, N
    <3> QED BY <1>2, <3>1
  <2> HIDE DEF Lead, N
  <2> QED BY <2>1
<1> HIDE DEF N, step, Lead
<1>6. PICK f : Follows(f, N, Seq(Chars), <<>>, ParentPtr, step) BY <1>3, <1>4, <1>5, Following
<1> DEFINE g == [n \in 1..N |-> f[n]]
<1>7. WrittenBy(g)
  <2>1. ASSUME NEW n \in 1..N
        PROVE  g[n] = (IF tree[n].parent = NULL THEN <<>> ELSE g[tree[n].parent] \o <<"/">>)
                         \o tree[n].part
    <3>1. ParentPtr[n] = tree[n].parent /\ tree[n].parent \in 0..N
          /\ f[ParentPtr[n]] \in Seq(Chars)
      BY <1>4, <1>6 DEF ParentPtr, Follows, Ranked, N
    <3>2. <<f[ParentPtr[n]], n>> \in Seq(Chars) \X (1..N) BY <3>1
    <3>3. f[n] = step[<<f[ParentPtr[n]], n>>] BY <1>6 DEF Follows
    <3>4. f[n] = Lead(tree[n].parent, f[tree[n].parent]) \o tree[n].part
      BY <3>1, <3>2, <3>3 DEF step
    <3>5. tree[n].parent # NULL => g[tree[n].parent] = f[tree[n].parent]
      BY <1>1, <3>1 DEF NULL
    <3> QED BY <3>4, <3>5 DEF Lead
  <2> QED BY <2>1 DEF WrittenBy, N
<1> HIDE DEF g
<1>8. PICK w : WrittenBy(w) /\ \A n : Written(n) = w[n] BY <1>7 DEF WrittenBy, Written
<1>9. \A n \in 1..N : w[n] = Lead(tree[n].parent, w[tree[n].parent]) \o tree[n].part
  BY <1>8 DEF WrittenBy, Lead, N
<1>10. \A n \in 1..N : w[n] \in Seq(Chars)
  <2> DEFINE Good == {n \in 0..N : n # 0 => w[n] \in Seq(Chars)}
  <2>1. 0 \in Good BY <1>1
  <2>2. ASSUME NEW n \in 1..N, ParentPtr[n] \in Good PROVE n \in Good
    <3>1. ParentPtr[n] = tree[n].parent BY DEF ParentPtr, N
    <3>2. CASE tree[n].parent = NULL
      <4>1. w[n] = Lead(tree[n].parent, <<>>) \o tree[n].part BY <1>9, <3>2 DEF Lead
      <4>2. w[n] \in Seq(Chars) BY <1>2, <1>3, <4>1
      <4> QED BY <1>1, <4>2
    <3>3. CASE tree[n].parent # NULL
      <4>1. w[tree[n].parent] \in Seq(Chars) BY <2>2, <3>1, <3>3 DEF NULL
      <4>2. w[n] \in Seq(Chars) BY <1>2, <1>9, <4>1
      <4> QED BY <1>1, <4>2
    <3> QED BY <3>2, <3>3
  <2> HIDE DEF Good
  <2>3. \A n \in 0..N : n \in Good BY <1>4, <2>1, <2>2, Carried
  <2> QED BY <1>1, <2>3 DEF Good
<1> QED BY <1>1, <1>8, <1>9, <1>10 DEF Lead

CountedBy(f) ==
    f = [n \in 1..Len(tree) |->
            (IF tree[n].parent = NULL THEN 0 ELSE f[tree[n].parent] + 1) + Len(tree[n].part)]

(* The length that is announced for a node, along its parents.              *)
LEMMA TopicLenIs ==
    ASSUME Shape
    PROVE  \A n \in Nodes :
               /\ TopicLen(n) \in Nat
               /\ TopicLen(n) = (IF tree[n].parent = NULL THEN 0
                                 ELSE TopicLen(tree[n].parent) + 1) + Len(tree[n].part)
<1> DEFINE N == Len(tree)
           Lead(l, k) == IF l = NULL THEN 0 ELSE k + 1
           step == [q \in Nat \X (1..N) |->
                       Lead(tree[q[2]].parent, q[1]) + Len(tree[q[2]].part)]
<1>1. N \in Nat /\ Nodes = 1..N BY NodeFacts
<1>2. ASSUME NEW n \in 1..N, NEW k \in Nat
      PROVE  Lead(tree[n].parent, k) + Len(tree[n].part) \in Nat
  <2>1. Len(tree[n].part) \in Nat BY <1>1, NodeFacts, PartFacts
  <2>2. Lead(tree[n].parent, k) \in Nat OBVIOUS
  <2> HIDE DEF Lead
  <2> QED BY <2>1, <2>2
<1>3. Ranked(N, ParentPtr, Itself(N)) BY PointersRanked
<1>4. step \in [Nat \X (1..N) -> Nat]
  <2>1. ASSUME NEW q \in Nat \X (1..N)
        PROVE  Lead(tree[q[2]].parent, q[1]) + Len(tree[q[2]].part) \in Nat
    <3>1. q[1] \in Nat /\ q[2] \in 1..N OBVIOUS
    <3> HIDE DEF Lead, N
    <3> QED BY <1>2, <3>1
  <2> HIDE DEF Lead, N
  <2> QED BY <2>1
<1> HIDE DEF N, step, Lead
<1>5. 0 \in Nat OBVIOUS
<1>6. PICK f : Follows(f, N, Nat, 0, ParentPtr, step) BY <1>3, <1>4, <1>5, Following
<1> DEFINE g == [n \in 1..N |-> f[n]]
<1>7. CountedBy(g)
  <2>1. ASSUME NEW n \in 1..N
        PROVE  g[n] = (IF tree[n].parent = NULL THEN 0 ELSE g[tree[n].parent] + 1)
                         + Len(tree[n].part)
    <3>1. ParentPtr[n] = tree[n].parent /\ tree[n].parent \in 0..N
          /\ f[ParentPtr[n]] \in Nat
      BY <1>3, <1>6 DEF ParentPtr, Follows, Ranked, N
    <3>2. <<f[ParentPtr[n]], n>> \in Nat \X (1..N) BY <3>1
    <3>3. f[n] = step[<<f[ParentPtr[n]], n>>] BY <1>6 DEF Follows
    <3>4. f[n] = Lead(tree[n].parent, f[tree[n].parent]) + Len(tree[n].part)
      BY <3>1, <3>2, <3>3 DEF step
    <3>5. tree[n].parent # NULL => g[tree[n].parent] = f[tree[n].parent]
      BY <1>1, <3>1 DEF NULL
    <3> QED BY <3>4, <3>5 DEF Lead
  <2> QED BY <2>1 DEF CountedBy, N
<1> HIDE DEF g
<1>8. PICK w : CountedBy(w) /\ \A n : TopicLen(n) = w[n] BY <1>7 DEF CountedBy, TopicLen
<1>9. \A n \in 1..N : w[n] = Lead(tree[n].parent, w[tree[n].parent]) + Len(tree[n].part)
  BY <1>8 DEF CountedBy, Lead, N
<1>10. \A n \in 1..N : w[n] \in Nat
  <2> DEFINE Good == {n \in 0..N : n # 0 => w[n] \in Nat}
  <2>1. 0 \in Good BY <1>1
  <2>2. ASSUME NEW n \in 1..N, ParentPtr[n] \in Good PROVE n \in Good
    <3>1. ParentPtr[n] = tree[n].parent BY DEF ParentPtr, N
    <3>2. CASE tree[n].parent = NULL
      <4>1. w[n] = Lead(tree[n].parent, 0) + Len(tree[n].part) BY <1>9, <3>2 DEF Lead
      <4>2. w[n] \in Nat BY <1>2, <1>5, <4>1
      <4> QED BY <1>1, <4>2
    <3>3. CASE tree[n].parent # NULL
      <4>1. w[tree[n].parent] \in Nat BY <2>2, <3>1, <3>3 DEF NULL
      <4>2. w[n] \in Nat BY <1>2, <1>9, <4>1
      <4> QED BY <1>1, <4>2
    <3> QED BY <3>2, <3>3
  <2> HIDE DEF Good
  <2>3. \A n \in 0..N : n \in Good BY <1>3, <2>1, <2>2, Carried
  <2> QED BY <1>1, <2>3 DEF Good
<1> QED BY <1>1, <1>8, <1>9, <1>10 DEF Lead

(* What is written is as long as what is announced.                         *)
LEMMA WrittenLength ==
    ASSUME Shape
    PROVE  \A n \in Nodes : Len(Written(n)) = TopicLen(n)
<1> DEFINE N == Len(tree)
           Good == {n \in 0..N : n # 0 => Len(Written(n)) = TopicLen(n)}
<1>1. N \in Nat /\ Nodes = 1..N BY NodeFacts
<1>2. 0 \in Good BY <1>1
<1>3. ASSUME NEW n \in 1..N, ParentPtr[n] \in Good PROVE n \in Good
  <2> DEFINE l == tree[n].parent
             part == tree[n].part
  <2>1. /\ ParentPtr[n] = l /\ l \in 0..N /\ n \in 0..N
        /\ part \in Seq(Chars) /\ Len(part) \in Nat
    BY <1>1, NodeFacts, PartFacts DEF ParentPtr
  <2>2. /\ Written(n) = (IF l = NULL THEN <<>> ELSE Written(l) \o <<"/">>) \o part
        /\ TopicLen(n) = (IF l = NULL THEN 0 ELSE TopicLen(l) + 1) + Len(part)
    BY <1>1, WrittenIs, TopicLenIs
  <2>3. CASE l = NULL
    <3>1. Len(<<>> \o part) = Len(part) BY <2>1, ConcatEmptySeq
    <3>2. Len(Written(n)) = TopicLen(n) BY <2>1, <2>2, <2>3, <3>1
    <3> QED BY <2>1, <3>2
  <2>4. CASE l # NULL
    <3>1. l \in Nodes /\ Len(Written(l)) = TopicLen(l) BY <1>1, <1>3, <2>1, <2>4 DEF NULL
    <3>2. Written(l) \in Seq(Chars) /\ TopicLen(l) \in Nat BY <3>1, WrittenIs, TopicLenIs
    <3>3. <<"/">> \in Seq(Chars) /\ Len(<<"/">>) = 1 BY DEF Chars
    <3> HIDE DEF l, part
    <3>4. Written(l) \o <<"/">> \in Seq(Chars) /\ Len(Written(l) \o <<"/">>) = TopicLen(l) + 1
      BY <3>1, <3>2, <3>3, ConcatProperties
    <3>5. Len((Written(l) \o <<"/">>) \o part) = Len(Written(l) \o <<"/">>) + Len(part)
      BY <2>1, <3>4, ConcatProperties
    <3>6. Len(Written(n)) = TopicLen(n) BY <2>2, <2>4, <3>4, <3>5
    <3> QED BY <2>1, <3>6
  <2> QED BY <2>3, <2>4
<1>4. \A n \in 0..N : n \in Good
  <2>1. Ranked(N, ParentPtr, Itself(N)) BY PointersRanked
  <2> HIDE DEF Good, N
  <2> QED BY <1>2, <1>3, <2>1, Carried
<1> QED BY <1>1, <1>4

Registers == [text : Texts, topic : 0..Len(tree)]
Blank == [text |-> [mem |-> [i \in 1..Room |-> Nul], head |-> 0], topic |-> NULL]

(* The registers of a reader, from the first byte of w to the last.         *)
ReadingOf(r, w) ==
    /\ r \in [0..Len(w) -> Registers] /\ r[0] = Blank
    /\ \A k \in 1..Len(w) : r[k] = Munch(r[k - 1].text, r[k - 1].topic, w[k])

Holds(reg, part, t) ==
    /\ reg.text.head = Len(part) /\ reg.topic = t
    /\ \A k \in 1..Len(part) : reg.text.mem[k] = part[k]

(* The letters of a part go into the buffer and leave the register alone.   *)
LEMMA ReadPart ==
    ASSUME Shape, NEW w \in Seq(Chars), NEW r, ReadingOf(r, w),
           NEW K \in 0..Len(w), NEW part \in Parts, Len(part) < Room,
           K + Len(part) <= Len(w), \A i \in 1..Len(part) : w[K + i] = part[i],
           r[K].text.head = 0
    PROVE  Holds(r[K + Len(part)], part, r[K].topic)
<1> DEFINE So(i) == /\ r[K + i].text.head = i /\ r[K + i].topic = r[K].topic
                    /\ \A k \in 1..i : r[K + i].text.mem[k] = part[k]
           Good == {i \in Nat : i <= Len(part) => So(i)}
<1>1. /\ K \in Nat /\ Len(w) \in Nat /\ Len(part) \in Nat /\ Room \in Nat
      /\ \A i \in 1..Len(part) : part[i] \in Letters
  BY PartFacts, LenProperties, RoomAssumption
<1>2. 0 \in Good
  <2>1. K + 0 = K BY <1>1
  <2> QED BY <2>1
<1>3. ASSUME NEW i \in Nat, i \in Good PROVE i + 1 \in Good
  <2> SUFFICES ASSUME i + 1 <= Len(part) PROVE So(i + 1) OBVIOUS
  <2> DEFINE c == part[i + 1]
             b == r[K + i].text
             t == r[K + i].topic
  <2>1. So(i) BY <1>1, <1>3
  <2>2. /\ K + i \in 0..Len(w) /\ K + (i + 1) \in 1..Len(w)
        /\ (K + (i + 1)) - 1 = K + i /\ i + 1 \in 1..Len(part)
    BY <1>1, SMTT(30)
  <2>3. r[K + (i + 1)] = Munch(b, t, c)
    <3>1. w[K + (i + 1)] = c BY <2>2
    <3>2. r[K + (i + 1)] =
            Munch(r[(K + (i + 1)) - 1].text, r[(K + (i + 1)) - 1].topic, w[K + (i + 1)])
      BY <2>2 DEF ReadingOf
    <3> QED BY <2>2, <3>1, <3>2
  <2>4. c \in Chars /\ c # "/" /\ c # "#" BY <1>1, <2>2, LettersAre
  <2>5. b \in Texts BY <2>2 DEF ReadingOf, Registers
  <2>6. r[K + (i + 1)].text = Put(b, c) /\ r[K + (i + 1)].topic = t
    BY <2>3, <2>4 DEF Munch
  <2>7. b.head = i /\ i < Room /\ i + 1 <= Room BY <1>1, <2>1
  <2>8. /\ Put(b, c).head = i + 1 /\ Put(b, c).mem[i + 1] = c
        /\ \A k \in 1..Room : k # i + 1 => Put(b, c).mem[k] = b.mem[k]
    <3> HIDE DEF b, c
    <3>1. c \in Chars /\ b.head < Room BY <2>4, <2>7
    <3> QED BY <2>5, <2>7, <3>1, PutIs
  <2>9. \A k \in 1..(i + 1) : Put(b, c).mem[k] = part[k]
    <3> SUFFICES ASSUME NEW k \in 1..(i + 1), k # i + 1 PROVE Put(b, c).mem[k] = part[k]
      BY <2>8
    <3>1. k \in 1..i /\ k \in 1..Room BY <1>1, <2>7
    <3> QED BY <2>1, <2>8, <3>1
  <2> QED BY <2>1, <2>6, <2>8, <2>9
<1>4. Len(part) \in Good
  <2> HIDE DEF Good
  <2> QED BY <1>1, <1>2, <1>3, Induction
<1> QED BY <1>1, <1>4 DEF Holds

(* A part with its end put behind it is what the lookup sees.               *)
LEMMA HeldPart ==
    ASSUME NEW reg, reg.text \in Texts, NEW part \in Parts, Len(part) < Room,
           NEW t, Holds(reg, part, t)
    PROVE  CString(Put(reg.text, Nul)) = part
<1> DEFINE b == reg.text
<1>1. Len(part) \in Nat /\ Room \in Nat /\ Nul \in Chars
  BY PartFacts, RoomAssumption DEF Chars
<1>2. b.head = Len(part) /\ \A k \in 1..Len(part) : b.mem[k] = part[k] BY DEF Holds
<1> HIDE DEF b
<1>3. b \in Texts BY DEF b
<1>4. /\ Put(b, Nul) \in Texts /\ Put(b, Nul).mem[Len(part) + 1] = Nul
      /\ \A k \in 1..Room : k # Len(part) + 1 => Put(b, Nul).mem[k] = b.mem[k]
  BY <1>1, <1>2, <1>3, PutIs
<1>5. \A k \in 1..Len(part) : Put(b, Nul).mem[k] = part[k]
  <2>1. \A k \in 1..Len(part) : k \in 1..Room /\ k # Len(part) + 1 BY <1>1
  <2> QED BY <1>2, <1>4, <2>1
<1> QED BY <1>4, <1>5, CStringIs DEF b

(* Where the letters are in a name that is written.                         *)
LEMMA CharsAt ==
    ASSUME NEW x \in Seq(Chars), NEW y \in Seq(Chars)
    PROVE  /\ x \o y \in Seq(Chars) /\ Len(x) \in Nat /\ Len(y) \in Nat
           /\ Len(x \o y) = Len(x) + Len(y)
           /\ \A i \in 1..(Len(x) + Len(y)) :
                  (x \o y)[i] = IF i <= Len(x) THEN x[i] ELSE y[i - Len(x)]
  BY ConcatProperties, LenProperties

(* Two sequences of bytes with one byte between them, byte by byte.         *)
LEMMA Joined ==
    ASSUME NEW v \in Seq(Chars), NEW slash \in Seq(Chars), Len(slash) = 1,
           NEW part \in Seq(Chars), NEW w, w = (v \o slash) \o part
    PROVE  /\ Len(w) = Len(v) + 1 + Len(part)
           /\ \A k \in 1..Len(v) : w[k] = v[k]
           /\ w[Len(v) + 1] = slash[1]
           /\ \A i \in 1..Len(part) : w[(Len(v) + 1) + i] = part[i]
<1> DEFINE K == Len(v)
           P == Len(part)
           u == v \o slash
<1>1. /\ u \in Seq(Chars) /\ Len(u) = K + Len(slash) /\ K \in Nat
      /\ \A k \in 1..(K + Len(slash)) : u[k] = IF k <= K THEN v[k] ELSE slash[k - K]
  BY CharsAt
<1> HIDE DEF u
<1>2. /\ Len(u \o part) = Len(u) + P /\ P \in Nat
      /\ \A k \in 1..(Len(u) + P) : (u \o part)[k] = IF k <= Len(u) THEN u[k] ELSE part[k - Len(u)]
  BY <1>1, CharsAt
<1>3. w = u \o part BY DEF u
<1> HIDE DEF K, P
<1>4. Len(u) = K + 1 /\ Len(w) = K + 1 + P BY <1>1, <1>2, <1>3
<1>5. ASSUME NEW k \in 1..(K + 1) PROVE w[k] = IF k <= K THEN v[k] ELSE slash[k - K]
  <2>1. k \in 1..(Len(u) + P) /\ k <= Len(u) /\ k \in 1..(K + Len(slash)) BY <1>1, <1>2, <1>4
  <2>2. w[k] = u[k] BY <1>2, <1>3, <2>1
  <2> QED BY <1>1, <2>1, <2>2
<1>6. w[K + 1] = slash[1]
  <2>1. K + 1 \in 1..(K + 1) /\ ~(K + 1 <= K) /\ (K + 1) - K = 1 BY <1>1
  <2> QED BY <1>5, <2>1
<1>7. ASSUME NEW k \in 1..K PROVE w[k] = v[k]
  <2>1. k \in 1..(K + 1) /\ k <= K BY <1>1
  <2> QED BY <1>5, <2>1
<1>8. ASSUME NEW i \in 1..P PROVE w[(K + 1) + i] = part[i]
  <2>1. /\ (K + 1) + i \in 1..(Len(u) + P) /\ ~((K + 1) + i <= Len(u))
        /\ ((K + 1) + i) - Len(u) = i
    BY <1>1, <1>2, <1>4
  <2> QED BY <1>2, <1>3, <2>1
<1> QED BY <1>4, <1>6, <1>7, <1>8 DEF K, P

(* A reader that is at the end of the name of l goes on, with a slash and a *)
(* part, to a buffer with that part and a register with l.                  *)
LEMMA ReadOn ==
    ASSUME Shape, NEW l \in Nodes, Len(tree[l].part) < Room,
           NEW v \in Seq(Chars), NEW part \in Parts, Len(part) < Room,
           NEW w \in Seq(Chars), w = (v \o <<"/">>) \o part,
           \A q : ReadingOf(q, v) => Holds(q[Len(v)], tree[l].part, tree[l].parent),
           NEW r, ReadingOf(r, w)
    PROVE  Holds(r[Len(w)], part, l)
<1> DEFINE K == Len(v)
           W == Len(w)
           P == Len(part)
           q == [k \in 0..K |-> r[k]]
<1>1. /\ K \in Nat /\ P \in Nat /\ W = K + 1 + P /\ w[K + 1] = "/"
      /\ \A k \in 1..K : w[k] = v[k]
      /\ \A i \in 1..P : w[(K + 1) + i] = part[i]
  <2> DEFINE slash == <<"/">>
  <2>1. slash \in Seq(Chars) /\ Len(slash) = 1 /\ slash[1] = "/" BY DEF Chars
  <2> HIDE DEF slash
  <2>2. w = (v \o slash) \o part BY DEF slash
  <2>3. part \in Seq(Chars) /\ P \in Nat /\ K \in Nat BY PartFacts, LenProperties
  <2> QED BY <2>1, <2>2, <2>3, Joined
<1>2. /\ r \in [0..W -> Registers] /\ r[0] = Blank
      /\ \A k \in 1..W : r[k] = Munch(r[k - 1].text, r[k - 1].topic, w[k])
  BY DEF ReadingOf
<1>3. ReadingOf(q, v) <=>
          /\ q \in [0..K -> Registers] /\ q[0] = Blank
          /\ \A k \in 1..K : q[k] = Munch(q[k - 1].text, q[k - 1].topic, v[k])
  <2> HIDE DEF q
  <2> QED BY DEF ReadingOf
<1>4. ReadingOf(q, v) => Holds(q[K], tree[l].part, tree[l].parent)
  <2> HIDE DEF q
  <2> QED OBVIOUS
<1> HIDE DEF K, W, P
<1>5. \A k \in 0..K : k \in 0..W /\ q[k] = r[k] BY <1>1
<1>6. ReadingOf(q, v)
  <2>1. q \in [0..K -> Registers] BY <1>2, <1>5
  <2>2. q[0] = Blank BY <1>1, <1>2, <1>5
  <2>3. ASSUME NEW k \in 1..K PROVE q[k] = Munch(q[k - 1].text, q[k - 1].topic, v[k])
    <3>1. k \in 0..K /\ k - 1 \in 0..K /\ k \in 1..W BY <1>1
    <3>2. r[k] = Munch(r[k - 1].text, r[k - 1].topic, v[k]) BY <1>1, <1>2, <3>1
    <3>3. q[k] = r[k] /\ q[k - 1] = r[k - 1] BY <1>5, <3>1
    <3> QED BY <3>2, <3>3, Zenon
  <2> HIDE DEF q
  <2> QED BY <1>3, <2>1, <2>2, <2>3
<1>7. Holds(r[K], tree[l].part, tree[l].parent)
  <2>1. K \in 0..K BY <1>1
  <2>2. q[K] = r[K] BY <1>5, <2>1
  <2> HIDE DEF q
  <2> QED BY <1>4, <1>6, <2>2
<1> HIDE DEF q
<1>8. /\ r[K].text \in Texts /\ tree[l].part \in Parts
      /\ tree[l].parent \in 0..Len(tree)
  <2>1. K \in 0..W BY <1>1
  <2>2. r[K] \in Registers BY <1>2, <2>1
  <2> QED BY <2>2, NodeFacts DEF Registers
<1>9. r[K + 1].text.head = 0 /\ r[K + 1].topic = l
  <2>1. r[K + 1] = Munch(r[K].text, r[K].topic, "/")
    <3>1. K + 1 \in 1..W /\ (K + 1) - 1 = K BY <1>1
    <3>2. r[K + 1] = Munch(r[(K + 1) - 1].text, r[(K + 1) - 1].topic, w[K + 1])
      BY <1>2, <3>1
    <3> QED BY <1>1, <3>1, <3>2
  <2>2. CString(Put(r[K].text, Nul)) = tree[l].part BY <1>7, <1>8, HeldPart
  <2>3. r[K].text.head > 0 /\ r[K].topic = tree[l].parent
    BY <1>7, <1>8, PartFacts DEF Holds
  <2>4. Find(tree[l].parent, tree[l].part) = l BY <1>8, FindIs
  <2>5. Emptied(Put(r[K].text, Nul)).head = 0
    <3>1. Nul \in Chars BY DEF Chars
    <3>2. Put(r[K].text, Nul) \in Texts BY <1>8, <3>1, PutIs
    <3> QED BY <3>1, <3>2, PutIs
  <2> QED BY <2>1, <2>2, <2>3, <2>4, <2>5 DEF Munch
<1>10. K + 1 \in 0..W /\ (K + 1) + P <= W /\ (K + 1) + P = W BY <1>1
<1>11. Holds(r[(K + 1) + P], part, r[K + 1].topic)
  <2> DEFINE J == K + 1
  <2> HIDE DEF J
  <2>1. J \in 0..Len(w) /\ J + Len(part) <= Len(w) BY <1>10 DEF J, W, P
  <2>2. \A i \in 1..Len(part) : w[J + i] = part[i] BY <1>1 DEF J, P
  <2>3. r[J].text.head = 0 BY <1>9 DEF J
  <2>4. Holds(r[J + Len(part)], part, r[J].topic) BY <2>1, <2>2, <2>3, ReadPart
  <2> QED BY <2>4 DEF J, P
<1> QED BY <1>9, <1>10, <1>11 DEF W

(* At the end of a node's name the buffer holds its part, and the register  *)
(* the node it hangs on.                                                    *)
LEMMA ReadNode ==
    ASSUME Shape, \A n \in Nodes : Len(tree[n].part) < Room
    PROVE  \A n \in Nodes : \A r :
               ReadingOf(r, Written(n)) =>
                   Holds(r[Len(Written(n))], tree[n].part, tree[n].parent)
<1> DEFINE N == Len(tree)
           Good == {n \in 0..N : n # 0 => \A r :
                       ReadingOf(r, Written(n)) =>
                           Holds(r[Len(Written(n))], tree[n].part, tree[n].parent)}
<1>1. N \in Nat /\ Nodes = 1..N BY NodeFacts
<1>2. 0 \in Good BY <1>1
<1>3. ASSUME NEW n \in 1..N, ParentPtr[n] \in Good PROVE n \in Good
  <2> DEFINE l == tree[n].parent
             part == tree[n].part
             w == Written(n)
  <2>1. /\ ParentPtr[n] = l /\ l \in 0..N /\ n \in 0..N
        /\ part \in Parts /\ part \in Seq(Chars) /\ Len(part) \in Nat /\ Len(part) < Room
    BY <1>1, NodeFacts, PartFacts DEF ParentPtr
  <2>2. /\ w = (IF l = NULL THEN <<>> ELSE Written(l) \o <<"/">>) \o part
        /\ w \in Seq(Chars)
    BY <1>1, WrittenIs
  <2> SUFFICES ASSUME NEW r, ReadingOf(r, w) PROVE Holds(r[Len(w)], part, l)
    BY <2>1
  <2>3. CASE l = NULL
    <3>1. w = part BY <2>1, <2>2, <2>3, ConcatEmptySeq
    <3>2. r[0].text.head = 0 /\ r[0].topic = NULL BY DEF ReadingOf, Blank
    <3>3. 0 \in 0..Len(w) /\ 0 + Len(part) <= Len(w) /\ 0 + Len(part) = Len(w)
          /\ \A i \in 1..Len(part) : w[0 + i] = part[i]
      BY <2>1, <3>1
    <3> HIDE DEF w, part, l
    <3>4. Holds(r[0 + Len(part)], part, r[0].topic) BY <2>1, <2>2, <3>2, <3>3, ReadPart
    <3> QED BY <2>3, <3>2, <3>3, <3>4
  <2>4. CASE l # NULL
    <3> DEFINE v == Written(l)
    <3>1. l \in Nodes /\ Len(tree[l].part) < Room
      <4>1. l \in Nodes BY <1>1, <2>1, <2>4 DEF NULL
      <4> QED BY <4>1
    <3>2. v \in Seq(Chars) /\ w = (v \o <<"/">>) \o part BY <2>2, <2>4, <3>1, WrittenIs
    <3>3. \A q : ReadingOf(q, v) => Holds(q[Len(v)], tree[l].part, tree[l].parent)
      BY <1>3, <2>1, <2>4 DEF NULL
    <3> HIDE DEF v, w, part, l
    <3> QED BY <2>1, <2>2, <3>1, <3>2, <3>3, ReadOn
  <2> QED BY <2>3, <2>4
<1>4. \A n \in 0..N : n \in Good
  <2>1. Ranked(N, ParentPtr, Itself(N)) BY PointersRanked
  <2> HIDE DEF Good, N
  <2> QED BY <1>2, <1>3, <2>1, Carried
<1> QED BY <1>1, <1>4

(* No part of the tree is too long for the text buffer.                     *)
LEMMA EndOfPath ==
    ASSUME NEW path \in Seq(Parts), NEW k \in 1..Len(path), NEW front \in Seq(Parts),
           NEW part \in Parts, Append(front, part) = SubSeq(path, 1, k)
    PROVE  part = path[k]
<1> DEFINE whole == Append(front, part)
<1>1. whole[Len(front) + 1] = part /\ Len(whole) = Len(front) + 1 BY AppendProperties
<1>2. Len(path) \in Nat BY LenProperties
<1>3. \A i \in 1..k : path[i] \in Parts BY <1>2, ElementOfSeq
<1>4. Len(SubSeq(path, 1, k)) = k /\ SubSeq(path, 1, k)[k] = path[k]
  BY <1>2, <1>3, SubSeqProperties
<1> QED BY <1>1, <1>4

(* The topics of the setup fit into the text buffer part by part.           *)
LEMMA SetupFits ==
    ASSUME Building, NEW i \in 1..Len(setup)
    PROVE  setup[i] \in Seq(Parts) /\ \A k \in 1..Len(setup[i]) : Len(setup[i][k]) < Room
<1>1. setup \in Setups /\ setup \in Seq(Seq(Parts) \ {<<>>}) BY InputsAssumption DEF Building
<1>2. DOMAIN setup = 1..Len(setup) BY <1>1, LenProperties
<1>3. setup[i] \in Seq(Parts) \ {<<>>} BY <1>1, ElementOfSeq
<1>4. setup[i] \in ToSet(setup) BY <1>2 DEF ToSet
<1>5. setup[i] \in {n.path : n \in Names} \cup (UNION {ToSet(s) : s \in Setups})
  BY <1>1, <1>4
<1>6. DOMAIN setup[i] = 1..Len(setup[i]) BY <1>3, LenProperties
<1> QED BY <1>3, <1>5, <1>6, RoomAssumption

(* The parts of the tree are those of the setup, and fit into the text      *)
(* buffer.                                                                  *)
LEMMA PartsFit ==
    ASSUME Shape, Building
    PROVE  \A n \in Nodes : Len(tree[n].part) < Room
<1> SUFFICES ASSUME NEW n \in Nodes PROVE Len(tree[n].part) < Room OBVIOUS
<1> DEFINE l == tree[n].parent
           part == tree[n].part
<1>1. /\ part \in Parts /\ PathOf[l] \in Seq(Parts) /\ PathOf[n] = Append(PathOf[l], part)
      /\ PathOf[level] \in Seq(Parts)
  BY NodeFacts, PathTo DEF Building
<1>2. /\ todo \in Seq(Seq(Parts) \ {<<>>}) /\ Len(todo) \in Nat /\ Len(setup) \in Nat
      /\ Len(todo) <= Len(setup)
  BY LenProperties, InputsAssumption DEF Building
<1>3. /\ todo # <<>> => setup[Done + 1] = PathOf[level] \o Head(todo)
      /\ todo = <<>> => level = NULL
      /\ {PathOf[m] : m \in Nodes} =
            (UNION {PathsTo(setup[i]) : i \in 1..Done}) \cup PathsTo(PathOf[level])
  BY DEF Building
<1>4. \/ \E i \in 1..Done : PathOf[n] \in PathsTo(setup[i])
      \/ PathOf[n] \in PathsTo(PathOf[level])
  <2> HIDE DEF PathsTo
  <2>1. PathOf[n] \in {PathOf[m] : m \in Nodes} OBVIOUS
  <2> QED BY <1>3, <2>1
<1>5. ASSUME NEW i \in 1..Done, PathOf[n] \in PathsTo(setup[i]) PROVE Len(part) < Room
  <2>1. i \in 1..Len(setup) BY <1>2 DEF Done
  <2>2. PICK k \in 1..Len(setup[i]) : PathOf[n] = SubSeq(setup[i], 1, k)
    BY <1>5 DEF PathsTo
  <2>3. setup[i] \in Seq(Parts) /\ Len(setup[i][k]) < Room BY <2>1, SetupFits
  <2> HIDE DEF part, l
  <2> DEFINE path == setup[i]
             front == PathOf[l]
  <2>4. /\ path \in Seq(Parts) /\ k \in 1..Len(path) /\ front \in Seq(Parts)
        /\ part \in Parts /\ Append(front, part) = SubSeq(path, 1, k)
    BY <1>1, <2>2, <2>3
  <2> HIDE DEF path, front
  <2>5. part = path[k] BY <2>4, EndOfPath
  <2> QED BY <2>3, <2>5 DEF path
<1>6. ASSUME PathOf[n] \in PathsTo(PathOf[level]) PROVE Len(part) < Room
  <2> DEFINE path == PathOf[level]
             rest == Head(todo)
  <2>1. PICK k \in 1..Len(path) : PathOf[n] = SubSeq(path, 1, k) BY <1>6 DEF PathsTo
  <2>2. todo # <<>>
    <3> SUFFICES ASSUME todo = <<>> PROVE FALSE OBVIOUS
    <3>1. path = <<>> BY <1>3, PathTo DEF NULL
    <3> QED BY <3>1
  <2>3. Done + 1 \in 1..Len(setup) /\ rest \in Seq(Parts)
    <3>1. Len(todo) > 0 BY <1>2, <2>2, EmptySeq
    <3>2. rest \in Seq(Parts) \ {<<>>} BY <1>2, <2>2, HeadTailProperties
    <3> QED BY <1>2, <3>1, <3>2 DEF Done
  <2> DEFINE topic1 == setup[Done + 1]
  <2>4. topic1 = path \o rest BY <1>3, <2>2
  <2>5. \A j \in 1..Len(topic1) : Len(topic1[j]) < Room BY <2>3, SetupFits
  <2> HIDE DEF topic1, part, l, path, rest
  <2>6. part = path[k] BY <1>1, <2>1, EndOfPath DEF path
  <2>7. k \in 1..Len(topic1) /\ topic1[k] = path[k]
    <3>1. path \in Seq(Parts) BY <1>1 DEF path
    <3>2. /\ Len(path \o rest) = Len(path) + Len(rest)
          /\ \A j \in 1..(Len(path) + Len(rest)) :
                 (path \o rest)[j] = IF j <= Len(path) THEN path[j] ELSE rest[j - Len(path)]
          /\ Len(path) \in Nat /\ Len(rest) \in Nat
      BY <2>3, <3>1, ConcatProperties, LenProperties
    <3>3. k \in 1..(Len(path) + Len(rest)) /\ k <= Len(path) BY <3>2
    <3> QED BY <2>4, <3>2, <3>3
  <2> QED BY <2>5, <2>6, <2>7
<1> QED BY <1>4, <1>5, <1>6

(* There is a reading of every sequence of bytes.                           *)
ReadsAs(r, w) ==
    r = [k \in 0..Len(w) |->
            IF k = 0 THEN [text |-> [mem |-> [i \in 1..Room |-> Nul], head |-> 0], topic |-> NULL]
            ELSE Munch(r[k - 1].text, r[k - 1].topic, w[k])]

(* There is a reading of every sequence of bytes, and its registers keep    *)
(* their types.                                                             *)
LEMMA Reads ==
    ASSUME Shape, NEW w \in Seq(Chars)
    PROVE  /\ \E r : ReadsAs(r, w)
           /\ \A r : ReadsAs(r, w) => ReadingOf(r, w)
<1> DEFINE N == Len(w)
           S == Registers
           step == [q \in S \X (1..N) |-> Munch(q[1].text, q[1].topic, w[q[2]])]
<1>1. N \in Nat /\ \A k \in 1..N : w[k] \in Chars BY ElementOfSeq, LenProperties
<1>2. Blank \in S
  <2>1. Nul \in Chars /\ Room \in Nat /\ NULL \in 0..Len(tree)
    BY NodeFacts, RoomAssumption DEF Chars, NULL
  <2>2. [mem |-> [i \in 1..Room |-> Nul], head |-> 0] \in Texts BY <2>1 DEF Texts
  <2> QED BY <2>1, <2>2 DEF Blank, Registers
<1>3. ASSUME NEW reg \in S, NEW k \in 1..N PROVE Munch(reg.text, reg.topic, w[k]) \in S
  <2>1. reg.text \in Texts /\ reg.topic \in 0..Len(tree) /\ w[k] \in Chars
    BY <1>1 DEF Registers
  <2> DEFINE m == Munch(reg.text, reg.topic, w[k])
  <2>2. m.text \in Texts /\ m.topic \in 0..Len(tree) BY <2>1, MunchIs
  <2>3. m = [text |-> m.text, topic |-> m.topic] BY DEF Munch
  <2> HIDE DEF m
  <2>4. m \in Registers BY <2>2, <2>3 DEF Registers
  <2> QED BY <2>4 DEF m
<1>4. step \in [S \X (1..N) -> S]
  <2>1. ASSUME NEW q \in S \X (1..N) PROVE Munch(q[1].text, q[1].topic, w[q[2]]) \in S
    <3>1. q[1] \in S /\ q[2] \in 1..N OBVIOUS
    <3> HIDE DEF S, N
    <3> QED BY <1>3, <3>1
  <2> HIDE DEF S, N
  <2> QED BY <2>1
<1>5. Ranked(N, Before(N), Itself(N)) BY <1>1, CountingRanked
<1>6. \E r : ReadsAs(r, w)
  <2> HIDE DEF N, S, step
  <2> PICK g : Follows(g, N, S, Blank, Before(N), step) BY <1>2, <1>4, <1>5, Following
  <2>1. ASSUME NEW k \in 1..N PROVE g[k] = Munch(g[k - 1].text, g[k - 1].topic, w[k])
    <3>1. g[k] = step[<<g[Before(N)[k]], k>>] BY DEF Follows
    <3>2. Before(N)[k] = k - 1 /\ g[Before(N)[k]] \in S
      BY <1>5 DEF Before, Follows, Ranked
    <3>3. <<g[k - 1], k>> \in S \X (1..N) BY <3>2
    <3> QED BY <3>1, <3>2, <3>3 DEF step
  <2>2. \A k \in 0..N : k # 0 => k \in 1..N BY <1>1
  <2>3. \A k \in 0..N : g[k] = IF k = 0 THEN Blank
                                ELSE Munch(g[k - 1].text, g[k - 1].topic, w[k])
    BY <2>1, <2>2 DEF Follows
  <2>4. g \in [0..N -> S] BY DEF Follows
  <2>5. ReadsAs(g, w) BY <2>3, <2>4 DEF N, ReadsAs, Blank
  <2> QED BY <2>5
<1>7. ASSUME NEW r, ReadsAs(r, w) PROVE ReadingOf(r, w)
  <2>1. /\ r[0] = Blank /\ DOMAIN r = 0..N
        /\ \A k \in 1..N : r[k] = Munch(r[k - 1].text, r[k - 1].topic, w[k])
    <3>1. 0 \in 0..N /\ \A k \in 1..N : k \in 0..N /\ k # 0 BY <1>1
    <3> QED BY <1>7, <3>1 DEF ReadsAs, Blank
  <2> DEFINE Good == {k \in 0..N : r[k] \in S}
  <2> HIDE DEF S
  <2>2. 0 \in Good
    <3>1. 0 \in 0..N BY <1>1
    <3> QED BY <1>2, <2>1, <3>1
  <2>3. ASSUME NEW k \in 1..N, Before(N)[k] \in Good PROVE k \in Good
    <3>1. r[k - 1] \in S BY <2>3 DEF Before
    <3>2. Munch(r[k - 1].text, r[k - 1].topic, w[k]) \in S BY <1>3, <3>1
    <3>3. k \in 0..N BY <1>1
    <3> QED BY <2>1, <3>2, <3>3
  <2>4. \A k \in 0..N : k \in Good
    <3> HIDE DEF Good, N
    <3> QED BY <1>5, <2>2, <2>3, Carried
  <2>5. r = [k \in 0..N |-> r[k]] BY <1>7 DEF ReadsAs
  <2>6. r \in [0..N -> S] BY <2>4, <2>5
  <2> QED BY <2>1, <2>6 DEF ReadingOf, S
<1> QED BY <1>6, <1>7

(* What is written for a topic is as long as it announces, and a reader     *)
(* with the same tree resolves it to the same topic.                        *)
THEOREM NamesGoRound == Spec => []NameRoundTrip
<1>1. ASSUME TopicsInv PROVE NameRoundTrip
  <2>1. Shape /\ Building BY <1>1 DEF TopicsInv
  <2> SUFFICES ASSUME NEW n \in Nodes
               PROVE  LET read[k \in 0..Len(Written(n))] ==
                              IF k = 0
                              THEN [text |-> [mem |-> [i \in 1..Room |-> Nul], head |-> 0],
                                    topic |-> NULL]
                              ELSE Munch(read[k - 1].text, read[k - 1].topic, Written(n)[k])
                          end == read[Len(Written(n))]
                      IN  /\ Len(Written(n)) = TopicLen(n)
                          /\ Find(end.topic, CString(Put(end.text, Nul))) = n
    BY DEF NameRoundTrip
  <2> DEFINE w == Written(n)
             Read == CHOOSE r : ReadsAs(r, w)
             end == Read[Len(w)]
  <2>2. w \in Seq(Chars) /\ Len(w) = TopicLen(n) BY <2>1, WrittenIs, WrittenLength
  <2>3. ReadingOf(Read, w)
    <3>1. \E r : ReadsAs(r, w) BY <2>1, <2>2, Reads
    <3>2. ReadsAs(Read, w) BY <3>1
    <3> HIDE DEF Read
    <3> QED BY <2>1, <2>2, <3>2, Reads
  <2>4. /\ tree[n].part \in Parts /\ Len(tree[n].part) < Room
        /\ tree[n].parent \in 0..Len(tree)
    BY <2>1, NodeFacts, PartsFit
  <2>5. Holds(end, tree[n].part, tree[n].parent)
    <3> HIDE DEF Read
    <3> QED BY <2>1, <2>3, PartsFit, ReadNode
  <2>6. end.text \in Texts
    <3>1. Len(w) \in 0..Len(w) BY <2>2, LenProperties
    <3>2. end \in Registers
      <4> HIDE DEF Read
      <4> QED BY <2>3, <3>1 DEF ReadingOf
    <3> QED BY <3>2 DEF Registers
  <2>7. Find(end.topic, CString(Put(end.text, Nul))) = n
    <3> HIDE DEF end
    <3>1. CString(Put(end.text, Nul)) = tree[n].part BY <2>4, <2>5, <2>6, HeldPart
    <3>2. end.topic = tree[n].parent BY <2>5 DEF Holds
    <3> QED BY <2>1, <2>4, <3>1, <3>2, FindIs
  <2> QED BY <2>2, <2>7 DEF ReadsAs
<1> QED BY <1>1, ResolverInPlace, PTL
=============================================================================
