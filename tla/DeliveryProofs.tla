--------------------------- MODULE DeliveryProofs ---------------------------
(***************************************************************************)
(* Proofs about subscriptions and deliveries, for any number of slots,      *)
(* entries and topics: the tables say what was granted, and the broker      *)
(* implements Delivery.                                                     *)
(***************************************************************************)
EXTENDS ClientsProofs, Deliveries

(* A step grants one filter of a SUBSCRIBE to the client at the cursor.     *)
Granted(j, t) ==
    /\ subs[cursor][j] = NULL
    /\ subs' = [subs EXCEPT ![cursor][j] = t]
    /\ numsubs' = [numsubs EXCEPT ![cursor] = @ + 1]
    /\ due' = [due EXCEPT ![cursor][t] = @ + 1]

(* The subscriptions change in three ways only: a slot is registered anew,  *)
(* a filter is granted, or a filter is unsubscribed.                        *)
LEMMA SubSteps ==
    ASSUME IInv, [Next]_vars
    PROVE  \/ UNCHANGED subVars
           \/ \E s \in Slots : /\ ClearSubs(s)
                               /\ due' = [due EXCEPT ![s] = [t \in Topics |-> 0]]
           \/ \E j \in Entries, t \in Topics : Granted(j, t)
           \/ UnsubscribeOne
<1> USE DEF vars
<1> cursor \in Slots /\ filters \in Seq(Topics \cup {NULL}) BY DEF IInv, TypeOK
<1>1. CASE \E h \in Handles : Accept(h)        BY <1>1 DEF Accept
<1>2. CASE \E h \in Handles : PeerVanishes(h)  BY <1>2 DEF PeerVanishes
<1>3. CASE Tick             BY <1>3 DEF Tick
<1>4. CASE PollStart        BY <1>4 DEF PollStart
<1>5. CASE SkipSlot         BY <1>5 DEF SkipSlot
<1>6. CASE NotConnected     BY <1>6 DEF NotConnected
<1>7. CASE WriteOutgoing    BY <1>7 DEF WriteOutgoing
<1>8. CASE Read
  BY <1>8 DEF Read, NotReady, ReadBlocks, ReadFinishes, ReadFails, ReadSpins,
     ReadHangs, ReadAborts
<1>9. CASE Handle /\ ~SubscribeOne
  BY <1>9 DEF Handle, HandleConnect, HandlePublish, SubscribeAck, UnsubscribeAck,
     HandlePing, HandleOther, HandleDisconnect
<1>10. CASE SubscribeOne
  <2>1. CASE UNCHANGED subVars BY <2>1
  <2>2. CASE ~UNCHANGED subVars
    <3>1. Head(filters) \in Topics
      BY <1>10, <2>2 DEF SubscribeOne
    <3>2. \E j \in Entries : Granted(j, Head(filters))
      BY <1>10, <2>2 DEF SubscribeOne, Granted, IsFirst, FreeEntries
    <3> QED BY <3>1, <3>2
  <2> QED BY <2>1, <2>2
<1>11. CASE StillAlive \/ Expires \/ ExpiresNobody \/ SpinEnds
  BY <1>11 DEF StillAlive, Expires, ExpiresNobody, SpinEnds
<1>12. CASE UNCHANGED vars  BY <1>12 DEF subVars
<1> QED BY <1>1, <1>2, <1>3, <1>4, <1>5, <1>6, <1>7, <1>8, <1>9, <1>10, <1>11,
           <1>12 DEF Next, PollStep

(* The entries of a slot are finitely many, and so is any set of them.      *)
LEMMA EntriesFinite == \A S \in SUBSET Entries : IsFiniteSet(S)
<1>1. IsFiniteSet(Entries) BY SizesAssumption, FS_Interval DEF Entries
<1> QED BY <1>1, FS_Subset

(* The entries of row f that hold v.                                        *)
Holding(f, v) == {j \in Entries : f[j] = v}

(* An entry that takes a new value joins that value's set.                  *)
LEMMA Filled ==
    ASSUME NEW f \in [Entries -> Topics \cup {NULL}], NEW j \in Entries,
           NEW v, f[j] # v
    PROVE  Cardinality(Holding([f EXCEPT ![j] = v], v)) = Cardinality(Holding(f, v)) + 1
<1>1. /\ Holding([f EXCEPT ![j] = v], v) = Holding(f, v) \cup {j}
      /\ j \notin Holding(f, v)
  BY DEF Holding
<1>2. IsFiniteSet(Holding(f, v)) BY EntriesFinite DEF Holding
<1> QED BY <1>1, <1>2, FS_AddElement

(* It leaves the set of its old value.                                      *)
LEMMA Emptied ==
    ASSUME NEW f \in [Entries -> Topics \cup {NULL}], NEW j \in Entries,
           NEW v, f[j] # v
    PROVE  Cardinality(Holding([f EXCEPT ![j] = v], f[j])) = Cardinality(Holding(f, f[j])) - 1
<1>1. /\ Holding([f EXCEPT ![j] = v], f[j]) = Holding(f, f[j]) \ {j}
      /\ j \in Holding(f, f[j])
  BY DEF Holding
<1>2. IsFiniteSet(Holding(f, f[j])) BY EntriesFinite DEF Holding
<1> QED BY <1>1, <1>2, FS_RemoveElement

-----------------------------------------------------------------------------
(* What an UNSUBSCRIBE's filter does to the slot's row: the first entry     *)
(* that equals it is cleared, and a grant is taken back if there is one.    *)
LEMMA UnsubscribeStep ==
    ASSUME IInv, UnsubscribeOne
    PROVE  LET s == cursor
               v == Head(filters)
           IN  \/ \E j \in Entries :
                     /\ subs[s][j] = v
                     /\ subs' = [subs EXCEPT ![s][j] = NULL]
                     /\ numsubs' = [numsubs EXCEPT
                            ![s] = (numsubs[s] + CounterWidth - 1) % CounterWidth]
               \/ /\ \A j \in Entries : subs[s][j] # v
                  /\ UNCHANGED <<subs, numsubs>>
  BY DEF UnsubscribeOne, IsFirst

(* What a slot is due stays the number of its entries for each topic.       *)
LEMMA DueStep ==
    ASSUME IInv, DueCounts, [Next]_vars
    PROVE  DueCounts'
<1> USE DEF DueCounts
<1> /\ subs \in [Slots -> [Entries -> Topics \cup {NULL}]]
    /\ due \in [Slots -> [Topics -> Nat]]
    /\ cursor \in Slots /\ NULL \notin Topics
    /\ filters \in Seq(Topics \cup {NULL})
  BY InputsAssumption DEF IInv, TypeOK
<1>d. \A s \in Slots, t \in Topics : due[s][t] = Cardinality(Holding(subs[s], t))
  BY DEF Holding
<1>g. SUFFICES \A s \in Slots, t \in Topics :
                  due'[s][t] = Cardinality(Holding(subs'[s], t))
  BY DEF Holding
<1>1. CASE UNCHANGED subVars
  BY <1>1, <1>d DEF subVars
<1>2. ASSUME NEW r \in Slots, ClearSubs(r),
             due' = [due EXCEPT ![r] = [t \in Topics |-> 0]]
      PROVE  \A s \in Slots, t \in Topics : due'[s][t] = Cardinality(Holding(subs'[s], t))
  <2> TAKE s \in Slots, t \in Topics
  <2>1. CASE s = r
    <3>1. Holding(subs'[s], t) = {}
      BY <1>2, <2>1 DEF Holding, ClearSubs
    <3> QED BY <1>2, <2>1, <3>1, FS_EmptySet
  <2>2. CASE s # r
    <3>1. subs'[s] = subs[s] /\ due'[s] = due[s]
      BY <1>2, <2>2 DEF ClearSubs
    <3> QED BY <3>1, <1>d
  <2> QED BY <2>1, <2>2
<1>3. ASSUME NEW j \in Entries, NEW u \in Topics, Granted(j, u)
      PROVE  \A s \in Slots, t \in Topics : due'[s][t] = Cardinality(Holding(subs'[s], t))
  <2>1. /\ subs[cursor] \in [Entries -> Topics \cup {NULL}]
        /\ subs[cursor][j] = NULL /\ NULL # u
        /\ subs'[cursor] = [subs[cursor] EXCEPT ![j] = u]
    BY <1>3 DEF Granted
  <2>2. /\ Cardinality(Holding(subs'[cursor], u)) = Cardinality(Holding(subs[cursor], u)) + 1
        /\ \A w \in Topics : w \notin {NULL, u} => Holding(subs'[cursor], w) = Holding(subs[cursor], w)
    <3> DEFINE f == subs[cursor]  g == subs'[cursor]
    <3>1. f \in [Entries -> Topics \cup {NULL}] /\ f[j] = NULL /\ g = [f EXCEPT ![j] = u]
      BY <2>1
    <3> HIDE DEF f, g
    <3>2. f[j] # u /\ f[j] = NULL
      BY <2>1, <3>1
    <3>3. Cardinality(Holding([f EXCEPT ![j] = u], u)) = Cardinality(Holding(f, u)) + 1
      BY <3>1, <3>2, Filled
    <3>4. \A w \in Topics : w \notin {f[j], u} => Holding([f EXCEPT ![j] = u], w) = Holding(f, w)
      BY <3>1 DEF Holding
    <3>5. Cardinality(Holding(g, u)) = Cardinality(Holding(f, u)) + 1
      BY <3>1, <3>3, Zenon
    <3>6. \A w \in Topics : w \notin {NULL, u} => Holding(g, w) = Holding(f, w)
      BY <3>1, <3>2, <3>4, Zenon
    <3> QED BY <3>5, <3>6 DEF f, g
  <2>3. /\ \A s \in Slots : s # cursor => subs'[s] = subs[s] /\ due'[s] = due[s]
        /\ due'[cursor][u] = due[cursor][u] + 1
        /\ \A t \in Topics : t # u => due'[cursor][t] = due[cursor][t]
    BY <1>3 DEF Granted
  <2> TAKE s \in Slots, t \in Topics
  <2>4. CASE s # cursor             BY <1>d, <2>3, <2>4
  <2>5. CASE s = cursor /\ t = u    BY <1>d, <2>2, <2>3, <2>5
  <2>6. CASE s = cursor /\ t # u    BY <1>d, <2>2, <2>3, <2>6
  <2> QED BY <2>4, <2>5, <2>6
<1>4. CASE UnsubscribeOne
  <2> DEFINE v == Head(filters)
  <2>0. filters # <<>> /\ v \in Topics \cup {NULL}
    BY <1>4 DEF UnsubscribeOne
  <2>1. due' = IF v # NULL /\ due[cursor][v] > 0
               THEN [due EXCEPT ![cursor][v] = due[cursor][v] - 1] ELSE due
    BY <1>4 DEF UnsubscribeOne
  <2>2. ASSUME NEW j \in Entries, subs[cursor][j] = v, v # NULL,
               subs' = [subs EXCEPT ![cursor][j] = NULL]
        PROVE  \A s \in Slots, t \in Topics : due'[s][t] = Cardinality(Holding(subs'[s], t))
    <3>1. v \in Topics BY <2>0, <2>2
    <3>2. /\ subs[cursor] \in [Entries -> Topics \cup {NULL}]
          /\ subs[cursor][j] = v /\ v # NULL
          /\ subs'[cursor] = [subs[cursor] EXCEPT ![j] = NULL]
      BY <2>2
    <3>3. /\ Cardinality(Holding(subs'[cursor], v)) = Cardinality(Holding(subs[cursor], v)) - 1
          /\ \A w \in Topics : w \notin {v, NULL} => Holding(subs'[cursor], w) = Holding(subs[cursor], w)
      <4> DEFINE f == subs[cursor]  g == subs'[cursor]
      <4>1. f \in [Entries -> Topics \cup {NULL}] /\ f[j] = v /\ g = [f EXCEPT ![j] = NULL]
        BY <3>2
      <4> HIDE DEF f, g, v
      <4>2. f[j] # NULL
        BY <3>2, <4>1
      <4>3. Cardinality(Holding([f EXCEPT ![j] = NULL], f[j])) = Cardinality(Holding(f, f[j])) - 1
        BY <4>1, <4>2, Emptied
      <4>5. \A w \in Topics : w \notin {f[j], NULL} => Holding([f EXCEPT ![j] = NULL], w) = Holding(f, w)
        BY <4>1 DEF Holding
      <4>4. /\ Cardinality(Holding(g, v)) = Cardinality(Holding(f, v)) - 1
            /\ \A w \in Topics : w \notin {v, NULL} => Holding(g, w) = Holding(f, w)
        BY <4>1, <4>3, <4>5, Zenon
      <4> QED BY <4>4 DEF f, g
    <3>4. j \in Holding(subs[cursor], v) BY <2>2 DEF Holding
    <3>5. Cardinality(Holding(subs[cursor], v)) > 0
      <4>1. IsFiniteSet(Holding(subs[cursor], v)) BY EntriesFinite DEF Holding
      <4>2. Cardinality(Holding(subs[cursor], v)) \in Nat
        BY <4>1, FS_CardinalityType
      <4>3. Cardinality(Holding(subs[cursor], v)) # 0
        BY <3>4, <4>1, FS_EmptySet
      <4> QED BY <4>2, <4>3
    <3>6. due' = [due EXCEPT ![cursor][v] = due[cursor][v] - 1]
      BY <1>d, <2>1, <2>2, <3>1, <3>5
    <3>7. /\ \A s \in Slots : s # cursor => subs'[s] = subs[s] /\ due'[s] = due[s]
          /\ due'[cursor][v] = due[cursor][v] - 1
          /\ \A t \in Topics : t # v => due'[cursor][t] = due[cursor][t]
      BY <2>2, <3>1, <3>6
    <3> TAKE s \in Slots, t \in Topics
    <3> HIDE DEF v
    <3>8. CASE s # cursor             BY <1>d, <3>7, <3>8
    <3>9. CASE s = cursor /\ t = v    BY <1>d, <3>3, <3>7, <3>9
    <3>10. CASE s = cursor /\ t # v   BY <1>d, <3>3, <3>7, <3>10
    <3> QED BY <3>8, <3>9, <3>10
  <2>3. ASSUME NEW j \in Entries, subs[cursor][j] = v, v = NULL,
               subs' = [subs EXCEPT ![cursor][j] = NULL]
        PROVE  \A s \in Slots, t \in Topics : due'[s][t] = Cardinality(Holding(subs'[s], t))
    <3>1. subs' = subs
      <4>1. subs[cursor] \in [Entries -> Topics \cup {NULL}]
        OBVIOUS
      <4> QED BY <2>3, <4>1
    <3>2. due' = due BY <2>1, <2>3
    <3> QED BY <1>d, <3>1, <3>2
  <2>4. ASSUME \A j \in Entries : subs[cursor][j] # v, UNCHANGED subs
        PROVE  \A s \in Slots, t \in Topics : due'[s][t] = Cardinality(Holding(subs'[s], t))
    <3>1. Holding(subs[cursor], v) = {} BY <2>4 DEF Holding
    <3>2. v # NULL => due[cursor][v] = 0 BY <1>d, <2>0, <3>1, FS_EmptySet
    <3>3. due' = due BY <2>1, <3>2
    <3> QED BY <1>d, <2>4, <3>3
  <2> QED BY <1>4, <2>2, <2>3, <2>4, UnsubscribeStep
<1> QED BY <1>1, <1>2, <1>3, <1>4, SubSteps

(* At the start no entry is in use and nothing is due.                      *)
LEMMA DueInit == Init => DueCounts
<1> SUFFICES ASSUME Init, NEW s \in Slots, NEW t \in Topics
             PROVE  due[s][t] = Cardinality({j \in Entries : subs[s][j] = t})
  BY DEF DueCounts
<1>1. {j \in Entries : subs[s][j] = t} = {}
  BY InputsAssumption DEF Init
<1> QED BY <1>1, FS_EmptySet DEF Init

(* IInv and DueCounts together are an invariant.                            *)
LEMMA DueAlways == Spec => [](IInv /\ DueCounts)
<1>1. Init => IInv /\ DueCounts BY IInvInit, DueInit
<1>2. IInv /\ DueCounts /\ [Next]_vars => (IInv /\ DueCounts)'
  BY IInvStep, DueStep
<1> QED BY <1>1, <1>2, PTL DEF Spec

(* A slot has an entry for a topic exactly when its client is due it.       *)
LEMMA DueMeansHeld ==
    ASSUME IInv, DueCounts, NEW s \in Slots, NEW t \in Topics
    PROVE  due[s][t] > 0 <=> \E j \in Entries : subs[s][j] = t
<1> DEFINE H == {j \in Entries : subs[s][j] = t}
<1>1. IsFiniteSet(H) BY EntriesFinite
<1>2. due[s][t] = Cardinality(H) BY DEF DueCounts
<1>3. Cardinality(H) \in Nat BY <1>1, FS_CardinalityType
<1>4. Cardinality(H) = 0 <=> H = {} BY <1>1, FS_EmptySet
<1> QED BY <1>2, <1>3, <1>4

(* Routing follows: the receivers are the open clients that are due.        *)
LEMMA RoutesFollow == IInv /\ DueCounts => RoutesMatchGrants
<1> SUFFICES ASSUME IInv, DueCounts, NEW t \in Topics
             PROVE  Receivers(t) = {s \in Occupied :
                        /\ state[s] = "connected"
                        /\ \E u \in {t} \cup Above[t] : due[s][u] > 0}
  BY DEF RoutesMatchGrants
<1>1. {t} \cup Above[t] \subseteq Topics BY InputsAssumption
<1>2. \A s \in Slots : (\E j \in Entries : subs[s][j] \in {t} \cup Above[t])
                       <=> \E u \in {t} \cup Above[t] : due[s][u] > 0
  BY <1>1, DueMeansHeld
<1>3. \A s \in Slots : state[s] = "connected" => s \in Occupied
  BY DEF IInv, SlotsConsistent, Occupied
<1> QED BY <1>2, <1>3 DEF Receivers, Occupied

(* A publish reaches the clients that were told they are subscribed and no  *)
(* others, whatever slots changed hands before (broker.c:47-117,            *)
(* client.c:172-253, 282-316).                                              *)
THEOREM RoutesCorrect == Spec => []RoutesMatchGrants
BY DueAlways, RoutesFollow, PTL

-----------------------------------------------------------------------------
(* The entries of a row that are in use.                                    *)
Used(f) == {j \in Entries : f[j] # NULL}

(* Taking one more and giving one back.                                     *)
LEMMA UsedOneMore ==
    ASSUME NEW f \in [Entries -> Topics \cup {NULL}], NEW j \in Entries,
           f[j] = NULL, NEW u \in Topics
    PROVE  Cardinality(Used([f EXCEPT ![j] = u])) = Cardinality(Used(f)) + 1
<1>1. Used([f EXCEPT ![j] = u]) = Used(f) \cup {j} /\ j \notin Used(f)
  BY InputsAssumption DEF Used
<1>2. IsFiniteSet(Used(f)) BY EntriesFinite DEF Used
<1> QED BY <1>1, <1>2, FS_AddElement

(* Giving one back takes it off the entries in use.                         *)
LEMMA UsedOneLess ==
    ASSUME NEW f \in [Entries -> Topics \cup {NULL}], NEW j \in Entries, f[j] # NULL
    PROVE  /\ Cardinality(Used([f EXCEPT ![j] = NULL])) = Cardinality(Used(f)) - 1
           /\ Cardinality(Used(f)) \in 1..MaxSubs
<1>1. Used([f EXCEPT ![j] = NULL]) = Used(f) \ {j} /\ j \in Used(f)
  BY DEF Used
<1>2. IsFiniteSet(Used(f)) BY EntriesFinite DEF Used
<1>3. Cardinality(Used(f)) \in Nat /\ Cardinality(Used(f)) # 0
  BY <1>1, <1>2, FS_CardinalityType, FS_EmptySet
<1>4. Cardinality(Used(f)) <= MaxSubs
  <2>1. Used(f) \subseteq Entries BY DEF Used
  <2>2. MaxSubs \in Nat \ {0} BY SizesAssumption
  <2>3. IsFiniteSet(Entries) /\ Cardinality(Entries) = MaxSubs
    BY <2>2, FS_Interval DEF Entries
  <2>4. Cardinality(Used(f)) <= Cardinality(Entries) BY <2>1, <2>3, FS_Subset
  <2> QED BY <2>3, <2>4
<1>5. Cardinality(Used([f EXCEPT ![j] = NULL])) = Cardinality(Used(f)) - 1
  BY <1>1, <1>2, FS_RemoveElement
<1> QED BY <1>3, <1>4, <1>5, SizesAssumption

(* The counter has room for every number of entries, so that taking one off *)
(* does not wrap.                                                           *)
LEMMA OneOff ==
    ASSUME NEW n \in 1..MaxSubs
    PROVE  (n + CounterWidth - 1) % CounterWidth = n - 1
<1>1. /\ CounterWidth \in Nat /\ CounterWidth > 0 /\ n - 1 \in 0..CounterWidth - 1
      /\ n + CounterWidth - 1 = 1 * CounterWidth + (n - 1)
  BY SizesAssumption
<1> QED BY <1>1

(* With filters that name topics numsubscriptions counts the entries in use.*)
LEMMA CountStep ==
    ASSUME FilterLists \subseteq Seq(Topics), IInv, EntriesCounted, [Next]_vars
    PROVE  EntriesCounted'
<1> USE DEF vars
<1> /\ subs \in [Slots -> [Entries -> Topics \cup {NULL}]]
    /\ numsubs \in [Slots -> Nat]
    /\ cursor \in Slots /\ NULL \notin Topics
    /\ filters \in Seq(Topics)
  BY InputsAssumption DEF IInv, TypeOK, EntriesCounted
<1>u. \A s \in Slots : numsubs[s] = Cardinality(Used(subs[s]))
  <2>1. \A s \in Slots : Used(subs[s]) = Entries \ FreeEntries(s)
    BY DEF Used, FreeEntries
  <2> QED BY <2>1 DEF EntriesCounted
<1>f. filters' \in Seq(Topics)
  <2>1. \/ filters' = filters
        \/ filters # <<>> /\ filters' = Tail(filters)
        \/ filters' \in FilterLists \cup {<<>>}
    <3> USE DEF packetVars
    <3>1. CASE \E h \in Handles : Accept(h) \/ PeerVanishes(h)
      BY <3>1 DEF Accept, PeerVanishes
    <3>2. CASE Tick \/ PollStart \/ SkipSlot \/ NotConnected
      BY <3>2 DEF Tick, PollStart, SkipSlot, NotConnected
    <3>3. CASE WriteOutgoing
      BY <3>3 DEF WriteOutgoing
    <3>4. CASE Read
      BY <3>4 DEF Read, NotReady, ReadBlocks, ReadFinishes, ReadFails, ReadSpins,
         ReadHangs, ReadAborts
    <3>5. CASE SubscribeOne \/ UnsubscribeOne
      BY <3>5 DEF SubscribeOne, UnsubscribeOne
    <3>6. CASE Handle /\ ~SubscribeOne /\ ~UnsubscribeOne
      BY <3>6 DEF Handle, HandleConnect, HandlePublish, SubscribeAck, UnsubscribeAck,
         HandlePing, HandleOther, HandleDisconnect
    <3>7. CASE StillAlive \/ Expires \/ ExpiresNobody \/ SpinEnds
      BY <3>7 DEF StillAlive, Expires, ExpiresNobody, SpinEnds
    <3>8. CASE UNCHANGED vars BY <3>8
    <3> QED BY <3>1, <3>2, <3>3, <3>4, <3>5, <3>6, <3>7, <3>8 DEF Next, PollStep
  <2>2. CASE filters' = filters  BY <2>2
  <2>3. CASE filters # <<>> /\ filters' = Tail(filters)
    <3>1. Tail(filters) \in Seq(Topics) BY <2>3
    <3> QED BY <2>3, <3>1
  <2>4. <<>> \in Seq(Topics) OBVIOUS
  <2>5. CASE filters' \in FilterLists \cup {<<>>}
    <3> HIDE DEF vars
    <3> QED BY <2>4, <2>5, Zenon
  <2> QED BY <2>1, <2>2, <2>3, <2>5
<1>g. SUFFICES \A s \in Slots : numsubs'[s] = Cardinality(Used(subs'[s]))
  <2>1. \A s \in Slots : Used(subs'[s]) = Entries \ FreeEntries(s)'
    BY DEF Used, FreeEntries
  <2> QED BY <1>f, <2>1 DEF EntriesCounted
<1>1. CASE UNCHANGED subVars
  BY <1>1, <1>u DEF subVars
<1>2. ASSUME NEW r \in Slots, ClearSubs(r)
      PROVE  \A s \in Slots : numsubs'[s] = Cardinality(Used(subs'[s]))
  <2>1. Used(subs'[r]) = {} BY <1>2 DEF Used, ClearSubs
  <2>2. Cardinality(Used(subs'[r])) = 0 BY <2>1, FS_EmptySet
  <2>3. \A s \in Slots : s # r => subs'[s] = subs[s] /\ numsubs'[s] = numsubs[s]
    BY <1>2 DEF ClearSubs
  <2> QED BY <1>2, <1>u, <2>2, <2>3 DEF ClearSubs
<1>3. ASSUME NEW j \in Entries, NEW u \in Topics, Granted(j, u)
      PROVE  \A s \in Slots : numsubs'[s] = Cardinality(Used(subs'[s]))
  <2>1. subs[cursor] \in [Entries -> Topics \cup {NULL}] /\ subs[cursor][j] = NULL
    BY <1>3 DEF Granted
  <2>2. Cardinality(Used([subs[cursor] EXCEPT ![j] = u])) = Cardinality(Used(subs[cursor])) + 1
    BY <2>1, UsedOneMore
  <2>3. /\ subs'[cursor] = [subs[cursor] EXCEPT ![j] = u]
        /\ numsubs'[cursor] = numsubs[cursor] + 1
        /\ \A s \in Slots : s # cursor => subs'[s] = subs[s] /\ numsubs'[s] = numsubs[s]
    BY <1>3 DEF Granted
  <2>4. Cardinality(Used(subs'[cursor])) = Cardinality(Used(subs[cursor])) + 1
    BY <2>2, <2>3, Zenon
  <2> QED BY <1>u, <2>3, <2>4
<1>4. CASE UnsubscribeOne
  <2>1. Head(filters) # NULL
    BY <1>4 DEF UnsubscribeOne
  <2>2. CASE UNCHANGED <<subs, numsubs>>
    BY <2>2, <1>u
  <2>3. CASE \E j \in Entries :
                /\ subs[cursor][j] = Head(filters)
                /\ subs' = [subs EXCEPT ![cursor][j] = NULL]
                /\ numsubs' = [numsubs EXCEPT
                       ![cursor] = (numsubs[cursor] + CounterWidth - 1) % CounterWidth]
    <3>1. PICK j \in Entries :
                /\ subs[cursor][j] = Head(filters)
                /\ subs' = [subs EXCEPT ![cursor][j] = NULL]
                /\ numsubs' = [numsubs EXCEPT
                       ![cursor] = (numsubs[cursor] + CounterWidth - 1) % CounterWidth]
      BY <2>3
    <3>2. subs[cursor] \in [Entries -> Topics \cup {NULL}] /\ subs[cursor][j] # NULL
      BY <2>1, <3>1
    <3>3. /\ Cardinality(Used([subs[cursor] EXCEPT ![j] = NULL])) = Cardinality(Used(subs[cursor])) - 1
          /\ Cardinality(Used(subs[cursor])) \in 1..MaxSubs
      BY <3>2, UsedOneLess
    <3>4. subs'[cursor] = [subs[cursor] EXCEPT ![j] = NULL]
      BY <3>1
    <3>5. Cardinality(Used(subs'[cursor])) = Cardinality(Used(subs[cursor])) - 1
      BY <3>3, <3>4, Zenon
    <3>6. (numsubs[cursor] + CounterWidth - 1) % CounterWidth = numsubs[cursor] - 1
      BY <1>u, <3>3, OneOff
    <3>7. /\ numsubs'[cursor] = numsubs[cursor] - 1
          /\ \A s \in Slots : s # cursor => subs'[s] = subs[s] /\ numsubs'[s] = numsubs[s]
      BY <3>1, <3>6
    <3> QED BY <1>u, <3>5, <3>7
  <2> QED BY <1>4, <2>2, <2>3, UnsubscribeStep
<1> QED BY <1>1, <1>2, <1>3, <1>4, SubSteps

(* At the start no entry is in use.                                         *)
LEMMA CountInit == Init => EntriesCounted
<1> SUFFICES ASSUME Init PROVE EntriesCounted OBVIOUS
<1>1. \A s \in Slots : Entries \ FreeEntries(s) = {}
  BY DEF Init, FreeEntries
<1>2. filters \in Seq(Topics) BY DEF Init
<1> QED BY <1>1, <1>2, FS_EmptySet DEF Init, EntriesCounted

(* As long as every UNSUBSCRIBE names topics the broker has, the number     *)
(* that decides whether a SUBSCRIBE is granted is the number of entries in  *)
(* use, and it never wraps (client.c:185, 200, 228).                        *)
THEOREM SubscriptionsCounted ==
    FilterLists \subseteq Seq(Topics) => (Spec => []NumSubsExact)
<1> SUFFICES ASSUME FilterLists \subseteq Seq(Topics) PROVE Spec => []NumSubsExact
  OBVIOUS
<1>1. IInv /\ EntriesCounted /\ [Next]_vars => (IInv /\ EntriesCounted)'
  BY IInvStep, CountStep
<1>2. Init => IInv /\ EntriesCounted BY IInvInit, CountInit
<1>3. EntriesCounted => NumSubsExact BY DEF EntriesCounted, NumSubsExact, Occupied
<1> QED BY <1>1, <1>2, <1>3, PTL DEF Spec

=============================================================================
