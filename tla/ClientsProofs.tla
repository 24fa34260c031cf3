---------------------------- MODULE ClientsProofs ----------------------------
(***************************************************************************)
(* Proofs about Clients, for any number of slots, buffers and handles.      *)
(***************************************************************************)
EXTENDS Clients, FiniteSetTheorems, TLAPS

(* What a step does to the table, its counter and the sockets: a client is  *)
(* accepted, a peer vanishes, the slot at the cursor loses its client, or   *)
(* nothing.                                                                 *)
LEMMA TableSteps ==
    ASSUME IInv, [Next]_vars
    PROVE  \/ \E h \in Handles : Accept(h)
           \/ \E h \in Handles : PeerVanishes(h)
           \/ Disconnect(cursor) /\ cursor \in Slots /\ client[cursor] # NULL
           \/ UNCHANGED <<client, registered, sock>>
<1> USE DEF tableVars, vars
<1>1. CASE Tick             BY <1>1 DEF Tick
<1>2. CASE PollStart        BY <1>2 DEF PollStart
<1>3. CASE SkipSlot         BY <1>3 DEF SkipSlot
<1>4. CASE NotConnected     BY <1>4 DEF NotConnected, Served, IInv, TypeOK
<1>5. CASE WriteOutgoing    BY <1>5 DEF WriteOutgoing
<1>6. CASE Read
  <2>1. CASE NotReady       BY <2>1 DEF NotReady
  <2>2. CASE ReadBlocks     BY <2>2 DEF ReadBlocks
  <2>3. CASE ReadFinishes   BY <2>3 DEF ReadFinishes
  <2>4. CASE ReadFails      BY <2>4 DEF ReadFails
  <2>5. CASE ReadSpins      BY <2>5 DEF ReadSpins
  <2>6. CASE ReadHangs      BY <2>6 DEF ReadHangs
  <2>7. CASE ReadAborts     BY <2>7 DEF ReadAborts
  <2> QED BY <1>6, <2>1, <2>2, <2>3, <2>4, <2>5, <2>6, <2>7 DEF Read
<1>7. CASE Handle
  <2>1. CASE HandleConnect    BY <2>1 DEF HandleConnect
  <2>2. CASE HandlePublish    BY <2>2 DEF HandlePublish
  <2>3. CASE SubscribeOne     BY <2>3 DEF SubscribeOne
  <2>4. CASE SubscribeAck     BY <2>4 DEF SubscribeAck
  <2>5. CASE UnsubscribeOne   BY <2>5 DEF UnsubscribeOne
  <2>6. CASE UnsubscribeAck   BY <2>6 DEF UnsubscribeAck
  <2>7. CASE HandlePing       BY <2>7 DEF HandlePing
  <2>8. CASE HandleOther      BY <2>8 DEF HandleOther
  <2>9. CASE HandleDisconnect
    BY <2>9 DEF HandleDisconnect, Handling, IInv, SlotsConsistent, TypeOK
  <2> QED BY <1>7, <2>1, <2>2, <2>3, <2>4, <2>5, <2>6, <2>7, <2>8, <2>9 DEF Handle
<1>8. CASE StillAlive       BY <1>8 DEF StillAlive
<1>9. CASE Expires          BY <1>9 DEF Expires, IInv, TypeOK
<1>10. CASE ExpiresNobody   BY <1>10 DEF ExpiresNobody
<1>11. CASE SpinEnds        BY <1>11 DEF SpinEnds
<1>12. CASE UNCHANGED vars  BY <1>12
<1> QED BY <1>1, <1>2, <1>3, <1>4, <1>5, <1>6, <1>7, <1>8, <1>9, <1>10, <1>11,
           <1>12 DEF Next, PollStep

(* The slot that Disconnect(s) clears is s: nobody else has its handle.     *)
LEMMA DisconnectClears ==
    ASSUME IInv, NEW s \in Slots, client[s] # NULL, Disconnect(s)
    PROVE  /\ client' = [client EXCEPT ![s] = NULL]
           /\ registered > 0 /\ registered' = registered - 1
           /\ sock' = [sock EXCEPT ![client[s]] = "closed"]
           /\ state' = [state EXCEPT ![s] = "disconnected"]
<1>1. \A i \in Slots : IsFirst(i, Holders(client[s])) => i = s
  BY DEF IInv, HandlesOwned, IsFirst, Holders
<1> QED BY <1>1 DEF Disconnect

(* A client loses its slot in three steps only.                             *)
LEMMA DisconnectSteps ==
    ASSUME IInv, [Next]_vars, ~UNCHANGED client, ~\E h \in Handles : Accept(h)
    PROVE  NotConnected \/ HandleDisconnect \/ Expires
<1> USE DEF tableVars
<1>1. ~Read
  BY DEF Read, NotReady, ReadBlocks, ReadFinishes, ReadFails, ReadSpins, ReadHangs,
     ReadAborts
<1>2. Handle => HandleDisconnect
  BY DEF Handle, HandleConnect, HandlePublish, SubscribeOne, SubscribeAck,
     UnsubscribeOne, UnsubscribeAck, HandlePing, HandleOther
<1>3. ~(\E h \in Handles : PeerVanishes(h)) /\ ~Tick /\ ~PollStart /\ ~UNCHANGED vars
  BY DEF PeerVanishes, Tick, PollStart, vars
<1>4. ~SkipSlot /\ ~WriteOutgoing /\ ~StillAlive /\ ~ExpiresNobody /\ ~SpinEnds
  BY DEF SkipSlot, WriteOutgoing, StillAlive, ExpiresNobody, SpinEnds
<1> QED BY <1>1, <1>2, <1>3, <1>4 DEF Next, PollStep

(* The slots are finitely many, and so is any set of them.                  *)
LEMMA OccupiedFinite == IsFiniteSet(Occupied) /\ IsFiniteSet(Occupied')
<1>1. IsFiniteSet(Slots) BY SizesAssumption, FS_Interval DEF Slots
<1>2. Occupied \subseteq Slots /\ Occupied' \subseteq Slots
  BY DEF Occupied
<1> QED BY <1>1, <1>2, FS_Subset

(* The counter and the handles stay right under every change of the table:  *)
(* accepting adds one slot and one, disconnecting takes one of each.        *)
LEMMA TableStep ==
    ASSUME IInv, [Next]_vars
    PROVE  RegisteredExact' /\ HandlesOwned'
<1> USE DEF IInv
<1>1. ASSUME NEW h \in Handles, Accept(h) PROVE RegisteredExact' /\ HandlesOwned'
  <2>1. PICK s \in Slots : /\ client[s] = NULL
                           /\ client' = [client EXCEPT ![s] = h]
    BY <1>1 DEF Accept, IsFirst, FreeSlots
  <2>2. /\ registered' = registered + 1
        /\ sock' = [sock EXCEPT ![h] = "open"] /\ sock[h] = "closed"
    BY <1>1 DEF Accept
  <2>3. Occupied' = Occupied \cup {s} /\ s \notin Occupied
    BY <2>1, InputsAssumption DEF Occupied, TypeOK
  <2>4. Cardinality(Occupied') = Cardinality(Occupied) + 1
    BY <2>3, OccupiedFinite, FS_AddElement
  <2>5. RegisteredExact'
    BY <2>2, <2>4 DEF RegisteredExact
  <2>6. HandlesOwned'
    BY <2>1, <2>2, InputsAssumption DEF HandlesOwned, TypeOK, Holders
  <2> QED BY <2>5, <2>6
<1>2. ASSUME NEW h \in Handles, PeerVanishes(h) PROVE RegisteredExact' /\ HandlesOwned'
  BY <1>2 DEF PeerVanishes, tableVars, RegisteredExact, Occupied, HandlesOwned,
     Holders, TypeOK
<1>3. ASSUME Disconnect(cursor), cursor \in Slots, client[cursor] # NULL
      PROVE  RegisteredExact' /\ HandlesOwned'
  <2>1. /\ client' = [client EXCEPT ![cursor] = NULL]
        /\ registered' = registered - 1
        /\ sock' = [sock EXCEPT ![client[cursor]] = "closed"]
    BY <1>3, DisconnectClears
  <2>2. Occupied' = Occupied \ {cursor} /\ cursor \in Occupied
    BY <1>3, <2>1 DEF Occupied, TypeOK
  <2>3. Cardinality(Occupied') = Cardinality(Occupied) - 1
    BY <2>2, OccupiedFinite, FS_RemoveElement
  <2>4. RegisteredExact'
    BY <2>1, <2>3 DEF RegisteredExact
  <2>5. HandlesOwned'
    BY <1>3, <2>1 DEF HandlesOwned, TypeOK, Holders
  <2> QED BY <2>4, <2>5
<1>4. CASE UNCHANGED <<client, registered, sock>>
  BY <1>4 DEF RegisteredExact, Occupied, HandlesOwned, Holders
<1> QED BY <1>1, <1>2, <1>3, <1>4, TableSteps

-----------------------------------------------------------------------------
(* What a step does to the pool: nothing, a buffer taken for the slot at    *)
(* the cursor, a payload register cleared, or a payload handled.            *)
LEMMA PoolSteps ==
    ASSUME IInv, [Next]_vars
    PROVE  \/ UNCHANGED <<payload, refs>>
           \/ TakeBuffer(cursor)
           \/ \E s \in Slots : /\ payload' = [payload EXCEPT ![s] = NULL]
                               /\ UNCHANGED refs
           \/ /\ payload[cursor] # NULL
              /\ payload' = [payload EXCEPT ![cursor] = NULL]
              /\ refs' = [refs EXCEPT ![payload[cursor]] = @ - 1]
<1> USE DEF parseVars, vars
<1> cursor \in Slots BY DEF IInv, TypeOK
<1>1. CASE \E h \in Handles : Accept(h)        BY <1>1 DEF Accept
<1>2. CASE \E h \in Handles : PeerVanishes(h)  BY <1>2 DEF PeerVanishes
<1>3. CASE Tick             BY <1>3 DEF Tick
<1>4. CASE PollStart        BY <1>4 DEF PollStart
<1>5. CASE SkipSlot         BY <1>5 DEF SkipSlot
<1>6. CASE NotConnected     BY <1>6 DEF NotConnected
<1>7. CASE WriteOutgoing    BY <1>7 DEF WriteOutgoing
<1>8. CASE Read
  <2>1. CASE NotReady       BY <2>1 DEF NotReady
  <2>2. CASE ReadBlocks     BY <2>2 DEF ReadBlocks
  <2>3. CASE ReadFinishes   BY <2>3 DEF ReadFinishes
  <2>4. CASE ReadFails      BY <2>4 DEF ReadFails
  <2>5. CASE ReadSpins      BY <2>5 DEF ReadSpins
  <2>6. CASE ReadHangs      BY <2>6 DEF ReadHangs
  <2>7. CASE ReadAborts     BY <2>7 DEF ReadAborts
  <2> QED BY <1>8, <2>1, <2>2, <2>3, <2>4, <2>5, <2>6, <2>7 DEF Read
<1>9. CASE Handle
  <2>1. CASE HandleConnect    BY <2>1 DEF HandleConnect, Done
  <2>2. CASE HandlePublish    BY <2>2 DEF HandlePublish, Done
  <2>3. CASE SubscribeOne     BY <2>3 DEF SubscribeOne
  <2>4. CASE SubscribeAck     BY <2>4 DEF SubscribeAck, Done
  <2>5. CASE UnsubscribeOne   BY <2>5 DEF UnsubscribeOne
  <2>6. CASE UnsubscribeAck   BY <2>6 DEF UnsubscribeAck, Done
  <2>7. CASE HandlePing       BY <2>7 DEF HandlePing, Done
  <2>8. CASE HandleOther      BY <2>8 DEF HandleOther, Done
  <2>9. CASE HandleDisconnect BY <2>9 DEF HandleDisconnect, Done
  <2> QED BY <1>9, <2>1, <2>2, <2>3, <2>4, <2>5, <2>6, <2>7, <2>8, <2>9 DEF Handle
<1>10. CASE StillAlive      BY <1>10 DEF StillAlive
<1>11. CASE Expires         BY <1>11 DEF Expires
<1>12. CASE ExpiresNobody   BY <1>12 DEF ExpiresNobody
<1>13. CASE SpinEnds        BY <1>13 DEF SpinEnds
<1>14. CASE UNCHANGED vars  BY <1>14
<1> QED BY <1>1, <1>2, <1>3, <1>4, <1>5, <1>6, <1>7, <1>8, <1>9, <1>10, <1>11,
           <1>12, <1>13, <1>14 DEF Next, PollStep

(* The buffer taken is one that nobody has, and the one given back was the  *)
(* slot's own.                                                              *)
LEMMA PoolStep ==
    ASSUME IInv, [Next]_vars
    PROVE  /\ BufferOwnership'
           /\ payload' \in [Slots -> Buffers \cup {NULL}]
           /\ refs' \in [Buffers -> 0..1]
<1> USE DEF BufferOwnership
<1> BufferOwnership /\ cursor \in Slots /\ payload \in [Slots -> Buffers \cup {NULL}]
      /\ refs \in [Buffers -> 0..1] /\ NULL \notin Buffers
  BY InputsAssumption DEF IInv, TypeOK, Buffers
<1>1. CASE UNCHANGED <<payload, refs>>
  BY <1>1
<1>2. CASE TakeBuffer(cursor)
  <2>1. CASE payload[cursor] # NULL
    BY <1>2, <2>1 DEF TakeBuffer
  <2>2. CASE payload[cursor] = NULL
    <3>1. PICK b \in Buffers : /\ refs[b] = 0
                               /\ payload' = [payload EXCEPT ![cursor] = b]
                               /\ refs' = [refs EXCEPT ![b] = @ + 1]
      BY <1>2, <2>2 DEF TakeBuffer, IsFirst, FreeBuffers
    <3>2. \A s \in Slots : payload[s] # b
      BY <3>1
    <3> QED BY <3>1, <3>2
  <2> QED BY <2>1, <2>2
<1>3. CASE \E s \in Slots : payload' = [payload EXCEPT ![s] = NULL] /\ UNCHANGED refs
  BY <1>3
<1>4. CASE /\ payload[cursor] # NULL
           /\ payload' = [payload EXCEPT ![cursor] = NULL]
           /\ refs' = [refs EXCEPT ![payload[cursor]] = @ - 1]
  BY <1>4
<1> QED BY <1>1, <1>2, <1>3, <1>4, PoolSteps

-----------------------------------------------------------------------------
(* The steps after which the poll is at a slot with a client stay at it.    *)
LEMMA SlotStep ==
    ASSUME IInv, [Next]_vars
    PROVE  SlotsConsistent'
<1> USE DEF tableVars, SlotsConsistent
<1> SlotsConsistent /\ cursor \in Slots /\ 1 \in Slots
      /\ client \in [Slots -> Handles \cup {NULL}]
      /\ state \in [Slots -> {"new", "connected", "disconnected"}]
      /\ NULL \notin Handles
  BY SizesAssumption, InputsAssumption DEF IInv, TypeOK, Slots
<1>1. ASSUME NEW h \in Handles, Accept(h) PROVE SlotsConsistent'
  BY <1>1 DEF Accept, IsFirst, FreeSlots
<1>2. CASE \E h \in Handles : PeerVanishes(h)  BY <1>2 DEF PeerVanishes
<1>3. CASE Tick             BY <1>3 DEF Tick
<1>4. CASE PollStart        BY <1>4 DEF PollStart
<1>5. CASE SkipSlot         BY <1>5 DEF SkipSlot, GoOn
<1>6. CASE NotConnected
  BY <1>6, DisconnectClears DEF NotConnected, Served, GoOn
<1>7. CASE WriteOutgoing
  <2>1. client[cursor] # NULL /\ pc' = "read" /\ UNCHANGED <<client, state, cursor>>
    BY <1>7 DEF WriteOutgoing, Served
  <2> QED BY <2>1
<1>8. CASE Read
  <2>1. CASE NotReady       BY <2>1 DEF NotReady
  <2>2. CASE ReadBlocks     BY <2>2 DEF ReadBlocks
  <2>3. CASE ReadFinishes   BY <2>3 DEF ReadFinishes
  <2>4. CASE ReadFails      BY <2>4 DEF ReadFails
  <2>5. CASE ReadSpins      BY <2>5 DEF ReadSpins
  <2>6. CASE ReadHangs      BY <2>6 DEF ReadHangs
  <2>7. CASE ReadAborts     BY <2>7 DEF ReadAborts
  <2> QED BY <1>8, <2>1, <2>2, <2>3, <2>4, <2>5, <2>6, <2>7 DEF Read
<1>9. CASE Handle
  <2> USE DEF Handling, Done
  <2>1. CASE HandleConnect    BY <2>1 DEF HandleConnect
  <2>2. CASE HandlePublish    BY <2>2 DEF HandlePublish
  <2>3. CASE SubscribeOne     BY <2>3 DEF SubscribeOne
  <2>4. CASE SubscribeAck     BY <2>4 DEF SubscribeAck
  <2>5. CASE UnsubscribeOne   BY <2>5 DEF UnsubscribeOne
  <2>6. CASE UnsubscribeAck   BY <2>6 DEF UnsubscribeAck
  <2>7. CASE HandlePing       BY <2>7 DEF HandlePing
  <2>8. CASE HandleOther      BY <2>8 DEF HandleOther
  <2>9. CASE HandleDisconnect BY <2>9, DisconnectClears DEF HandleDisconnect
  <2> QED BY <1>9, <2>1, <2>2, <2>3, <2>4, <2>5, <2>6, <2>7, <2>8, <2>9 DEF Handle
<1>10. CASE StillAlive      BY <1>10 DEF StillAlive, GoOn
<1>11. CASE Expires         BY <1>11, DisconnectClears DEF Expires, GoOn
<1>12. CASE ExpiresNobody   BY <1>12 DEF ExpiresNobody
<1>13. CASE SpinEnds        BY <1>13 DEF SpinEnds
<1>14. CASE UNCHANGED vars  BY <1>14 DEF vars
<1> QED BY <1>1, <1>2, <1>3, <1>4, <1>5, <1>6, <1>7, <1>8, <1>9, <1>10, <1>11,
           <1>12, <1>13, <1>14 DEF Next, PollStep

-----------------------------------------------------------------------------
(* The types of the helpers' results.                                       *)
LEMMA WrapNat == ASSUME NEW t \in Nat PROVE Wrap(t) \in Nat
  BY SizesAssumption DEF Wrap

(* Going on leaves the cursor on a slot.                                    *)
LEMMA CursorMoves ==
    ASSUME cursor \in Slots, GoOn
    PROVE  cursor' \in Slots /\ pc' \in {"main", "slot"}
  BY SizesAssumption DEF GoOn, Slots

(* Updating one place of a table of tables keeps its type.                  *)
LEMMA NestedExcept ==
    ASSUME NEW S, NEW T, NEW V, NEW f \in [S -> [T -> V]],
           NEW x \in S, NEW y \in T, NEW v \in V
    PROVE  [f EXCEPT ![x][y] = v] \in [S -> [T -> V]]
OBVIOUS

(* What Disconnect assigns has the type it should: the count does not go    *)
(* below zero.                                                              *)
LEMMA DisconnectTypes ==
    ASSUME IInv, NEW s \in Slots, client[s] # NULL, Disconnect(s)
    PROVE  /\ client' \in [Slots -> Handles \cup {NULL}]
           /\ state' \in [Slots -> {"new", "connected", "disconnected"}]
           /\ registered' \in 0..MaxClients
           /\ sock' \in [Handles -> {"closed", "open", "eof"}]
<1> TypeOK BY DEF IInv
<1>1. /\ client' = [client EXCEPT ![s] = NULL]
      /\ registered > 0 /\ registered' = registered - 1
      /\ sock' = [sock EXCEPT ![client[s]] = "closed"]
      /\ state' = [state EXCEPT ![s] = "disconnected"]
  BY DisconnectClears
<1>2. MaxClients \in Nat /\ registered \in 0..MaxClients
  BY SizesAssumption DEF TypeOK
<1>3. registered' \in 0..MaxClients
  BY <1>1, <1>2
<1> QED BY <1>1, <1>3 DEF TypeOK

(* The stages inside a packet of this instance are stages of the reader.    *)
LEMMA StagesOfPackets ==
    ASSUME NEW t \in PacketTypes
    PROVE  t \in AllTypes /\ Body[t] \subseteq AllStages
  BY InputsAssumption DEF AllStages

(* Every step keeps every variable in its type.                             *)
LEMMA TypeStep ==
    ASSUME IInv, [Next]_vars
    PROVE  TypeOK'
<1> USE DEF TypeOK, tableVars, subVars, parseVars, packetVars
<1> TypeOK BY DEF IInv
<1> NULL \notin Handles /\ NULL \notin Topics BY InputsAssumption
<1>p. payload' \in [Slots -> Buffers \cup {NULL}] /\ refs' \in [Buffers -> 0..1]
  BY PoolStep
<1>1. ASSUME NEW h \in Handles, Accept(h) PROVE TypeOK'
  <2>1. PICK s \in Slots :
            /\ client' = [client EXCEPT ![s] = h]
            /\ state' = [state EXCEPT ![s] = "new"]
            /\ lastseen' = [lastseen EXCEPT ![s] = clock]
            /\ ClearSubs(s)
            /\ topic' = [topic EXCEPT ![s] = NULL]
            /\ outgoing' = [outgoing EXCEPT ![s] = "idle"]
            /\ due' = [due EXCEPT ![s] = [t \in Topics |-> 0]]
    BY <1>1 DEF Accept
  <2>2. /\ subs' \in [Slots -> [Entries -> Topics \cup {NULL}]]
        /\ numsubs' \in [Slots -> Nat] /\ due' \in [Slots -> [Topics -> Nat]]
    BY <2>1 DEF ClearSubs
  <2>3. registered' \in 0..MaxClients /\ sock' \in [Handles -> {"closed", "open", "eof"}]
    BY <1>1, SizesAssumption DEF Accept
  <2>4. /\ client' \in [Slots -> Handles \cup {NULL}]
        /\ state' \in [Slots -> {"new", "connected", "disconnected"}]
        /\ lastseen' \in [Slots -> Nat]
        /\ topic' \in [Slots -> Topics \cup {NULL}]
        /\ outgoing' \in [Slots -> {"idle", "queued", "partial", "error"}]
    BY <2>1
  <2> QED BY <1>1, <1>p, <2>2, <2>3, <2>4 DEF Accept
<1>2. ASSUME NEW h \in Handles, PeerVanishes(h) PROVE TypeOK'
  BY <1>2 DEF PeerVanishes
<1>3. CASE Tick
  <2>1. clock + 1 \in Nat           OBVIOUS
  <2>2. Wrap(clock + 1) \in Nat     BY <2>1, WrapNat
  <2> QED BY <1>3, <2>2 DEF Tick
<1>4. CASE PollStart        BY <1>4 DEF PollStart
<1>5. CASE SkipSlot         BY <1>5, CursorMoves DEF SkipSlot
<1>6. CASE NotConnected
  <2>1. client[cursor] # NULL /\ Disconnect(cursor) /\ GoOn
    BY <1>6 DEF NotConnected, Served
  <2> QED BY <1>6, <2>1, CursorMoves, DisconnectTypes DEF NotConnected
<1>7. CASE WriteOutgoing
  <2>1. outgoing' \in [Slots -> {"idle", "queued", "partial", "error"}]
    BY <1>7 DEF WriteOutgoing
  <2> QED BY <1>7, <2>1 DEF WriteOutgoing
<1>8. CASE Read
  <2>1. CASE NotReady       BY <2>1 DEF NotReady
  <2>2. CASE ReadBlocks
    <3>1. topic' \in [Slots -> Topics \cup {NULL}]
      BY <2>2 DEF ReadBlocks, ResolveTopic
    <3>2. incoming' \in [Slots -> AllStages]
      BY <2>2, StagesOfPackets DEF ReadBlocks, CanBe, AllStages
    <3> QED BY <1>p, <2>2, <3>1, <3>2 DEF ReadBlocks
  <2>3. CASE ReadFinishes
    <3>1. topic' \in [Slots -> Topics \cup {NULL}]
      BY <2>3 DEF ReadFinishes, ResolveTopic
    <3>2. packet' \in AllTypes /\ filters' \in Seq(Topics \cup {NULL})
      <4>1. packet' \in PacketTypes BY <2>3 DEF ReadFinishes, CanBe
      <4>2. filters' \in FilterLists \cup {<<>>} BY <2>3 DEF ReadFinishes
      <4>3. <<>> \in Seq(Topics \cup {NULL}) OBVIOUS
      <4> QED BY <4>1, <4>2, <4>3, InputsAssumption
    <3> QED BY <1>p, <2>3, <3>1, <3>2 DEF ReadFinishes, AllStages
  <2>4. CASE ReadFails      BY <2>4 DEF ReadFails, AllStages
  <2>5. CASE ReadSpins      BY <2>5 DEF ReadSpins
  <2>6. CASE ReadHangs
    <3>1. topic' \in [Slots -> Topics \cup {NULL}]
      BY <2>6 DEF ReadHangs, ResolveTopic
    <3>2. "payload" \in AllStages BY DEF AllStages, Body, AllTypes
    <3> QED BY <1>p, <2>6, <3>1, <3>2 DEF ReadHangs
  <2>7. CASE ReadAborts     BY <2>7 DEF ReadAborts
  <2> QED BY <1>8, <2>1, <2>2, <2>3, <2>4, <2>5, <2>6, <2>7 DEF Read
<1>9. CASE Handle
  <2> USE <1>p DEF Done
  <2>1. CASE HandleConnect
    <3>1. keepalive' \in [Slots -> Keepalives \cup {0}] BY <2>1 DEF HandleConnect
    <3> QED BY <2>1, <3>1 DEF HandleConnect
  <2>2. CASE HandlePublish    BY <2>2 DEF HandlePublish
  <2>3. CASE SubscribeOne
    <3>1. Head(filters) \in Topics \cup {NULL} /\ filters' \in Seq(Topics \cup {NULL})
      BY <2>3 DEF SubscribeOne
    <3>2. CASE UNCHANGED subVars
      BY <2>3, <3>1, <3>2 DEF SubscribeOne
    <3>3. CASE ~UNCHANGED subVars
      <4>1. Head(filters) \in Topics
        BY <2>3, <3>1, <3>3 DEF SubscribeOne
      <4>2. PICK j \in Entries : subs' = [subs EXCEPT ![cursor][j] = Head(filters)]
        BY <2>3, <3>3 DEF SubscribeOne
      <4>3. subs' \in [Slots -> [Entries -> Topics \cup {NULL}]]
        BY <4>1, <4>2, NestedExcept
      <4>4. numsubs' \in [Slots -> Nat]
        <5>1. numsubs' = [numsubs EXCEPT ![cursor] = numsubs[cursor] + 1]
          BY <2>3, <3>3 DEF SubscribeOne
        <5> QED BY <5>1
      <4>5. due' = [due EXCEPT ![cursor][Head(filters)] = due[cursor][Head(filters)] + 1]
        BY <2>3, <3>3 DEF SubscribeOne
      <4>6. due[cursor][Head(filters)] + 1 \in Nat
        BY <4>1
      <4>7. due' \in [Slots -> [Topics -> Nat]]
        BY <4>1, <4>5, <4>6, NestedExcept
      <4> QED BY <2>3, <3>1, <4>3, <4>4, <4>7 DEF SubscribeOne
    <3> QED BY <3>2, <3>3
  <2>4. CASE SubscribeAck     BY <2>4 DEF SubscribeAck
  <2>5. CASE UnsubscribeOne
    <3>1. Head(filters) \in Topics \cup {NULL} /\ filters' \in Seq(Topics \cup {NULL})
      BY <2>5 DEF UnsubscribeOne
    <3>2. subs' \in [Slots -> [Entries -> Topics \cup {NULL}]]
      <4>1. \/ UNCHANGED subs
            \/ \E j \in Entries : subs' = [subs EXCEPT ![cursor][j] = NULL]
        BY <2>5 DEF UnsubscribeOne
      <4>2. NULL \in Topics \cup {NULL} /\ cursor \in Slots OBVIOUS
      <4>3. ASSUME NEW j \in Entries, subs' = [subs EXCEPT ![cursor][j] = NULL]
            PROVE  subs' \in [Slots -> [Entries -> Topics \cup {NULL}]]
        BY <4>2, <4>3, NestedExcept
      <4> QED BY <4>1, <4>3
    <3>3. \A n \in Nat : (n + CounterWidth - 1) % CounterWidth \in Nat
      BY SizesAssumption
    <3>4. numsubs' \in [Slots -> Nat]
      <4>1. \/ UNCHANGED numsubs
            \/ numsubs' = [numsubs EXCEPT
                   ![cursor] = (numsubs[cursor] + CounterWidth - 1) % CounterWidth]
        BY <2>5 DEF UnsubscribeOne
      <4>2. numsubs[cursor] \in Nat OBVIOUS
      <4>3. (numsubs[cursor] + CounterWidth - 1) % CounterWidth \in Nat BY <4>2, <3>3
      <4> QED BY <4>1, <4>3
    <3>5. due' \in [Slots -> [Topics -> Nat]]
      <4>1. CASE UNCHANGED due BY <4>1
      <4>2. CASE ~UNCHANGED due
        <5>1. /\ Head(filters) \in Topics /\ due[cursor][Head(filters)] > 0
              /\ due' = [due EXCEPT ![cursor][Head(filters)] = due[cursor][Head(filters)] - 1]
          BY <2>5, <3>1, <4>2 DEF UnsubscribeOne
        <5>2. due[cursor][Head(filters)] - 1 \in Nat
          BY <5>1
        <5> QED BY <5>1, <5>2, NestedExcept
      <4> QED BY <4>1, <4>2
    <3> QED BY <2>5, <3>1, <3>2, <3>4, <3>5 DEF UnsubscribeOne
  <2>6. CASE UnsubscribeAck   BY <2>6 DEF UnsubscribeAck, QueueAck
  <2>7. CASE HandlePing       BY <2>7 DEF HandlePing, QueueAck
  <2>8. CASE HandleOther      BY <2>8 DEF HandleOther
  <2>9. CASE HandleDisconnect
    <3>1. client[cursor] # NULL
      BY <2>9 DEF IInv, SlotsConsistent, HandleDisconnect, Handling
    <3>2. Disconnect(cursor) BY <2>9 DEF HandleDisconnect
    <3> QED BY <2>9, <3>1, <3>2, DisconnectTypes DEF HandleDisconnect
  <2> QED BY <1>9, <2>1, <2>2, <2>3, <2>4, <2>5, <2>6, <2>7, <2>8, <2>9 DEF Handle
<1>10. CASE StillAlive      BY <1>10, CursorMoves DEF StillAlive
<1>11. CASE Expires         BY <1>11, CursorMoves, DisconnectTypes DEF Expires
<1>12. CASE ExpiresNobody   BY <1>12 DEF ExpiresNobody
<1>13. CASE SpinEnds
  <2>1. "topic" \in AllStages BY DEF AllStages, Body, AllTypes
  <2> QED BY <1>13, <2>1 DEF SpinEnds
<1>14. CASE UNCHANGED vars  BY <1>14 DEF vars
<1> QED BY <1>1, <1>2, <1>3, <1>4, <1>5, <1>6, <1>7, <1>8, <1>9, <1>10, <1>11,
           <1>12, <1>13, <1>14 DEF Next, PollStep

-----------------------------------------------------------------------------
(* IInv holds at the start and every step of the specification keeps it.    *)
LEMMA IInvInit == Init => IInv
<1> SUFFICES ASSUME Init PROVE IInv OBVIOUS
<1> USE DEF Init
<1>1. TypeOK
  <2>1. "idle" \in AllStages /\ "other" \in AllTypes BY DEF AllStages, AllTypes
  <2>2. <<>> \in Seq(Topics \cup {NULL}) OBVIOUS
  <2>3. 1 \in Slots /\ 0 \in 0..MaxClients BY SizesAssumption DEF Slots
  <2> QED BY <2>1, <2>2, <2>3 DEF TypeOK
<1>2. RegisteredExact
  <2>1. Occupied = {} BY DEF Occupied
  <2> QED BY <2>1, FS_EmptySet DEF RegisteredExact
<1>3. HandlesOwned /\ BufferOwnership
  BY DEF HandlesOwned, BufferOwnership
<1>4. SlotsConsistent
  BY DEF SlotsConsistent
<1> QED BY <1>1, <1>2, <1>3, <1>4 DEF IInv

(* The inductive step, put together.                                        *)
LEMMA IInvStep == IInv /\ [Next]_vars => IInv'
BY TypeStep, TableStep, PoolStep, SlotStep DEF IInv

(* In every reachable state the table, the sockets, the pool and the        *)
(* program counter agree (client.c:282-339, 442-497).                       *)
THEOREM Consistency == Spec => []IInv
<1>1. Init => IInv BY IInvInit
<1>2. IInv /\ [Next]_vars => IInv' BY IInvStep
<1> QED BY <1>1, <1>2, PTL DEF Spec

(* Every variable keeps its type, whatever the sizes.                       *)
THEOREM TypeCorrect == Spec => []TypeOK
<1>1. IInv => TypeOK BY DEF IInv
<1> QED BY <1>1, Consistency, PTL

(* registeredclients counts the slots in use, so that the ++ of register    *)
(* and the -- of unregister stay in step with the table (client.c:304, 333).*)
THEOREM RegisteredCorrect == Spec => []RegisteredExact
<1>1. IInv => RegisteredExact BY DEF IInv
<1> QED BY <1>1, Consistency, PTL

(* No slot holds a handle that was freed, no two hold the same one, and no  *)
(* open connection is without a slot (broker.c of linux_glib, 41-47).       *)
THEOREM HandlesCorrect == Spec => []HandlesOwned
<1>1. IInv => HandlesOwned BY DEF IInv
<1> QED BY <1>1, Consistency, PTL

(* No two clients ever assemble their payloads in the same buffer, and none *)
(* holds a buffer the pool takes for free (broker.c:154-166, client.c:136). *)
THEOREM BuffersCorrect == Spec => []BufferOwnership
<1>1. IInv => BufferOwnership BY DEF IInv
<1> QED BY <1>1, Consistency, PTL

-----------------------------------------------------------------------------
(* Without a wrap the keepalive test is the comparison it looks like, and a *)
(* lease is never empty.                                                    *)
LEMMA LeasePositive ==
    ASSUME NEW k \in Keepalives \cup {0}
    PROVE  Lease(k) \in Nat /\ Lease(k) > 0
<1>1. \A n \in Nat \ {0} : n + n \div 2 \in Nat /\ n + n \div 2 > 0
  OBVIOUS
<1>2. DefaultKeepalive \in Nat \ {0} /\ k \in Nat
  BY SizesAssumption, InputsAssumption
<1>3. CASE k = 0 BY <1>1, <1>2, <1>3 DEF Lease
<1>4. CASE k # 0 BY <1>1, <1>2, <1>4 DEF Lease
<1> QED BY <1>3, <1>4

(* The test of checkkeepalive is the comparison without wrapping.           *)
LEMMA AliveMeans ==
    ASSUME NoWrap, IInv, TimeInv, NEW s \in Slots
    PROVE  /\ Lease(keepalive[s]) \in Nat /\ Lease(keepalive[s]) > 0
           /\ Alive(s) <=> now < lastseen[s] + Lease(keepalive[s])
<1>1. keepalive[s] \in Keepalives \cup {0} /\ lastseen[s] \in Nat /\ clock \in Nat
      /\ now \in Nat /\ lastseen[s] <= clock /\ clock <= MaxTime
  BY DEF IInv, TypeOK, TimeInv
<1>2. /\ Lease(keepalive[s]) \in Nat /\ Lease(keepalive[s]) > 0
      /\ MaxTime + Lease(keepalive[s]) < TimeWidth
  BY <1>1, LeasePositive DEF NoWrap
<1>3. lastseen[s] + Lease(keepalive[s]) < TimeWidth
  BY <1>1, <1>2, SizesAssumption
<1>4. Wrap(lastseen[s] + Lease(keepalive[s])) = lastseen[s] + Lease(keepalive[s])
  BY <1>1, <1>2, <1>3, SizesAssumption DEF Wrap
<1> QED BY <1>1, <1>2, <1>4 DEF Alive

(* The clock moves forward by one and stays in its bound.                   *)
LEMMA ClockTicks ==
    ASSUME NoWrap, IInv, TimeInv, Tick
    PROVE  clock' = clock + 1 /\ clock' <= MaxTime
<1>1. clock \in Nat /\ clock <= MaxTime /\ clock # MaxTime /\ clock' = Wrap(clock + 1)
  BY DEF IInv, TypeOK, TimeInv, Tick
<1>2. Lease(0) \in Nat /\ MaxTime + Lease(0) < TimeWidth
  BY LeasePositive DEF NoWrap
<1> QED BY <1>1, <1>2, SizesAssumption DEF Wrap

(* A handler finishes: the slot at the cursor is seen at this poll's time,  *)
(* and the slots the poll has passed are left alone.                        *)
LEMMA SeenNow ==
    ASSUME IInv, TimeInv, pc = "handle", Done(cursor),
           UNCHANGED <<clock, now, cursor>>,
           \A s \in Slots : s # cursor => /\ client'[s] = client[s]
                                          /\ keepalive'[s] = keepalive[s]
    PROVE  TimeInv'
<1>1. cursor \in Slots /\ lastseen \in [Slots -> Nat] /\ cursor \in Nat
      /\ \A s \in Slots : s \in Nat
  BY DEF IInv, TypeOK, Slots
<1>2. lastseen' = [lastseen EXCEPT ![cursor] = now] /\ pc' = "expire"
  BY DEF Done
<1>3. PollLeavesNoExpired'
  BY <1>1, <1>2 DEF TimeInv, PollLeavesNoExpired
<1> QED BY <1>1, <1>2, <1>3 DEF TimeInv

(* The poll goes on to the next slot, past one that is empty or alive.      *)
LEMMA MovedOn ==
    ASSUME IInv, TimeInv, GoOn, pc # "main", UNCHANGED <<clock, now, lastseen, keepalive>>,
           \A s \in Slots : s # cursor => client'[s] = client[s],
           client'[cursor] # NULL => now < lastseen[cursor] + Lease(keepalive[cursor])
    PROVE  TimeInv'
<1>1. cursor \in Nat /\ \A s \in Slots : s \in Nat
  BY DEF IInv, TypeOK, Slots
<1>2. \/ pc' = "main"
      \/ pc' = "slot" /\ cursor' = cursor + 1
  BY DEF GoOn
<1>3. \A s \in Slots : s < cursor + 1 => s < cursor \/ s = cursor
  BY <1>1
<1>4. PollLeavesNoExpired'
  BY <1>2, <1>3 DEF TimeInv, PollLeavesNoExpired
<1> QED BY <1>2, <1>4 DEF TimeInv

(* Every step keeps TimeInv: the cursor passes a slot only when its client  *)
(* is alive or gone.                                                        *)
LEMMA TimeStep ==
    ASSUME NoWrap, IInv, TimeInv, [Next]_vars
    PROVE  TimeInv'
<1> USE DEF tableVars
<1> cursor \in Slots /\ now \in Nat /\ clock \in Nat /\ lastseen \in [Slots -> Nat]
      /\ client \in [Slots -> Handles \cup {NULL}]
      /\ keepalive \in [Slots -> Keepalives \cup {0}]
  BY DEF IInv, TypeOK
<1>0. ASSUME UNCHANGED <<client, keepalive, lastseen, now, cursor, clock>>,
             pc' = "expire" => client[cursor] # NULL \/ pc = "expire",
             pc' # "main" => pc # "main"
      PROVE  TimeInv'
  BY <1>0 DEF TimeInv, PollLeavesNoExpired
<1>1. ASSUME NEW h \in Handles, Accept(h) PROVE TimeInv'
  <2>1. pc' = "main" /\ UNCHANGED <<clock, now>>
    BY <1>1 DEF Accept
  <2>2. \A s \in Slots : lastseen'[s] <= clock
    BY <1>1 DEF Accept, TimeInv
  <2> QED BY <2>1, <2>2 DEF TimeInv, PollLeavesNoExpired
<1>2. CASE \E h \in Handles : PeerVanishes(h)  BY <1>0, <1>2 DEF PeerVanishes
<1>3. CASE Tick
  <2>1. UNCHANGED <<client, keepalive, lastseen, now, cursor, pc>>
    BY <1>3 DEF Tick
  <2>2. clock' = clock + 1 /\ clock' <= MaxTime
    BY <1>3, ClockTicks
  <2> QED BY <2>1, <2>2 DEF TimeInv, PollLeavesNoExpired
<1>4. CASE PollStart
  <2>1. cursor = 1 /\ (pc' = "main" \/ pc' = "slot") /\ now' = clock
        /\ UNCHANGED <<client, keepalive, lastseen, cursor, clock>>
    BY <1>4 DEF PollStart, IInv, SlotsConsistent
  <2>2. \A s \in Slots : ~(s < 1)
    BY DEF Slots
  <2> QED BY <2>1, <2>2 DEF TimeInv, PollLeavesNoExpired
<1>5. CASE SkipSlot
  <2>1. client[cursor] = NULL
    BY <1>5 DEF SkipSlot, Served, IInv, SlotsConsistent
  <2> QED BY <1>5, <2>1, MovedOn DEF SkipSlot
<1>6. CASE NotConnected
  <2>1. client' = [client EXCEPT ![cursor] = NULL]
    BY <1>6, DisconnectClears DEF NotConnected, Served
  <2> QED BY <1>6, <2>1, MovedOn DEF NotConnected
<1>7. CASE WriteOutgoing    BY <1>0, <1>7 DEF WriteOutgoing
<1>8. CASE Read
  <2>1. pc = "read" /\ client[cursor] # NULL /\ pc' # "main"
        /\ UNCHANGED <<client, keepalive, lastseen, now, cursor, clock>>
    <3>1. pc = "read" BY <1>8 DEF Read, NotReady, ReadBlocks, ReadFinishes,
            ReadFails, ReadSpins, ReadHangs, ReadAborts
    <3>2. pc' # "main" BY <1>8 DEF Read, NotReady, ReadBlocks, ReadFinishes,
            ReadFails, ReadSpins, ReadHangs, ReadAborts
    <3>3. UNCHANGED <<client, keepalive, lastseen, now, cursor, clock>>
      BY <1>8 DEF Read, NotReady, ReadBlocks, ReadFinishes, ReadFails, ReadSpins,
         ReadHangs, ReadAborts
    <3> QED BY <3>1, <3>2, <3>3 DEF IInv, SlotsConsistent
  <2> QED BY <1>0, <2>1
<1>9. CASE Handle
  <2> USE DEF Handling
  <2>1. CASE HandleConnect    BY <2>1, SeenNow DEF HandleConnect
  <2>2. CASE HandlePublish
    <3>1. CASE pc' = "dead"   BY <1>0, <2>2, <3>1 DEF HandlePublish, Done
    <3>2. CASE pc' # "dead"   BY <2>2, <3>2, SeenNow DEF HandlePublish
    <3> QED BY <3>1, <3>2
  <2>3. CASE SubscribeOne     BY <1>0, <2>3 DEF SubscribeOne
  <2>4. CASE SubscribeAck     BY <2>4, SeenNow DEF SubscribeAck
  <2>5. CASE UnsubscribeOne   BY <1>0, <2>5 DEF UnsubscribeOne
  <2>6. CASE UnsubscribeAck   BY <2>6, SeenNow DEF UnsubscribeAck
  <2>7. CASE HandlePing       BY <2>7, SeenNow DEF HandlePing
  <2>8. CASE HandleOther      BY <2>8, SeenNow DEF HandleOther
  <2>9. CASE HandleDisconnect
    <3>1. client' = [client EXCEPT ![cursor] = NULL]
      BY <2>9, DisconnectClears DEF HandleDisconnect, IInv, SlotsConsistent
    <3> QED BY <2>9, <3>1, SeenNow DEF HandleDisconnect
  <2> QED BY <1>9, <2>1, <2>2, <2>3, <2>4, <2>5, <2>6, <2>7, <2>8, <2>9 DEF Handle
<1>10. CASE StillAlive
  <2>1. now < lastseen[cursor] + Lease(keepalive[cursor])
    BY <1>10, AliveMeans DEF StillAlive
  <2> QED BY <1>10, <2>1, MovedOn DEF StillAlive
<1>11. CASE Expires
  <2>1. client' = [client EXCEPT ![cursor] = NULL]
    BY <1>11, DisconnectClears DEF Expires
  <2> QED BY <1>11, <2>1, MovedOn DEF Expires
<1>12. CASE ExpiresNobody   BY <1>0, <1>12 DEF ExpiresNobody
<1>13. CASE SpinEnds        BY <1>0, <1>13 DEF SpinEnds
<1>14. CASE UNCHANGED vars
  <2>1. UNCHANGED <<client, keepalive, lastseen, now, cursor, clock, pc>>
    BY <1>14 DEF vars
  <2> QED BY <1>0, <2>1
<1> QED BY <1>1, <1>2, <1>3, <1>4, <1>5, <1>6, <1>7, <1>8, <1>9, <1>10, <1>11,
           <1>12, <1>13, <1>14 DEF Next, PollStep

(* TimeInv holds at the start.                                              *)
LEMMA TimeInit == Init => TimeInv
<1> SUFFICES ASSUME Init PROVE TimeInv OBVIOUS
<1>1. 0 <= MaxTime BY SizesAssumption
<1> QED BY <1>1 DEF Init, TimeInv, PollLeavesNoExpired

(* TimeInv is an invariant, with IInv, as long as timestamps do not wrap.   *)
LEMMA TimeAlways == NoWrap => (Spec => [](IInv /\ TimeInv))
<1> SUFFICES ASSUME NoWrap PROVE Spec => [](IInv /\ TimeInv)
  OBVIOUS
<1>1. Init => IInv /\ TimeInv
  BY IInvInit, TimeInit
<1>2. IInv /\ TimeInv /\ [Next]_vars => (IInv /\ TimeInv)'
  BY IInvStep, TimeStep
<1> QED BY <1>1, <1>2, PTL DEF Spec

(* No time kept is in the future, and none is wrong about a client that has *)
(* left within this poll (client.c:97-118, 493).                            *)
THEOREM TimesKept == NoWrap => (Spec => []TimeInv)
<1> SUFFICES ASSUME NoWrap PROVE Spec => []TimeInv
  OBVIOUS
<1> QED BY TimeAlways, PTL

(* As long as the timestamp does not wrap, the poll leaves nobody behind it *)
(* that has been silent for longer than its lease (client.c:97-118).        *)
THEOREM KeepaliveEnforced == NoWrap => (Spec => []PollLeavesNoExpired)
<1> SUFFICES ASSUME NoWrap PROVE Spec => []PollLeavesNoExpired
  OBVIOUS
<1>1. TimeInv => PollLeavesNoExpired BY DEF TimeInv
<1> QED BY <1>1, TimeAlways, PTL

(* A client is never put out early: only on its own DISCONNECT, when its    *)
(* peer is gone, or after a lease without a packet (client.c:97-118).       *)
THEOREM EvictionsJustified == NoWrap => (Spec => EvictionJustified)
<1> SUFFICES ASSUME NoWrap PROVE Spec => EvictionJustified
  OBVIOUS
<1>1. ASSUME IInv, TimeInv, [Next]_vars, NEW s \in Slots,
             client[s] # NULL, client'[s] # client[s]
      PROVE  \/ pc = "handle" /\ packet = "disconnect" /\ s = cursor
             \/ sock[client[s]] = "eof"
             \/ now - lastseen[s] >= Lease(keepalive[s])
  <2> client \in [Slots -> Handles \cup {NULL}] /\ now \in Nat
        /\ lastseen[s] \in Nat /\ cursor \in Slots
    BY <1>1 DEF IInv, TypeOK
  <2>1. ~ \E h \in Handles : Accept(h)
    BY <1>1 DEF Accept, IsFirst, FreeSlots
  <2>2. ~ UNCHANGED client
    BY <1>1
  <2>3. CASE Disconnect(cursor) /\ client[cursor] # NULL
    <3>1. s = cursor
      BY <1>1, <2>3, DisconnectClears
    <3>2. NotConnected \/ HandleDisconnect \/ Expires
      BY <1>1, <2>1, <2>2, DisconnectSteps
    <3>3. CASE NotConnected     BY <3>1, <3>3 DEF NotConnected
    <3>4. CASE HandleDisconnect BY <3>1, <3>4 DEF HandleDisconnect, Handling
    <3>5. CASE Expires
      BY <1>1, <3>1, <3>5, AliveMeans DEF Expires
    <3> QED BY <3>2, <3>3, <3>4, <3>5
  <2> QED BY <1>1, <2>1, <2>2, <2>3, TableSteps DEF PeerVanishes, tableVars
<1>2. IInv /\ TimeInv /\ [Next]_vars =>
         [\A s \in Slots :
            client[s] # NULL /\ client'[s] # client[s] =>
                \/ pc = "handle" /\ packet = "disconnect" /\ s = cursor
                \/ sock[client[s]] = "eof"
                \/ now - lastseen[s] >= Lease(keepalive[s])]_vars
  BY <1>1
<1> QED BY <1>2, TimeAlways, PTL DEF Spec, EvictionJustified

-----------------------------------------------------------------------------
(* No crash, while no peer sends an empty payload or credentials: a publish *)
(* that is handled has brought its buffer with it.                          *)
LEMMA PublishStep ==
    ASSUME "empty" \notin Quirks, IInv, PublishHasBuffer, [Next]_vars
    PROVE  PublishHasBuffer'
<1> USE DEF PublishHasBuffer, parseVars, packetVars
<1> cursor \in Slots /\ payload \in [Slots -> Buffers \cup {NULL}] /\ NULL \notin Buffers
  BY InputsAssumption DEF IInv, TypeOK, Buffers
<1>0. ASSUME UNCHANGED <<payload, packet, cursor>>, pc' = "handle" => pc = "handle"
      PROVE  PublishHasBuffer'
  BY <1>0
<1>1. ASSUME NEW h \in Handles, Accept(h) PROVE PublishHasBuffer'
  BY <1>1 DEF Accept
<1>2. CASE \E h \in Handles : PeerVanishes(h)  BY <1>0, <1>2 DEF PeerVanishes
<1>3. CASE Tick             BY <1>0, <1>3 DEF Tick
<1>4. CASE PollStart        BY <1>4 DEF PollStart
<1>5. CASE SkipSlot         BY <1>5 DEF SkipSlot, GoOn
<1>6. CASE NotConnected     BY <1>6 DEF NotConnected, GoOn
<1>7. CASE WriteOutgoing    BY <1>7 DEF WriteOutgoing
<1>8. CASE Read
  <2>1. CASE ReadFinishes
    <3>1. CASE packet' = "publish"
      BY <2>1, <3>1 DEF ReadFinishes, TakeBuffer, IsFirst
    <3>2. CASE packet' # "publish" BY <3>2
    <3> QED BY <3>1, <3>2
  <2>2. CASE ~ReadFinishes
    BY <1>8, <2>2 DEF Read, NotReady, ReadBlocks, ReadFails, ReadSpins, ReadHangs, ReadAborts
  <2> QED BY <2>1, <2>2
<1>9. CASE Handle
  <2>1. packet' = packet
    BY <1>9 DEF Handle, HandleConnect, HandlePublish, SubscribeOne, SubscribeAck,
       UnsubscribeOne, UnsubscribeAck, HandlePing, HandleOther, HandleDisconnect
  <2>2. packet = "publish" => pc' # "handle"
    BY <1>9 DEF Handle, Handling, HandleConnect, HandlePublish, SubscribeOne,
       SubscribeAck, UnsubscribeOne, UnsubscribeAck, HandlePing, HandleOther,
       HandleDisconnect, Done
  <2> QED BY <2>1, <2>2
<1>10. CASE StillAlive      BY <1>10 DEF StillAlive, GoOn
<1>11. CASE Expires         BY <1>11 DEF Expires, GoOn
<1>12. CASE ExpiresNobody   BY <1>12 DEF ExpiresNobody
<1>13. CASE SpinEnds        BY <1>13 DEF SpinEnds
<1>14. CASE UNCHANGED vars  BY <1>14 DEF vars
<1> QED BY <1>1, <1>2, <1>3, <1>4, <1>5, <1>6, <1>7, <1>8, <1>9, <1>10, <1>11,
           <1>12, <1>13, <1>14 DEF Next, PollStep

(* The three steps that could dereference nothing find something there.     *)
LEMMA CrashStep ==
    ASSUME NoWrap, {"empty", "credentials"} \cap Quirks = {},
           IInv, TimeInv, PublishHasBuffer, NoCrash, [Next]_vars
    PROVE  NoCrash'
<1> USE DEF NoCrash
<1> cursor \in Slots BY DEF IInv, TypeOK
<1>1. CASE Read
  BY <1>1 DEF Read, NotReady, ReadBlocks, ReadFinishes, ReadFails, ReadSpins,
     ReadHangs, ReadAborts
<1>2. CASE HandlePublish
  <2>1. payload[cursor] # NULL
    BY <1>2 DEF HandlePublish, Handling, PublishHasBuffer
  <2>2. \A t \in Topics \cup {NULL} : \A r \in Receivers(t) : client[r] # NULL
    BY DEF Receivers, IInv, SlotsConsistent
  <2>3. topic[cursor] \in Topics \cup {NULL}
    BY DEF IInv, TypeOK
  <2> QED BY <1>2, <2>1, <2>2, <2>3 DEF HandlePublish, Done
<1>3. CASE Handle /\ ~HandlePublish
  BY <1>3 DEF Handle, HandleConnect, SubscribeOne, SubscribeAck, UnsubscribeOne,
     UnsubscribeAck, HandlePing, HandleOther, HandleDisconnect, Done
<1>4. CASE ExpiresNobody
  <2>1. lastseen[cursor] = now /\ now \in Nat
    BY <1>4 DEF ExpiresNobody, TimeInv, IInv, TypeOK
  <2>2. Alive(cursor) BY <2>1, AliveMeans
  <2> QED BY <1>4, <2>2 DEF ExpiresNobody
<1>5. CASE \E h \in Handles : Accept(h) \/ PeerVanishes(h)
  BY <1>5 DEF Accept, PeerVanishes
<1>6. CASE Tick \/ PollStart \/ SkipSlot \/ NotConnected \/ WriteOutgoing
             \/ StillAlive \/ Expires \/ SpinEnds
  BY <1>6 DEF Tick, PollStart, SkipSlot, NotConnected, WriteOutgoing, StillAlive,
     Expires, SpinEnds, GoOn
<1>7. CASE UNCHANGED vars BY <1>7 DEF vars
<1> QED BY <1>1, <1>2, <1>3, <1>4, <1>5, <1>6, <1>7 DEF Next, PollStep, Handle

(* Publishing to a slot marked CONNECTED always finds a client there, and   *)
(* the keepalive test never disconnects the NULL that a DISCONNECT in the   *)
(* same poll has left (broker.c:99, client.c:116, 488).                     *)
THEOREM NeverCrashes ==
    NoWrap /\ {"empty", "credentials"} \cap Quirks = {} => (Spec => []NoCrash)
<1> SUFFICES ASSUME NoWrap, {"empty", "credentials"} \cap Quirks = {}
             PROVE  Spec => []NoCrash
  OBVIOUS
<1>1. Init => NoCrash /\ PublishHasBuffer
  BY DEF Init, NoCrash, PublishHasBuffer
<1>2. IInv /\ TimeInv /\ (NoCrash /\ PublishHasBuffer) /\ [Next]_vars
         => (NoCrash /\ PublishHasBuffer)'
  BY CrashStep, PublishStep
<1> QED BY <1>1, <1>2, TimeAlways, PTL DEF Spec

-----------------------------------------------------------------------------
(* The outgoing packet is written out before the next packet is read, and   *)
(* only the handler at the cursor queues another.                           *)
LEMMA AckStep ==
    ASSUME "blocked" \notin Quirks, IInv, AckTaken, [Next]_vars
    PROVE  AckTaken'
<1> USE DEF AckTaken
<1> cursor \in Slots /\ outgoing \in [Slots -> {"idle", "queued", "partial", "error"}]
  BY DEF IInv, TypeOK
<1>1. CASE \E h \in Handles : Accept(h)
  BY <1>1 DEF Accept
<1>2. CASE (\E h \in Handles : PeerVanishes(h)) \/ Tick \/ UNCHANGED vars
  BY <1>2 DEF PeerVanishes, Tick, vars
<1>3. CASE PollStart \/ SkipSlot \/ NotConnected \/ StillAlive \/ Expires \/ ExpiresNobody
  BY <1>3 DEF PollStart, SkipSlot, NotConnected, StillAlive, Expires, ExpiresNobody, GoOn
<1>4. CASE WriteOutgoing
  <2>1. outgoing'[cursor] \in {"idle", "error"}
    BY <1>4, Zenon DEF WriteOutgoing
  <2> QED BY <1>4, <2>1 DEF WriteOutgoing
<1>5. CASE Read \/ SpinEnds
  BY <1>5 DEF Read, NotReady, ReadBlocks, ReadFinishes, ReadFails, ReadSpins, ReadHangs,
     ReadAborts, SpinEnds
<1>6. CASE SubscribeOne \/ UnsubscribeOne
  BY <1>6 DEF SubscribeOne, UnsubscribeOne, Handling
<1>7. CASE Handle /\ ~SubscribeOne /\ ~UnsubscribeOne
  BY <1>7 DEF Handle, HandleConnect, HandlePublish, SubscribeAck, UnsubscribeAck,
     HandlePing, HandleOther, HandleDisconnect, Done
<1> QED BY <1>1, <1>2, <1>3, <1>4, <1>5, <1>6, <1>7 DEF Next, PollStep

(* With sockets that take what is written, no acknowledgement is queued     *)
(* over another that has not gone out (client.c:234, 247, 457-466).         *)
THEOREM AcksNeverLost == "blocked" \notin Quirks => (Spec => []AckSlotFree)
<1> SUFFICES ASSUME "blocked" \notin Quirks PROVE Spec => []AckSlotFree
  OBVIOUS
<1>1. Init => AckTaken BY DEF Init, AckTaken
<1>2. IInv /\ AckTaken /\ [Next]_vars => AckTaken'
  BY AckStep
<1>3. AckTaken => AckSlotFree BY DEF AckTaken, AckSlotFree
<1> QED BY <1>1, <1>2, <1>3, Consistency, PTL DEF Spec

-----------------------------------------------------------------------------
(* The pool of payload buffers.                                             *)

(* The reader and the payload register keep together.                       *)
LEMMA ParseStep ==
    ASSUME IInv, ParseInv, [Next]_vars
    PROVE  ParseInv'
<1> USE DEF ParseInv, parseVars, packetVars, tableVars, vars
<1>t. /\ cursor \in Slots /\ client \in [Slots -> Handles \cup {NULL}] /\ NULL \notin Handles
      /\ payload \in [Slots -> Buffers \cup {NULL}] /\ incoming \in [Slots -> AllStages]
      /\ sock \in [Handles -> {"closed", "open", "eof"}]
      /\ HandlesOwned /\ SlotsConsistent /\ BufferOwnership
  BY InputsAssumption DEF IInv, TypeOK
<1>0. ASSUME UNCHANGED <<client, payload, incoming, sock, packet, cursor>>,
             \/ pc' = pc
             \/ pc' \notin {"spin", "handle"} /\ pc # "handle"
      PROVE  ParseInv'
  BY <1>0
<1>1. ASSUME NEW h \in Handles, Accept(h) PROVE ParseInv'
  <2>1. PICK s \in Slots : /\ client' = [client EXCEPT ![s] = h]
                           /\ payload' = [payload EXCEPT ![s] = NULL]
    BY <1>1 DEF Accept
  <2>2. pc' = "main" /\ UNCHANGED incoming /\ sock' = [sock EXCEPT ![h] = "open"] /\ sock[h] = "closed"
    BY <1>1 DEF Accept
  <2>3. \A r \in Slots : client[r] # h \/ client[r] = NULL
    BY <2>2, <1>t DEF HandlesOwned
  <2>4. ASSUME NEW r \in Slots, payload'[r] # NULL, client'[r] # NULL, sock'[client'[r]] = "open"
        PROVE  incoming'[r] = "payload"
    <3>1. r # s /\ payload[r] # NULL /\ client[r] = client'[r] BY <1>t, <2>1, <2>4
    <3>2. client[r] # h /\ client[r] \in Handles BY <1>t, <2>3, <2>4, <3>1
    <3>3. sock[client[r]] = "open" BY <1>t, <2>2, <2>4, <3>1, <3>2
    <3>4. pc # "handle" BY <1>1 DEF Accept
    <3> QED BY <2>2, <2>4, <3>1, <3>3, <3>4
  <2> QED BY <2>2, <2>4
<1>2. ASSUME NEW h \in Handles, PeerVanishes(h) PROVE ParseInv'
  <2>1. /\ UNCHANGED <<client, payload, incoming, packet, cursor, pc>>
        /\ sock' = [sock EXCEPT ![h] = "eof"]
    BY <1>2 DEF PeerVanishes
  <2>2. \A g \in Handles : sock'[g] = "open" => sock[g] = "open" BY <1>t, <2>1
  <2> QED BY <1>t, <2>1, <2>2
<1>3. CASE Tick \/ PollStart \/ SkipSlot \/ StillAlive \/ ExpiresNobody \/ UNCHANGED vars
  BY <1>0, <1>3 DEF Tick, PollStart, SkipSlot, StillAlive, ExpiresNobody, GoOn
<1>4. ASSUME Disconnect(cursor), client[cursor] # NULL, pc' \notin {"spin", "handle"}, UNCHANGED incoming,
             \/ UNCHANGED payload /\ pc # "handle"
             \/ payload' = [payload EXCEPT ![cursor] = NULL]
      PROVE  ParseInv'
  <2>1. client' = [client EXCEPT ![cursor] = NULL] /\ sock' = [sock EXCEPT ![client[cursor]] = "closed"]
    BY <1>t, <1>4, DisconnectClears DEF Disconnect
  <2>2. ASSUME NEW r \in Slots, payload'[r] # NULL, client'[r] # NULL, sock'[client'[r]] = "open"
        PROVE  incoming'[r] = "payload"
    <3>1. r # cursor /\ client'[r] = client[r] BY <1>t, <2>1, <2>2
    <3>2. payload[r] # NULL BY <1>t, <1>4, <2>2, <3>1
    <3>3. client[r] \in Handles /\ sock[client[r]] = "open" BY <1>t, <2>1, <2>2, <3>1
    <3>4. incoming[r] = "payload"
      <4>1. \A q \in Slots : payload[q] # NULL /\ client[q] # NULL /\ sock[client[q]] = "open" =>
                incoming[q] = "payload" \/ (pc = "handle" /\ q = cursor)
        BY DEF ParseInv
      <4> QED BY <2>2, <3>1, <3>2, <3>3, <4>1, Zenon
    <3> QED BY <1>4, <3>4
  <2> QED BY <1>4, <2>2
<1>5. CASE NotConnected
  BY <1>4, <1>5 DEF NotConnected, Served, GoOn
<1>6. CASE Expires
  BY <1>4, <1>6 DEF Expires, GoOn
<1>7. CASE WriteOutgoing
  BY <1>0, <1>7 DEF WriteOutgoing
<1>8. CASE Read
  <2>0. pc = "read" /\ client[cursor] # NULL /\ UNCHANGED <<client, sock, cursor>>
    BY <1>8, <1>t DEF Read, NotReady, ReadBlocks, ReadFinishes, ReadFails, ReadSpins, ReadHangs,
       ReadAborts, SlotsConsistent
  <2>o. /\ \A r \in Slots : payload[r] # NULL /\ client[r] # NULL /\ sock[client[r]] = "open"
                               => incoming[r] = "payload"
        /\ ~CannotRead => sock[client[cursor]] = "open"
    BY <2>0 DEF CannotRead
  <2>1. CASE NotReady       BY <1>0, <2>1 DEF NotReady
  <2>2. CASE ReadBlocks
    <3>1. PICK st \in AllStages :
            /\ Follows(incoming[cursor], st)
            /\ incoming' = [incoming EXCEPT ![cursor] = st]
            /\ IF st = "payload" THEN TakeBuffer(cursor) \/ UNCHANGED <<payload, refs>>
                                 ELSE UNCHANGED <<payload, refs>>
      <4>1. \A t \in CanBe(incoming[cursor]) : Body[t] \subseteq AllStages
        <5>1. \A t \in AllTypes : Body[t] \subseteq AllStages BY DEF AllStages
        <5> QED BY <5>1, InputsAssumption DEF CanBe
      <4> QED BY <2>2, <4>1 DEF ReadBlocks, AllStages
    <3>2. ~CannotRead /\ pc' = "expire" BY <2>2 DEF ReadBlocks
    <3>3. \A r \in Slots : r # cursor => payload'[r] = payload[r] /\ incoming'[r] = incoming[r]
      BY <1>t, <3>1 DEF TakeBuffer
    <3>4. payload'[cursor] # NULL => incoming'[cursor] = "payload"
      <4>1. CASE st = "payload" BY <1>t, <3>1, <4>1
      <4>2. CASE st # "payload"
        <5>1. incoming[cursor] # "payload" BY <3>1, <4>2 DEF Follows
        <5>2. payload[cursor] = NULL BY <2>0, <2>o, <3>2, <5>1, <1>t
        <5> QED BY <3>1, <4>2, <5>2
      <4> QED BY <4>1, <4>2
    <3> QED BY <2>0, <2>o, <3>2, <3>3, <3>4
  <2>3. CASE ReadFinishes
    <3>1. /\ ~CannotRead /\ pc' = "handle" /\ packet' \in CanBe(incoming[cursor])
          /\ incoming' = [incoming EXCEPT ![cursor] = "idle"]
          /\ packet' # "publish" => UNCHANGED payload
          /\ TakeBuffer(cursor) \/ UNCHANGED payload
      BY <2>3 DEF ReadFinishes
    <3>2. incoming[cursor] = "payload" => packet' = "publish"
      <4>1. \A t \in AllTypes : "payload" \in Body[t] => t = "publish"
        BY DEF AllTypes, Body
      <4> QED BY <3>1, <4>1, InputsAssumption DEF CanBe
    <3>3. packet' # "publish" => payload'[cursor] = NULL
      BY <1>t, <2>0, <2>o, <3>1, <3>2
    <3>4. \A r \in Slots : r # cursor => payload'[r] = payload[r] /\ incoming'[r] = incoming[r]
      BY <1>t, <3>1 DEF TakeBuffer
    <3> QED BY <2>0, <2>o, <3>1, <3>3, <3>4
  <2>4. CASE ReadFails
    <3>1. /\ CannotRead \/ incoming[cursor] \in {"idle", "fixed"}
          /\ incoming' = [incoming EXCEPT ![cursor] = "idle"] /\ pc' = "expire" /\ UNCHANGED payload
      BY <2>4 DEF ReadFails
    <3>2. ~(payload[cursor] # NULL /\ sock[client[cursor]] = "open")
      BY <1>t, <2>0, <2>o, <3>1 DEF CannotRead
    <3> QED BY <1>t, <2>0, <2>o, <3>1, <3>2
  <2>5. CASE ReadSpins
    BY <2>0, <2>5 DEF ReadSpins
  <2>6. CASE ReadHangs
    <3>1. TakeBuffer(cursor) /\ incoming' = [incoming EXCEPT ![cursor] = "payload"] /\ pc' = "hang"
      BY <2>6 DEF ReadHangs
    <3>2. \A r \in Slots : r # cursor => payload'[r] = payload[r]
      BY <1>t, <3>1 DEF TakeBuffer
    <3> QED BY <1>t, <2>0, <2>o, <3>1, <3>2
  <2>7. CASE ReadAborts     BY <1>0, <2>0, <2>7 DEF ReadAborts
  <2> QED BY <1>8, <2>1, <2>2, <2>3, <2>4, <2>5, <2>6, <2>7 DEF Read
<1>9. CASE Handle
  <2>0. pc = "handle" /\ client[cursor] # NULL
    BY <1>9, <1>t DEF Handle, Handling, HandleConnect, HandlePublish, SubscribeOne, SubscribeAck,
       UnsubscribeOne, UnsubscribeAck, HandlePing, HandleOther, HandleDisconnect, SlotsConsistent
  <2>1. ASSUME payload' = [payload EXCEPT ![cursor] = NULL], pc' = "expire",
               UNCHANGED <<client, sock, incoming>>
        PROVE  ParseInv'
    BY <1>t, <2>0, <2>1
  <2>2. CASE HandleConnect    BY <2>1, <2>2 DEF HandleConnect, Done
  <2>3. CASE HandlePublish
    <3>1. CASE payload[cursor] = NULL
      BY <1>t, <2>0, <2>3, <3>1 DEF HandlePublish
    <3>2. CASE payload[cursor] # NULL
      <4>1. \A t \in Topics \cup {NULL} : \A r \in Receivers(t) : client[r] # NULL
        BY <1>t DEF Receivers, SlotsConsistent
      <4>2. topic[cursor] \in Topics \cup {NULL} BY <1>t DEF IInv, TypeOK
      <4> QED BY <2>1, <2>3, <3>2, <4>1, <4>2 DEF HandlePublish, Done
    <3> QED BY <3>1, <3>2
  <2>4. CASE SubscribeOne     BY <1>0, <2>4 DEF SubscribeOne
  <2>5. CASE SubscribeAck     BY <2>1, <2>5 DEF SubscribeAck, Done
  <2>6. CASE UnsubscribeOne   BY <1>0, <2>6 DEF UnsubscribeOne
  <2>7. CASE UnsubscribeAck   BY <2>1, <2>7 DEF UnsubscribeAck, Done
  <2>8. CASE HandlePing       BY <2>1, <2>8 DEF HandlePing, Done
  <2>9. CASE HandleOther      BY <2>1, <2>9 DEF HandleOther, Done
  <2>10. CASE HandleDisconnect BY <1>4, <2>0, <2>10 DEF HandleDisconnect, Done
  <2> QED BY <1>9, <2>2, <2>3, <2>4, <2>5, <2>6, <2>7, <2>8, <2>9, <2>10 DEF Handle
<1>10. CASE SpinEnds
  <2>1. /\ pc = "spin" /\ pc' = "read" /\ ~CannotRead /\ UNCHANGED <<client, payload, sock, cursor>>
        /\ incoming' = [incoming EXCEPT ![cursor] = "topic"]
    BY <1>10 DEF SpinEnds
  <2>2. payload[cursor] = NULL
    BY <1>t, <2>1 DEF CannotRead, SlotsConsistent
  <2> QED BY <1>t, <2>1, <2>2
<1> QED BY <1>1, <1>2, <1>3, <1>5, <1>6, <1>7, <1>8, <1>9, <1>10 DEF Next, PollStep

(* With every publisher left in its slot, each step leaves a buffer in use  *)
(* in a register, or free.                                                  *)
LEMMA LeakStep ==
    ASSUME IInv, ParseInv, PoolNotLeaked, [Next]_vars, PublishersStay
    PROVE  PoolNotLeaked'
<1> USE DEF PoolNotLeaked, Occupied, parseVars, tableVars
<1>t. /\ cursor \in Slots /\ payload \in [Slots -> Buffers \cup {NULL}] /\ NULL \notin Buffers
      /\ refs \in [Buffers -> 0..1] /\ SlotsConsistent /\ BufferOwnership
      /\ client \in [Slots -> Handles \cup {NULL}]
  BY InputsAssumption DEF IInv, TypeOK, Buffers
<1>0. ASSUME UNCHANGED refs,
             \A s \in Slots : payload[s] # NULL /\ client[s] # NULL => payload'[s] = payload[s]
      PROVE  PoolNotLeaked'
  BY <1>0, <1>t DEF PublishersStay
<1>u. CASE UNCHANGED <<payload, refs>>
  BY <1>u, <1>0
<1>a. CASE \E h \in Handles : Accept(h)
  <2>1. PICK s \in Slots : client[s] = NULL /\ payload' = [payload EXCEPT ![s] = NULL] /\ refs' = refs
    BY <1>a DEF Accept, IsFirst, FreeSlots
  <2> QED BY <1>0, <1>t, <2>1
<1>b. CASE TakeBuffer(cursor) /\ pc = "read" /\ UNCHANGED client
  <2>1. client[cursor] # NULL BY <1>b, <1>t DEF SlotsConsistent
  <2>2. CASE payload[cursor] # NULL BY <1>u, <1>b, <2>2 DEF TakeBuffer
  <2>3. CASE payload[cursor] = NULL
    <3>1. PICK b \in Buffers : /\ payload' = [payload EXCEPT ![cursor] = b]
                               /\ refs' = [refs EXCEPT ![b] = @ + 1]
      BY <1>b, <2>3 DEF TakeBuffer
    <3> QED BY <1>b, <1>t, <2>1, <2>3, <3>1
  <2> QED BY <2>2, <2>3
<1>1. CASE Read
  BY <1>1, <1>u, <1>b, <1>t DEF Read, NotReady, ReadBlocks, ReadFinishes, ReadFails, ReadSpins,
     ReadHangs, ReadAborts
<1>2. CASE HandlePublish
  <2>1. CASE UNCHANGED <<payload, refs>> BY <1>u, <2>1
  <2>2. CASE /\ payload[cursor] # NULL /\ payload' = [payload EXCEPT ![cursor] = NULL]
             /\ refs' = [refs EXCEPT ![payload[cursor]] = refs[payload[cursor]] - 1]
    <3>1. refs[payload[cursor]] = 1 /\ payload[cursor] \in Buffers
      BY <1>t, <2>2 DEF BufferOwnership
    <3>2. UNCHANGED client BY <1>2 DEF HandlePublish
    <3>3. ASSUME NEW b \in Buffers, refs'[b] # 0
          PROVE  \E s \in Slots : client'[s] # NULL /\ payload'[s] = b
      <4>1. b # payload[cursor] /\ refs[b] # 0 BY <1>t, <2>2, <3>1, <3>3
      <4>2. PICK s \in Slots : client[s] # NULL /\ payload[s] = b BY <4>1
      <4> QED BY <1>t, <2>2, <3>2, <4>1, <4>2
    <3> QED BY <3>3
  <2> QED BY <1>2, <2>1, <2>2 DEF HandlePublish, Done
<1>3. CASE Handle /\ ~HandlePublish
  <2>1. pc = "handle" /\ (packet # "publish" \/ UNCHANGED <<payload, refs>>)
    BY <1>3 DEF Handle, Handling, HandleConnect, SubscribeOne, SubscribeAck, UnsubscribeOne,
       UnsubscribeAck, HandlePing, HandleOther, HandleDisconnect
  <2>2. /\ UNCHANGED refs
        /\ UNCHANGED payload \/ payload' = [payload EXCEPT ![cursor] = NULL]
    BY <1>3 DEF Handle, HandleConnect, SubscribeOne, SubscribeAck, UnsubscribeOne,
       UnsubscribeAck, HandlePing, HandleOther, HandleDisconnect, Done
  <2>3. CASE UNCHANGED payload BY <1>u, <2>2, <2>3
  <2>4. CASE packet # "publish" /\ payload' = [payload EXCEPT ![cursor] = NULL]
    <3>1. payload[cursor] = NULL BY <2>1, <2>4 DEF ParseInv
    <3> QED BY <1>0, <1>t, <2>2, <2>4, <3>1
  <2> QED BY <1>u, <2>1, <2>2, <2>3, <2>4
<1>4. CASE \/ \E h \in Handles : PeerVanishes(h)
           \/ Tick \/ PollStart \/ SkipSlot \/ NotConnected \/ WriteOutgoing
           \/ StillAlive \/ Expires \/ ExpiresNobody \/ SpinEnds \/ UNCHANGED vars
  BY <1>4, <1>u DEF PeerVanishes, Tick, PollStart, SkipSlot, NotConnected, WriteOutgoing,
     StillAlive, Expires, ExpiresNobody, SpinEnds, vars
<1> QED BY <1>a, <1>1, <1>2, <1>3, <1>4 DEF Next, PollStep, Handle

(* ParseInv and PoolNotLeaked hold at the start.                            *)
LEMMA ParseInit == Init => ParseInv /\ PoolNotLeaked
<1>1. Init => \A s \in Slots : payload[s] = NULL BY DEF Init
<1>2. Init => \A b \in Buffers : refs[b] = 0 BY DEF Init
<1> QED BY <1>1, <1>2 DEF Init, ParseInv, PoolNotLeaked

(* A buffer of the pool is lost only with a client that is dropped in the   *)
(* middle of its PUBLISH: as long as none is, every buffer in use is in the *)
(* register of a client that will finish with it, whatever else peers and   *)
(* the network do (client.c:84-113, 442-500, broker.c:155-178).             *)
THEOREM PoolLostOnlyWithPublisher == Spec /\ [][PublishersStay]_vars => []PoolNotLeaked
<1>1. IInv /\ ParseInv /\ PoolNotLeaked /\ [Next]_vars /\ [PublishersStay]_vars
         => (ParseInv /\ PoolNotLeaked)'
  <2> SUFFICES ASSUME IInv, ParseInv, PoolNotLeaked, [Next]_vars, [PublishersStay]_vars
               PROVE  (ParseInv /\ PoolNotLeaked)'
    OBVIOUS
  <2>1. CASE PublishersStay BY <2>1, ParseStep, LeakStep
  <2>2. CASE UNCHANGED vars
    <3>1. PublishersStay BY <2>2 DEF vars, tableVars, PublishersStay
    <3> QED BY <3>1, ParseStep, LeakStep
  <2> QED BY <2>1, <2>2
<1> QED BY <1>1, ParseInit, Consistency, PTL DEF Spec

=============================================================================
