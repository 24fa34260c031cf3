-------------------------- MODULE RefinementProofs --------------------------
(***************************************************************************)
(* The proof that the client table and its poll loop implement Delivery.    *)
(***************************************************************************)
EXTENDS DeliveryProofs

(* What a step does to the state that the mapping looks at.                 *)
LEMMA MappedSteps ==
    ASSUME IInv, Next
    PROVE  \/ \E h \in Handles : Accept(h)
           \/ Disconnect(cursor) /\ client[cursor] # NULL /\ UNCHANGED due
           \/ HandleConnect
           \/ \E j \in Entries, t \in Topics : Granted(j, t) /\ SubscribeOne
           \/ UnsubscribeOne
           \/ UNCHANGED <<client, state, due>>
<1> USE DEF tableVars, subVars
<1> cursor \in Slots /\ filters \in Seq(Topics \cup {NULL}) BY DEF IInv, TypeOK
<1>1. CASE \E h \in Handles : Accept(h) \/ PeerVanishes(h)
  BY <1>1 DEF PeerVanishes
<1>2. CASE Tick \/ PollStart \/ SkipSlot
  BY <1>2 DEF Tick, PollStart, SkipSlot
<1>3. CASE NotConnected     BY <1>3 DEF NotConnected, Served
<1>4. CASE WriteOutgoing    BY <1>4 DEF WriteOutgoing
<1>5. CASE Read
  BY <1>5 DEF Read, NotReady, ReadBlocks, ReadFinishes, ReadFails, ReadSpins,
     ReadHangs, ReadAborts
<1>6. CASE Handle
  <2>1. CASE SubscribeOne
    <3>1. CASE UNCHANGED subVars BY <2>1, <3>1 DEF SubscribeOne
    <3>2. CASE ~UNCHANGED subVars
      <4>1. Head(filters) \in Topics
        BY <2>1, <3>2 DEF SubscribeOne
      <4>2. \E j \in Entries : Granted(j, Head(filters))
        BY <2>1, <3>2 DEF SubscribeOne, Granted, IsFirst, FreeEntries
      <4> QED BY <2>1, <4>1, <4>2
    <3> QED BY <3>1, <3>2
  <2>2. CASE HandleDisconnect
    BY <2>2 DEF HandleDisconnect, Handling, IInv, SlotsConsistent
  <2>3. CASE HandlePublish \/ SubscribeAck \/ UnsubscribeAck \/ HandlePing \/ HandleOther
    BY <2>3 DEF HandlePublish, SubscribeAck, UnsubscribeAck, HandlePing, HandleOther
  <2> QED BY <1>6, <2>1, <2>2, <2>3 DEF Handle
<1>7. CASE StillAlive \/ ExpiresNobody \/ SpinEnds
  BY <1>7 DEF StillAlive, ExpiresNobody, SpinEnds
<1>8. CASE Expires          BY <1>8 DEF Expires
<1> QED BY <1>1, <1>2, <1>3, <1>4, <1>5, <1>6, <1>7, <1>8 DEF Next, PollStep

(* A handle names its slot, so the grants of a client that is here are what *)
(* its slot is due, and those of one that is not are none.                  *)
Mapped ==
    /\ Here \subseteq Handles
    /\ Grants \in [Handles -> [Topics -> Nat]]
    /\ \A s \in Slots : client[s] # NULL => Grants[client[s]] = due[s]
    /\ \A h \in Handles : h \notin Here => Grants[h] = [t \in Topics |-> 0]

(* The mapping, read through the invariant of the table.                    *)
LEMMA Mapping == IInv => Mapped
<1> SUFFICES ASSUME IInv PROVE Mapped OBVIOUS
<1> /\ client \in [Slots -> Handles \cup {NULL}] /\ NULL \notin Handles
    /\ due \in [Slots -> [Topics -> Nat]]
  BY InputsAssumption DEF IInv, TypeOK
<1>1. Here \subseteq Handles
  BY DEF Here, Occupied
<1>2. \A s \in Slots : client[s] # NULL => SlotOf(client[s]) = s
  BY DEF SlotOf, IInv, HandlesOwned
<1>3. \A s \in Slots : client[s] # NULL => client[s] \in Here
  BY DEF Here, Occupied
<1>4. \A h \in Here : SlotOf(h) \in Slots
  BY <1>2 DEF Here, Occupied
<1>5. Grants \in [Handles -> [Topics -> Nat]]
  BY <1>4 DEF Grants
<1>6. \A s \in Slots : client[s] # NULL => Grants[client[s]] = due[s]
  BY <1>1, <1>2, <1>3 DEF Grants
<1>7. \A h \in Handles : h \notin Here => Grants[h] = [t \in Topics |-> 0]
  BY DEF Grants
<1> QED BY <1>1, <1>5, <1>6, <1>7 DEF Mapped

(* The same in the state after a step.                                      *)
LEMMA MappingNext == IInv' => Mapped'
BY Mapping, PTL

(* Grants changes at most where the table does.                             *)
LEMMA SameGrants ==
    ASSUME IInv, IInv', NEW h \in Handles,
           NEW s \in Slots, client[s] = h, client'[s] = h
    PROVE  Grants[h] = due[s] /\ Grants'[h] = due'[s]
  BY Mapping, MappingNext, InputsAssumption DEF Mapped

(* Who is here and who is open, slot by slot.                               *)
LEMMA Members ==
    ASSUME IInv
    PROVE  /\ \A h : h \in Here <=> \E s \in Slots : client[s] # NULL /\ client[s] = h
           /\ \A h : h \in Open <=> \E s \in Slots : state[s] = "connected" /\ client[s] = h
           /\ \A s \in Slots : state[s] = "connected" => client[s] # NULL
           /\ Open \subseteq Here
  BY DEF Here, Open, Occupied, IInv, SlotsConsistent

-----------------------------------------------------------------------------
(* A client that is accepted joins: nobody has its handle, and the slot it  *)
(* gets is due nothing.                                                     *)
LEMMA JoinStep ==
    ASSUME IInv, IInv', NEW h \in Handles, Accept(h), sent' = NULL
    PROVE  Promise!Join(h)
<1> /\ client \in [Slots -> Handles \cup {NULL}] /\ NULL \notin Handles
    /\ state \in [Slots -> {"new", "connected", "disconnected"}]
    /\ due \in [Slots -> [Topics -> Nat]]
  BY InputsAssumption DEF IInv, TypeOK
<1>1. PICK s \in Slots : /\ client[s] = NULL
                         /\ client' = [client EXCEPT ![s] = h]
                         /\ state' = [state EXCEPT ![s] = "new"]
                         /\ due' = [due EXCEPT ![s] = [t \in Topics |-> 0]]
  BY DEF Accept, IsFirst, FreeSlots
<1>2. h \notin Here
  BY DEF Accept, IInv, HandlesOwned, Here, Occupied
<1>3. Here' = Here \cup {h}
  BY <1>1 DEF Here, Occupied
<1>4. Open' = Open
  <2>1. state[s] # "connected" BY <1>1 DEF IInv, SlotsConsistent
  <2>2. \A r \in Slots : r # s => state'[r] = state[r] /\ client'[r] = client[r]
    BY <1>1
  <2>3. state'[s] # "connected" BY <1>1
  <2> QED BY <2>1, <2>2, <2>3 DEF Open
<1>5. ASSUME NEW g \in Handles PROVE Grants'[g] = Grants[g]
  <2>1. CASE g = h
    <3>1. Grants'[h] = due'[s] BY <1>1, MappingNext DEF Mapped
    <3>2. Grants[h] = [t \in Topics |-> 0] BY <1>2, Mapping DEF Mapped
    <3> QED BY <1>1, <2>1, <3>1, <3>2
  <2>2. CASE g # h /\ g \in Here
    <3>1. PICK r \in Slots : client[r] = g /\ g # NULL
      BY <2>2 DEF Here, Occupied
    <3>2. client'[r] = g /\ due'[r] = due[r]
      BY <1>1, <3>1
    <3> QED BY <3>1, <3>2, SameGrants
  <2>3. CASE g # h /\ g \notin Here
    <3>1. g \notin Here' BY <1>3, <2>3
    <3> QED BY <2>3, <3>1, Mapping, MappingNext DEF Mapped
  <2> QED BY <2>1, <2>2, <2>3
<1>6. Grants' = Grants
  BY <1>5, Mapping, MappingNext DEF Mapped
<1> QED BY <1>2, <1>3, <1>4, <1>6 DEF Promise!Join

(* A client that loses its slot leaves, alone.                              *)
LEMMA LeaveStep ==
    ASSUME IInv, IInv', Disconnect(cursor), client[cursor] # NULL, UNCHANGED due,
           sent' = NULL
    PROVE  Promise!Leave(client[cursor])
<1> /\ client \in [Slots -> Handles \cup {NULL}] /\ NULL \notin Handles
    /\ state \in [Slots -> {"new", "connected", "disconnected"}]
    /\ cursor \in Slots
  BY InputsAssumption DEF IInv, TypeOK
<1> DEFINE c == client[cursor]
<1>1. client' = [client EXCEPT ![cursor] = NULL] /\ state' = [state EXCEPT ![cursor] = "disconnected"]
  BY DisconnectClears
<1>2. \A r \in Slots : r # cursor => client[r] # c
  BY DEF IInv, HandlesOwned
<1>3. c \in Here
  BY DEF Here, Occupied
<1>4. Here' = Here \ {c}
  BY <1>1, <1>2 DEF Here, Occupied
<1>5. Open' = Open \ {c}
  <2>1. \A r \in Slots : r # cursor => state'[r] = state[r] /\ client'[r] = client[r]
    BY <1>1
  <2>2. state'[cursor] # "connected" BY <1>1
  <2> QED BY <1>2, <2>1, <2>2 DEF Open
<1>6. Grants'[c] = Promise!NoGrants
  BY <1>4, MappingNext DEF Mapped, Promise!NoGrants
<1>7. ASSUME NEW g \in Handles, g # c PROVE Grants'[g] = Grants[g]
  <2>1. CASE g \in Here
    <3>1. PICK r \in Slots : client[r] = g /\ g # NULL
      BY <2>1 DEF Here, Occupied
    <3>2. client'[r] = g /\ due'[r] = due[r]
      BY <1>1, <1>7, <3>1
    <3> QED BY <3>1, <3>2, SameGrants
  <2>2. CASE g \notin Here
    <3>1. g \notin Here' BY <1>4, <2>2
    <3> QED BY <2>2, <3>1, Mapping, MappingNext DEF Mapped
  <2> QED BY <2>1, <2>2
<1>8. Grants' = [Grants EXCEPT ![c] = Promise!NoGrants]
  <2> HIDE DEF c
  <2> QED BY <1>6, <1>7, Mapping, MappingNext DEF Mapped
<1> QED BY <1>3, <1>4, <1>5, <1>8 DEF Promise!Leave

(* A CONNECT opens the client that sent it.                                 *)
LEMMA OpenStep ==
    ASSUME IInv, IInv', HandleConnect, sent' = NULL
    PROVE  client[cursor] \in Handles /\ Promise!Open(client[cursor])
<1> /\ client \in [Slots -> Handles \cup {NULL}] /\ NULL \notin Handles
    /\ state \in [Slots -> {"new", "connected", "disconnected"}]
    /\ cursor \in Slots
  BY InputsAssumption DEF IInv, TypeOK
<1>1. /\ client[cursor] # NULL /\ UNCHANGED <<client, due>>
      /\ state' = [state EXCEPT ![cursor] = "connected"]
  BY DEF HandleConnect, Handling, IInv, SlotsConsistent, subVars
<1>2. Here' = Here
  BY <1>1 DEF Here, Occupied
<1>3. Open' = Open \cup {client[cursor]}
  BY <1>1 DEF Open
<1>4. Grants' = Grants
  BY <1>1, <1>2 DEF Grants, SlotOf
<1>5. client[cursor] \in Here
  BY <1>1 DEF Here, Occupied
<1> QED BY <1>1, <1>2, <1>3, <1>4, <1>5 DEF Promise!Open

(* What a client is due changes in its own row only.                        *)
LEMMA RowStep ==
    ASSUME IInv, IInv', UNCHANGED <<client, state>>, client[cursor] # NULL,
           NEW t \in Topics, NEW n \in Nat, due' = [due EXCEPT ![cursor][t] = n]
    PROVE  /\ client[cursor] \in Here
           /\ Grants[client[cursor]][t] = due[cursor][t]
           /\ Here' = Here /\ Open' = Open
           /\ Grants' = [Grants EXCEPT ![client[cursor]][t] = n]
<1> /\ client \in [Slots -> Handles \cup {NULL}] /\ NULL \notin Handles
    /\ due \in [Slots -> [Topics -> Nat]] /\ cursor \in Slots
  BY InputsAssumption DEF IInv, TypeOK
<1> DEFINE c == client[cursor]
<1>1. c \in Here /\ c \in Handles
  BY DEF Here, Occupied
<1>2. Here' = Here /\ Open' = Open
  BY DEF Here, Occupied, Open
<1>3. Grants[c] = due[cursor] /\ Grants'[c] = due'[cursor]
  BY <1>1, SameGrants
<1>4. due'[cursor] = [due[cursor] EXCEPT ![t] = n]
  OBVIOUS
<1>5. ASSUME NEW g \in Handles, g # c PROVE Grants'[g] = Grants[g]
  <2>1. CASE g \in Here
    <3>1. PICK r \in Slots : client[r] = g /\ g # NULL
      BY <2>1 DEF Here, Occupied
    <3>2. client'[r] = g /\ due'[r] = due[r]
      BY <1>5, <3>1
    <3> QED BY <3>1, <3>2, SameGrants
  <2>2. CASE g \notin Here
    <3>1. g \notin Here' BY <1>2, <2>2
    <3> QED BY <2>2, <3>1, Mapping, MappingNext DEF Mapped
  <2> QED BY <2>1, <2>2
<1>6. Grants'[c] = [Grants[c] EXCEPT ![t] = n]
  BY <1>3, <1>4, Zenon
<1>7. Grants' = [Grants EXCEPT ![c][t] = n]
  <2> HIDE DEF c
  <2> QED BY <1>1, <1>5, <1>6, Mapping, MappingNext DEF Mapped
<1> QED BY <1>1, <1>2, <1>3, <1>7

(* A filter that is granted is a grant, to the client at the cursor.        *)
LEMMA GrantStep ==
    ASSUME IInv, IInv', NEW j \in Entries, NEW t \in Topics, Granted(j, t), SubscribeOne,
           sent' = NULL
    PROVE  client[cursor] \in Handles /\ Promise!Grant(client[cursor], t)
<1> /\ due \in [Slots -> [Topics -> Nat]] /\ cursor \in Slots
    /\ client \in [Slots -> Handles \cup {NULL}]
  BY DEF IInv, TypeOK
<1>1. client[cursor] # NULL /\ UNCHANGED <<client, state>>
  BY DEF SubscribeOne, Handling, IInv, SlotsConsistent, tableVars
<1>2. due' = [due EXCEPT ![cursor][t] = due[cursor][t] + 1] /\ due[cursor][t] + 1 \in Nat
  BY DEF Granted
<1>3. /\ client[cursor] \in Here /\ Here' = Here /\ Open' = Open
      /\ Grants[client[cursor]][t] = due[cursor][t]
      /\ Grants' = [Grants EXCEPT ![client[cursor]][t] = due[cursor][t] + 1]
  BY <1>1, <1>2, RowStep
<1> QED BY <1>1, <1>3 DEF Promise!Grant

(* A filter that is unsubscribed takes a grant back, or changes nothing     *)
(* that can be seen.                                                        *)
LEMMA RevokeStep ==
    ASSUME IInv, IInv', UnsubscribeOne, sent' = NULL
    PROVE  \/ \E t \in Topics : client[cursor] \in Handles /\ Promise!Revoke(client[cursor], t)
           \/ Promise!Quiet
<1> /\ due \in [Slots -> [Topics -> Nat]] /\ cursor \in Slots
    /\ client \in [Slots -> Handles \cup {NULL}]
    /\ filters \in Seq(Topics \cup {NULL})
  BY DEF IInv, TypeOK
<1>1. client[cursor] # NULL /\ UNCHANGED <<client, state>>
  BY DEF UnsubscribeOne, Handling, IInv, SlotsConsistent, tableVars
<1>2. CASE UNCHANGED due
  BY <1>1, <1>2 DEF Promise!Quiet, Here, Occupied, Open, Grants, SlotOf
<1>3. CASE ~UNCHANGED due
  <2> DEFINE t == Head(filters)
  <2>1. /\ t \in Topics /\ due[cursor][t] > 0
        /\ due' = [due EXCEPT ![cursor][t] = due[cursor][t] - 1]
    BY <1>3 DEF UnsubscribeOne
  <2>2. due[cursor][t] - 1 \in Nat BY <2>1
  <2> HIDE DEF t
  <2>3. /\ client[cursor] \in Here /\ Here' = Here /\ Open' = Open
        /\ Grants[client[cursor]][t] = due[cursor][t]
        /\ Grants' = [Grants EXCEPT ![client[cursor]][t] = due[cursor][t] - 1]
    BY <1>1, <2>1, <2>2, RowStep
  <2>4. Promise!Revoke(client[cursor], t)
    BY <2>1, <2>3 DEF Promise!Revoke
  <2> QED BY <1>1, <2>1, <2>4
<1> QED BY <1>2, <1>3

(* A publish is written to the open clients with a grant for its topic or   *)
(* for one above: the table selects the slots, the mapping names them.      *)
LEMMA PublishedStep ==
    ASSUME IInv, RoutesMatchGrants, Publishes, sent' = Written
    PROVE  topic[cursor] \in Topics /\ Promise!Publish(topic[cursor])
<1> DEFINE t == topic[cursor]
<1>1. t \in Topics
  BY DEF Publishes, IInv, TypeOK
<1>2. {t} \cup Above[t] \subseteq Topics
  BY <1>1, InputsAssumption
<1>3. Receivers(t) = {s \in Occupied : /\ state[s] = "connected"
                                       /\ \E u \in {t} \cup Above[t] : due[s][u] > 0}
  BY <1>1 DEF RoutesMatchGrants
<1>4. \A s \in Slots : client[s] # NULL => Grants[client[s]] = due[s]
  BY Mapping DEF Mapped
<1>5. {client[r] : r \in Receivers(t)}
        = {c \in Open : \E u \in {t} \cup Above[t] : Grants[c][u] > 0}
  <2> HIDE DEF t
  <2>1. ASSUME NEW r \in Receivers(t)
        PROVE  client[r] \in Open /\ \E u \in {t} \cup Above[t] : Grants[client[r]][u] > 0
    BY <1>3, <1>4, <2>1 DEF Open, Occupied
  <2>2. ASSUME NEW c \in Open, \E u \in {t} \cup Above[t] : Grants[c][u] > 0
        PROVE  \E r \in Receivers(t) : client[r] = c
    <3>1. PICK r \in Slots : state[r] = "connected" /\ client[r] = c
      BY <2>2 DEF Open
    <3>2. client[r] # NULL BY <3>1 DEF IInv, SlotsConsistent
    <3> QED BY <1>3, <1>4, <2>2, <3>1, <3>2 DEF Occupied
  <2> QED BY <2>1, <2>2
<1>6. UNCHANGED <<client, state, due>>
  BY DEF Publishes, HandlePublish, subVars
<1>7. Here' = Here /\ Open' = Open /\ Grants' = Grants
  BY <1>6 DEF Here, Occupied, Open, Grants, SlotOf
<1> QED BY <1>1, <1>5, <1>7 DEF Promise!Publish, Written

-----------------------------------------------------------------------------
(* Every step of the poll is a step of Delivery or none.                    *)
LEMMA DeliveryStep ==
    ASSUME IInv, IInv', DueCounts, [DeliveryNext]_deliveryVars
    PROVE  [Promise!Next]_<<Here, Open, Grants, sent>>
<1> cursor \in Slots /\ client \in [Slots -> Handles \cup {NULL}]
  BY DEF IInv, TypeOK
<1>1. CASE UNCHANGED deliveryVars
  BY <1>1 DEF deliveryVars, vars, tableVars, subVars, Here, Occupied, Open, Grants, SlotOf
<1>2. CASE DeliveryNext /\ Publishes
  <2>1. sent' = Written BY <1>2 DEF DeliveryNext
  <2> QED BY <1>2, <2>1, PublishedStep, RoutesFollow DEF Promise!Next
<1>3. CASE DeliveryNext /\ ~Publishes
  <2>1. Next /\ sent' = NULL BY <1>3 DEF DeliveryNext
  <2>2. CASE \E h \in Handles : Accept(h)
    BY <2>1, <2>2, JoinStep DEF Promise!Next
  <2>3. CASE Disconnect(cursor) /\ client[cursor] # NULL /\ UNCHANGED due
    <3>1. client[cursor] \in Handles BY <2>3
    <3> QED BY <2>1, <2>3, <3>1, LeaveStep DEF Promise!Next
  <2>4. CASE HandleConnect
    BY <2>1, <2>4, OpenStep DEF Promise!Next
  <2>5. CASE \E j \in Entries, t \in Topics : Granted(j, t) /\ SubscribeOne
    BY <2>1, <2>5, GrantStep DEF Promise!Next
  <2>6. CASE UnsubscribeOne
    BY <2>1, <2>6, RevokeStep DEF Promise!Next
  <2>7. CASE UNCHANGED <<client, state, due>>
    BY <2>1, <2>7 DEF Promise!Next, Promise!Quiet, Here, Occupied, Open, Grants, SlotOf
  <2> QED BY <2>1, <2>2, <2>3, <2>4, <2>5, <2>6, <2>7, MappedSteps
<1> QED BY <1>1, <1>2, <1>3

(* The empty table promises nothing.                                        *)
LEMMA DeliveryStarts == DeliveryInit => Promise!Init
<1> SUFFICES ASSUME DeliveryInit PROVE Promise!Init OBVIOUS
<1>1. Here = {} /\ Open = {} BY DEF DeliveryInit, Init, Here, Occupied, Open
<1>2. Grants = [c \in Handles |-> Promise!NoGrants]
  BY <1>1 DEF Grants, Promise!NoGrants
<1> QED BY <1>1, <1>2 DEF Promise!Init, DeliveryInit

(* The client table, its poll loop and emcuetiti_broker_publish implement   *)
(* Delivery: for any number of slots, entries, clients and topics, a        *)
(* publish goes to the open clients that hold a grant for its topic or one  *)
(* above, and to no others (client.c:97-497, broker.c:47-117).              *)
THEOREM Delivers == DeliverySpec => DeliversAsPromised
<1>1. DeliverySpec => [](IInv /\ DueCounts)
  <2>1. DeliveryInit => IInv /\ DueCounts
    BY IInvInit, DueInit DEF DeliveryInit
  <2>2. IInv /\ DueCounts /\ [DeliveryNext]_deliveryVars => (IInv /\ DueCounts)'
    <3>1. [DeliveryNext]_deliveryVars => [Next]_vars
      BY DEF DeliveryNext, deliveryVars
    <3> QED BY <3>1, IInvStep, DueStep
  <2> QED BY <2>1, <2>2, PTL DEF DeliverySpec
<1>2. IInv /\ IInv' /\ DueCounts /\ [DeliveryNext]_deliveryVars
        => [Promise!Next]_<<Here, Open, Grants, sent>>
  BY DeliveryStep
<1> QED BY <1>1, <1>2, DeliveryStarts, PTL DEF DeliverySpec, DeliversAsPromised, Promise!Spec

=============================================================================
