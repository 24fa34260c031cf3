------------------------------- MODULE Clients -------------------------------
(***************************************************************************)
(* The broker's client table: the slots of emcuetiti_clientstate, the poll  *)
(* loop that serves them (emcuetiti_client.c), the pool of payload buffers  *)
(* (emcuetiti_broker.c), and what the linux_glib host does to them when a   *)
(* connection comes or goes (ports/linux_glib/broker.c).                    *)
(*                                                                         *)
(* One thread runs the host's callbacks one at a time, so a connection is   *)
(* accepted only between two polls.  Peers and the clock do not wait: they  *)
(* move between any two steps of a poll.  What a read of the socket brings  *)
(* is chosen here packet by packet, with `incoming' the place the packet    *)
(* reader has reached; PacketRead models the reader byte by byte.           *)
(***************************************************************************)
EXTENDS Integers, FiniteSets, Sequences

CONSTANTS
    MaxClients,       \* EMCUETITI_CONFIG_MAXCLIENTS
    MaxSubs,          \* EMCUETITI_CONFIG_MAXSUBSPERCLIENT
    MaxInflight,      \* EMCUETITI_CONFIG_MAXINFLIGHTPAYLOADS
    DefaultKeepalive, \* EMCUETITI_CONFIG_DEFAULTKEEPALIVE
    CounterWidth,     \* values of the unsigned numsubscriptions
    TimeWidth,        \* values of EMCUETITI_CONFIG_TIMESTAMPTYPE
    Handles,          \* the client handles the host can have allocated
    Topics,           \* the topics of the broker's tree
    Above,            \* for each topic, its ancestors in the tree
    NULL,
    PacketTypes,      \* the kinds of packet peers send in this instance
    Keepalives,       \* the keepalive values a CONNECT carries
    FilterLists,      \* the resolved filter lists of SUBSCRIBE/UNSUBSCRIBE
    Quirks,           \* what peers and the network may do, see below
    MaxTime           \* bound: the clock stops here

AllTypes == {"connect", "publish", "subscribe", "unsubscribe", "ping",
             "disconnect", "other"}

(* vanish: a peer goes away; blocked: a socket takes no more bytes; split:  *)
(* a PUBLISH ends inside its topic length; empty: a PUBLISH without         *)
(* payload; oversize: a payload larger than a buffer; credentials: a        *)
(* CONNECT that carries more than the client id.                            *)
AllQuirks == {"vanish", "blocked", "split", "empty", "oversize", "credentials"}

Slots   == 1..MaxClients
Entries == 1..MaxSubs
Buffers == 1..MaxInflight

Lease(k) == LET ka == IF k = 0 THEN DefaultKeepalive ELSE k
            IN  ka + ka \div 2

ASSUME SizesAssumption ==
    /\ {MaxClients, MaxSubs, MaxInflight, DefaultKeepalive} \subseteq Nat \ {0}
    /\ CounterWidth \in Nat /\ CounterWidth > MaxSubs
    /\ TimeWidth \in Nat \ {0}
    /\ MaxTime \in Nat

ASSUME InputsAssumption ==
    /\ NULL \notin Handles \cup Topics \cup Nat
    /\ Above \in [Topics -> SUBSET Topics]
    /\ PacketTypes \subseteq AllTypes
    /\ Keepalives \subseteq Nat
    /\ FilterLists \subseteq Seq(Topics \cup {NULL})
    /\ Quirks \subseteq AllQuirks

VARIABLES
    client,    \* clients[s].client: the handle in the slot, or NULL
    state,     \* clients[s].state
    keepalive, \* clients[s].keepalive
    lastseen,  \* clients[s].lastseen
    subs,      \* clients[s].subscriptions[].topic
    numsubs,   \* clients[s].numsubscriptions
    incoming,  \* clients[s].incomingpacket.state, by region
    topic,     \* clients[s].registers.publish.topic
    payload,   \* clients[s].registers.publish.payloadbuff
    outgoing,  \* clients[s].outgoingpacket: the one queued acknowledgement
    registered,\* registeredclients
    refs,      \* inflightpayloads[b].refs
    sock,      \* the socket behind each handle, as the kernel sees it
    clock,     \* what callbacks->timestamp() returns
    now,       \* the time the running (or last) poll took at its start
    pc,        \* where the thread is
    cursor,    \* the slot the poll is at
    packet,    \* the type of the packet just finished
    filters,   \* its filters that the handler's loop has still to take
    due        \* history: grants told to the slot's client, less removals

tableVars  == <<client, state, keepalive, lastseen, registered>>
subVars    == <<subs, numsubs, due>>
parseVars  == <<incoming, topic, payload, refs>>
packetVars == <<packet, filters>>
vars == <<tableVars, subVars, parseVars, packetVars, outgoing, sock, clock,
          now, pc, cursor>>

(* The regions of the reader's states.  idle stands for IDLE, TYPE,         *)
(* FINISHED and ERROR: the next read starts a packet.  fixed is LEN.        *)
Body == [connect |-> {"connect"}, publish |-> {"topic", "payload"},
         subscribe |-> {"subscribe"}, unsubscribe |-> {"unsubscribe"},
         ping |-> {}, disconnect |-> {}, other |-> {"other"}]

AllStages == {"idle", "fixed"} \cup UNION {Body[t] : t \in AllTypes}

Follows(a, b) == \/ a \in {b, "idle"}
                 \/ a = "fixed" /\ b # "idle"
                 \/ a = "topic" /\ b = "payload"

(* The packets that a packet read as far as stage st can still turn out.    *)
CanBe(st) == {t \in PacketTypes : st \in {"idle", "fixed"} \cup Body[t]}

IsFirst(i, S) == i \in S /\ \A j \in S : i <= j
FreeSlots     == {s \in Slots : client[s] = NULL}
FreeBuffersAll == Buffers \* mutant: the use count is not looked at
FreeBuffers   == {b \in Buffers : refs[b] = 0}
FreeEntries(s) == {j \in Entries : subs[s][j] = NULL}
HoldersAny(h) == {s \in Slots : client[s] # NULL} \* mutant: any client will do
Holders(h)    == {s \in Slots : client[s] = h}
Occupied      == {s \in Slots : client[s] # NULL}

Wrap(t) == IF t >= TimeWidth THEN t - TimeWidth ELSE t

(* Mutants: alive on the last tick too; no grace of half the keepalive; 0   *)
(* taken for no keepalive at all.                                           *)
AliveAtExpiry(s) == Wrap(lastseen[s] + Lease(keepalive[s])) >= now
AliveNoGrace(s)  == Wrap(lastseen[s] + keepalive[s]) > now
AliveForever(s)  == keepalive[s] = 0 \/ Wrap(lastseen[s] + Lease(keepalive[s])) > now

(* checkkeepalive's test: `expires' is a timestamp and may wrap.            *)
Alive(s) == Wrap(lastseen[s] + Lease(keepalive[s])) > now

(* Mutant: whoever is in the slot, CONNECTED or not.                        *)
ReceiversUnopened(t) == {s \in Slots : \E j \in Entries : subs[s][j] \in {t} \cup Above[t]}

(* The clients emcuetiti_broker_publish writes a publish on t to.           *)
Receivers(t) == {s \in Slots : /\ state[s] = "connected"
                               /\ \E j \in Entries : subs[s][j] \in {t} \cup Above[t]}

-----------------------------------------------------------------------------
Init ==
    /\ client = [s \in Slots |-> NULL]
    /\ state = [s \in Slots |-> "new"]
    /\ keepalive = [s \in Slots |-> 0]
    /\ lastseen = [s \in Slots |-> 0]
    /\ subs = [s \in Slots |-> [j \in Entries |-> NULL]]
    /\ numsubs = [s \in Slots |-> 0]
    /\ incoming = [s \in Slots |-> "idle"]
    /\ topic = [s \in Slots |-> NULL]
    /\ payload = [s \in Slots |-> NULL]
    /\ outgoing = [s \in Slots |-> "idle"]
    /\ registered = 0
    /\ refs = [b \in Buffers |-> 0]
    /\ sock = [h \in Handles |-> "closed"]
    /\ clock = 0 /\ now = 0
    /\ pc = "main" /\ cursor = 1
    /\ packet = "other" /\ filters = <<>>
    /\ due = [s \in Slots |-> [t \in Topics |-> 0]]

-----------------------------------------------------------------------------
(* The environment.                                                         *)

(* Mutants: the entries survive; the count survives.                        *)
ClearSubsCount(s)   == numsubs' = [numsubs EXCEPT ![s] = 0] /\ UNCHANGED subs
ClearSubsEntries(s) == /\ subs' = [subs EXCEPT ![s] = [j \in Entries |-> NULL]]
                       /\ UNCHANGED numsubs

ClearSubs(s) == /\ subs' = [subs EXCEPT ![s] = [j \in Entries |-> NULL]]
                /\ numsubs' = [numsubs EXCEPT ![s] = 0]

(* serversocket_callback: a connection is turned away when the table is     *)
(* full; otherwise emcuetiti_client_register takes the first free slot.     *)
(* It leaves the slot's packet reader and keepalive as they were.           *)
Accept(h) ==
    /\ pc = "main" /\ sock[h] = "closed"
    /\ registered < MaxClients
    /\ \E s \in Slots :
        /\ IsFirst(s, FreeSlots)
        /\ client' = [client EXCEPT ![s] = h]
        /\ state' = [state EXCEPT ![s] = "new"]
        /\ lastseen' = [lastseen EXCEPT ![s] = clock]
        /\ ClearSubs(s)
        /\ topic' = [topic EXCEPT ![s] = NULL]
        /\ payload' = [payload EXCEPT ![s] = NULL]
        /\ outgoing' = [outgoing EXCEPT ![s] = "idle"]
        /\ due' = [due EXCEPT ![s] = [t \in Topics |-> 0]]
    /\ registered' = registered + 1
    /\ sock' = [sock EXCEPT ![h] = "open"]
    /\ UNCHANGED <<keepalive, incoming, refs, packetVars, clock, now, pc, cursor>>

Tick ==
    /\ clock # MaxTime
    /\ clock' = Wrap(clock + 1)
    /\ UNCHANGED <<tableVars, subVars, parseVars, packetVars, outgoing, sock,
                   now, pc, cursor>>

PeerVanishes(h) ==
    /\ "vanish" \in Quirks
    /\ sock[h] = "open"
    /\ sock' = [sock EXCEPT ![h] = "eof"]
    /\ UNCHANGED <<tableVars, subVars, parseVars, packetVars, outgoing, clock,
                   now, pc, cursor>>

-----------------------------------------------------------------------------
(* Mutants: the count stays; the slot keeps its state.                      *)
DisconnectKeepsCount(s) ==
    /\ registered > 0
    /\ \E i \in Slots : /\ IsFirst(i, Holders(client[s]))
                        /\ client' = [client EXCEPT ![i] = NULL]
    /\ sock' = [sock EXCEPT ![client[s]] = "closed"]
    /\ state' = [state EXCEPT ![s] = "disconnected"]
    /\ UNCHANGED registered
DisconnectKeepsState(s) ==
    /\ registered > 0
    /\ \E i \in Slots : /\ IsFirst(i, Holders(client[s]))
                        /\ client' = [client EXCEPT ![i] = NULL]
    /\ registered' = registered - 1
    /\ sock' = [sock EXCEPT ![client[s]] = "closed"]
    /\ UNCHANGED state

(* emcuetiti_disconnectclient through the host's gsocket_disconnect: the    *)
(* first slot that holds the handle is unregistered, the socket closed and  *)
(* the handle freed; this slot's state is set whichever slot that was.      *)
Disconnect(s) ==
    /\ registered > 0
    /\ \E i \in Slots : /\ IsFirst(i, Holders(client[s]))
                        /\ client' = [client EXCEPT ![i] = NULL]
    /\ registered' = registered - 1
    /\ sock' = [sock EXCEPT ![client[s]] = "closed"]
    /\ state' = [state EXCEPT ![s] = "disconnected"]

GoOnStuck == pc' = "slot" /\ UNCHANGED cursor \* mutant: no next slot
GoOn == IF cursor = MaxClients THEN pc' = "main" /\ cursor' = 1
                               ELSE pc' = "slot" /\ cursor' = cursor + 1

PollStart ==
    /\ pc = "main"
    /\ now' = clock
    /\ pc' = IF registered > 0 THEN "slot" ELSE "main"
    /\ UNCHANGED <<tableVars, subVars, parseVars, packetVars, outgoing, sock,
                   clock, cursor>>

Served(s) == client[s] # NULL /\ state[s] \in {"new", "connected"}

SkipSlot ==
    /\ pc = "slot" /\ ~Served(cursor)
    /\ GoOn
    /\ UNCHANGED <<tableVars, subVars, parseVars, packetVars, outgoing, sock,
                   clock, now>>

(* isconnectedfunc says no.  Which hosts notice a peer that is gone, and    *)
(* when, is up to the callback: glib reports only what was closed here.     *)
NotConnected ==
    /\ pc = "slot" /\ Served(cursor)
    /\ sock[client[cursor]] = "eof"
    /\ Disconnect(cursor)
    /\ GoOn
    /\ UNCHANGED <<keepalive, lastseen, subVars, parseVars, packetVars,
                   outgoing, clock, now>>

(* Mutant: the acknowledgement waits for a later poll.                      *)
WriteOutgoingLate ==
    /\ pc = "slot" /\ Served(cursor)
    /\ pc' = "read"
    /\ UNCHANGED <<tableVars, subVars, parseVars, packetVars, outgoing, sock,
                   clock, now, cursor>>

(* libmqtt_writepkt on the queued acknowledgement, reset once finished.  To *)
(* a peer that is gone the kernel may still take a write.                   *)
WriteOutgoing ==
    LET s == cursor
        left == CASE outgoing[s] \in {"idle", "error"} -> {outgoing[s]}
                  [] OTHER -> {"idle"}
                       \cup (IF sock[client[s]] = "eof" THEN {"error"} ELSE {})
                       \cup (IF "blocked" \in Quirks THEN {outgoing[s], "partial"} ELSE {})
    IN  /\ pc = "slot" /\ Served(s)
        /\ \E o \in left : outgoing' = [outgoing EXCEPT ![s] = o]
        /\ pc' = "read"
        /\ UNCHANGED <<tableVars, subVars, parseVars, packetVars, sock, clock,
                       now, cursor>>

-----------------------------------------------------------------------------
(* libmqtt_readpkt with the client's callbacks, run until the socket has no *)
(* more bytes, the packet is finished or the reader gives up.               *)

CannotRead == sock[client[cursor]] # "open"

(* emcuetiti_client_writefunc takes a buffer with the first payload byte.   *)
TakeBuffer(s) ==
    IF payload[s] # NULL
    THEN UNCHANGED <<payload, refs>>
    ELSE \E b \in Buffers : /\ IsFirst(b, FreeBuffers)
                            /\ payload' = [payload EXCEPT ![s] = b]
                            /\ refs' = [refs EXCEPT ![b] = @ + 1]

(* The topic register is settled when the topic has been read.              *)
ResolveTopic(s) ==
    IF incoming[s] = "payload"
    THEN UNCHANGED topic
    ELSE \E t \in Topics \cup {NULL} : topic' = [topic EXCEPT ![s] = t]

NotReady ==
    /\ pc = "read"
    /\ pc' = "expire"
    /\ UNCHANGED <<tableVars, subVars, parseVars, packetVars, outgoing, sock,
                   clock, now, cursor>>

(* The bytes run out inside the packet.  A payload that has begun has a     *)
(* buffer, unless the pool was empty: then the reader waits without one.    *)
ReadBlocks ==
    LET s == cursor IN
    /\ pc = "read" /\ ~CannotRead
    /\ \E st \in {"idle", "fixed"} \cup UNION {Body[t] : t \in CanBe(incoming[s])} :
        /\ Follows(incoming[s], st)
        /\ incoming' = [incoming EXCEPT ![s] = st]
        /\ IF st = "payload"
           THEN /\ ResolveTopic(s)
                /\ TakeBuffer(s) \/ UNCHANGED <<payload, refs>>
           ELSE UNCHANGED <<topic, payload, refs>>
    /\ pc' = "expire"
    /\ UNCHANGED <<tableVars, subVars, packetVars, outgoing, sock, clock, now,
                   cursor>>

ReadFinishes ==
    LET s == cursor IN
    /\ pc = "read" /\ ~CannotRead
    /\ packet' \in CanBe(incoming[s])
    /\ incoming' = [incoming EXCEPT ![s] = "idle"]
    /\ IF packet' = "publish"
       THEN /\ ResolveTopic(s)
            /\ \/ TakeBuffer(s)
               \/ /\ "empty" \in Quirks /\ incoming[s] # "payload"
                  /\ UNCHANGED <<payload, refs>>
       ELSE UNCHANGED <<topic, payload, refs>>
    /\ IF packet' \in {"subscribe", "unsubscribe"}
       THEN filters' \in FilterLists
       ELSE filters' = <<>>
    /\ pc' = "handle"
    /\ UNCHANGED <<tableVars, subVars, outgoing, sock, clock, now, cursor>>

(* EFATAL or EREMOTEDISCONNECTED, or a fixed header the reader rejects: the *)
(* reader is in ERROR and the registers keep what they hold.                *)
ReadFails ==
    /\ pc = "read"
    /\ CannotRead \/ incoming[cursor] \in {"idle", "fixed"}
    /\ incoming' = [incoming EXCEPT ![cursor] = "idle"]
    /\ pc' = "expire"
    /\ UNCHANGED <<tableVars, subVars, topic, payload, refs, packetVars,
                   outgoing, sock, clock, now, cursor>>

(* PUBLISH_TOPICLEN drops the result of its read: with the bytes not there  *)
(* yet the call does not return, it reads again, until they are.            *)
ReadSpins ==
    /\ "split" \in Quirks
    /\ pc = "read" /\ ~CannotRead
    /\ "publish" \in CanBe(incoming[cursor]) /\ incoming[cursor] \in {"idle", "fixed"}
    /\ pc' = "spin"
    /\ UNCHANGED <<tableVars, subVars, parseVars, packetVars, outgoing, sock,
                   clock, now, cursor>>

SpinEnds ==
    /\ pc = "spin" /\ ~CannotRead
    /\ incoming' = [incoming EXCEPT ![cursor] = "topic"]
    /\ pc' = "read"
    /\ UNCHANGED <<tableVars, subVars, topic, payload, refs, packetVars,
                   outgoing, sock, clock, now, cursor>>

(* A payload that fills its buffer: each flush then moves nothing, which is *)
(* no error to the loop, and the call never returns.                        *)
ReadHangs ==
    LET s == cursor IN
    /\ "oversize" \in Quirks
    /\ pc = "read" /\ ~CannotRead
    /\ "publish" \in CanBe(incoming[s])
    /\ ResolveTopic(s) /\ TakeBuffer(s)
    /\ incoming' = [incoming EXCEPT ![s] = "payload"]
    /\ pc' = "hang"
    /\ UNCHANGED <<tableVars, subVars, packetVars, outgoing, sock, clock, now,
                   cursor>>

(* After the client id a CONNECT with bytes left goes to a PUBLISH state,   *)
(* where the type is asserted to be PUBLISH.                                *)
ReadAborts ==
    /\ "credentials" \in Quirks
    /\ pc = "read" /\ ~CannotRead
    /\ "connect" \in CanBe(incoming[cursor])
    /\ pc' = "dead"
    /\ UNCHANGED <<tableVars, subVars, parseVars, packetVars, outgoing, sock,
                   clock, now, cursor>>

-----------------------------------------------------------------------------
(* emcuetiti_handleinboundpacket, and what the poll does after it: the      *)
(* registers are zeroed and the client has been seen.                       *)

Handling(t) == pc = "handle" /\ packet = t

(* Mutant: a handled packet does not count as a sign of life.               *)
DoneUnseen(s) ==
    /\ topic' = [topic EXCEPT ![s] = NULL]
    /\ payload' = [payload EXCEPT ![s] = NULL]
    /\ UNCHANGED lastseen
    /\ pc' = "expire"

Done(s) ==
    /\ topic' = [topic EXCEPT ![s] = NULL]
    /\ payload' = [payload EXCEPT ![s] = NULL]
    /\ lastseen' = [lastseen EXCEPT ![s] = now]
    /\ pc' = "expire"

(* The host's authenticatecallback decides whether a CONNACK is written; a  *)
(* client it turns down is CONNECTED all the same.                          *)
HandleConnect ==
    LET s == cursor IN
    /\ Handling("connect")
    /\ \E k \in Keepalives : keepalive' = [keepalive EXCEPT ![s] = k]
    /\ state' = [state EXCEPT ![s] = "connected"]
    /\ Done(s)
    /\ UNCHANGED <<client, registered, subVars, incoming, refs, packetVars,
                   outgoing, sock, clock, now, cursor>>

(* Mutant: the buffer goes back only for a topic the broker knows.          *)
HandlePublishLeaky ==
    LET s == cursor IN
    /\ Handling("publish")
    /\ IF topic[s] # NULL THEN refs' = [refs EXCEPT ![payload[s]] = @ - 1]
                          ELSE UNCHANGED refs
    /\ Done(s)
    /\ UNCHANGED <<client, state, keepalive, registered, subVars, incoming,
                   packetVars, outgoing, sock, clock, now, cursor>>

(* The payload register and the handle of every receiver are dereferenced.  *)
HandlePublish ==
    LET s == cursor
        stray == topic[s] # NULL /\ \E r \in Receivers(topic[s]) : client[r] = NULL
    IN  /\ Handling("publish")
        /\ IF payload[s] = NULL \/ stray
           THEN /\ pc' = "dead"
                /\ UNCHANGED <<topic, payload, lastseen, refs>>
           ELSE /\ refs' = [refs EXCEPT ![payload[s]] = @ - 1]
                /\ Done(s)
        /\ UNCHANGED <<client, state, keepalive, registered, subVars, incoming,
                       packetVars, outgoing, sock, clock, now, cursor>>

(* One turn of the loop over the pending filters: a known topic goes into   *)
(* the first free entry while the count allows; otherwise the code is 0x80. *)
SubscribeOne ==
    LET s == cursor  t == Head(filters) IN
    /\ Handling("subscribe") /\ filters # <<>>
    /\ IF t # NULL /\ numsubs[s] < MaxSubs /\ FreeEntries(s) # {}
       THEN /\ \E j \in Entries : /\ IsFirst(j, FreeEntries(s))
                                  /\ subs' = [subs EXCEPT ![s][j] = t]
            /\ numsubs' = [numsubs EXCEPT ![s] = @ + 1]
            /\ due' = [due EXCEPT ![s][t] = @ + 1]
       ELSE UNCHANGED subVars
    /\ filters' = Tail(filters)
    /\ UNCHANGED <<tableVars, parseVars, packet, outgoing, sock, clock, now,
                   pc, cursor>>

SubscribeAck ==
    /\ Handling("subscribe") /\ filters = <<>>
    /\ Done(cursor)
    /\ UNCHANGED <<client, state, keepalive, registered, subVars, incoming,
                   refs, packetVars, outgoing, sock, clock, now, cursor>>

(* One turn of the unsubscribe loop: the first entry that equals the filter *)
(* is cleared and counted off.  An unknown filter is NULL, and so is every  *)
(* free entry.                                                              *)
UnsubscribeOne ==
    LET s == cursor  t == Head(filters)
        hits == {j \in Entries : subs[s][j] = t}
    IN  /\ Handling("unsubscribe") /\ filters # <<>>
        /\ IF hits # {}
           THEN /\ \E j \in Entries : /\ IsFirst(j, hits)
                                      /\ subs' = [subs EXCEPT ![s][j] = NULL]
                /\ numsubs' = [numsubs EXCEPT ![s] = (@ + CounterWidth - 1) % CounterWidth]
           ELSE UNCHANGED <<subs, numsubs>>
        /\ IF t # NULL /\ due[s][t] > 0
           THEN due' = [due EXCEPT ![s][t] = @ - 1]
           ELSE UNCHANGED due
        /\ filters' = Tail(filters)
        /\ UNCHANGED <<tableVars, parseVars, packet, outgoing, sock, clock, now,
                       pc, cursor>>

(* UNSUBACK and PINGRESP are queued in the one outgoing packet.             *)
QueueAck(s) == outgoing' = [outgoing EXCEPT ![s] = "queued"]

UnsubscribeAck ==
    /\ Handling("unsubscribe") /\ filters = <<>>
    /\ QueueAck(cursor) /\ Done(cursor)
    /\ UNCHANGED <<client, state, keepalive, registered, subVars, incoming,
                   refs, packetVars, sock, clock, now, cursor>>

HandlePing ==
    /\ Handling("ping")
    /\ QueueAck(cursor) /\ Done(cursor)
    /\ UNCHANGED <<client, state, keepalive, registered, subVars, incoming,
                   refs, packetVars, sock, clock, now, cursor>>

HandleOther ==
    /\ Handling("other")
    /\ Done(cursor)
    /\ UNCHANGED <<client, state, keepalive, registered, subVars, incoming,
                   refs, packetVars, outgoing, sock, clock, now, cursor>>

HandleDisconnect ==
    /\ Handling("disconnect")
    /\ Disconnect(cursor) /\ Done(cursor)
    /\ UNCHANGED <<keepalive, subVars, incoming, refs, packetVars, outgoing,
                   clock, now, cursor>>

-----------------------------------------------------------------------------
(* emcuetiti_broker_poll_checkkeepalive, run also on a slot whose client    *)
(* has just left: to disconnect that one again dereferences NULL.           *)
StillAlive ==
    /\ pc = "expire" /\ Alive(cursor)
    /\ GoOn
    /\ UNCHANGED <<tableVars, subVars, parseVars, packetVars, outgoing, sock,
                   clock, now>>

Expires ==
    /\ pc = "expire" /\ ~Alive(cursor) /\ client[cursor] # NULL
    /\ Disconnect(cursor)
    /\ GoOn
    /\ UNCHANGED <<keepalive, lastseen, subVars, parseVars, packetVars,
                   outgoing, clock, now>>

ExpiresNobody ==
    /\ pc = "expire" /\ ~Alive(cursor) /\ client[cursor] = NULL
    /\ pc' = "dead"
    /\ UNCHANGED <<tableVars, subVars, parseVars, packetVars, outgoing, sock,
                   clock, now, cursor>>

-----------------------------------------------------------------------------
Handle == \/ HandleConnect \/ HandlePublish \/ SubscribeOne \/ SubscribeAck
          \/ UnsubscribeOne \/ UnsubscribeAck \/ HandlePing \/ HandleOther
          \/ HandleDisconnect

Read == \/ NotReady \/ ReadBlocks \/ ReadFinishes \/ ReadFails
        \/ ReadSpins \/ ReadHangs \/ ReadAborts

(* The steps the thread takes of its own accord once it is polling.         *)
PollStep == \/ SkipSlot \/ NotConnected \/ WriteOutgoing \/ Read \/ Handle
            \/ StillAlive \/ Expires \/ ExpiresNobody

Next == \/ \E h \in Handles : Accept(h) \/ PeerVanishes(h)
        \/ Tick \/ PollStart \/ PollStep \/ SpinEnds

Spec == Init /\ [][Next]_vars

(* The host's 2 ms timer keeps polling, a running poll keeps going and time *)
(* passes.  No peer owes the broker anything: SpinEnds, which needs its     *)
(* bytes, and Accept have no fairness.                                      *)
FairSpec == Spec /\ WF_vars(PollStart) /\ WF_vars(PollStep) /\ WF_vars(Tick)

-----------------------------------------------------------------------------
(* Properties.                                                              *)

(* Every variable has its type; a payload buffer has at most one user.      *)
TypeOK ==
    /\ client \in [Slots -> Handles \cup {NULL}]
    /\ state \in [Slots -> {"new", "connected", "disconnected"}]
    /\ keepalive \in [Slots -> Keepalives \cup {0}]
    /\ lastseen \in [Slots -> Nat]
    /\ subs \in [Slots -> [Entries -> Topics \cup {NULL}]]
    /\ numsubs \in [Slots -> Nat]
    /\ incoming \in [Slots -> AllStages]
    /\ topic \in [Slots -> Topics \cup {NULL}]
    /\ payload \in [Slots -> Buffers \cup {NULL}]
    /\ outgoing \in [Slots -> {"idle", "queued", "partial", "error"}]
    /\ registered \in 0..MaxClients
    /\ refs \in [Buffers -> 0..1]
    /\ sock \in [Handles -> {"closed", "open", "eof"}]
    /\ clock \in Nat /\ now \in Nat
    /\ pc \in {"main", "slot", "read", "handle", "expire", "spin", "hang", "dead"}
    /\ cursor \in Slots
    /\ packet \in AllTypes
    /\ filters \in Seq(Topics \cup {NULL})
    /\ due \in [Slots -> [Topics -> Nat]]

(* registeredclients, kept by ++ and -- in register and unregister, is the  *)
(* number of slots in use: canacceptmoreclients never turns a client away   *)
(* with a slot free, and register always finds the slot it promises.        *)
RegisteredExact == registered = Cardinality(Occupied)

(* A handle is in one slot at most, and only while its socket is open on    *)
(* our side: the poll never touches a handle gsocket_disconnect has freed,  *)
(* and no connection is left without a slot.                                *)
HandlesOwned ==
    /\ \A s \in Slots : client[s] # NULL => sock[client[s]] # "closed"
    /\ \A r, s \in Slots : client[r] # NULL /\ client[r] = client[s] => r = s
    /\ \A h \in Handles : sock[h] # "closed" => Holders(h) # {}

(* A buffer in a client's payload register is in use, and by that client    *)
(* alone, however the parses of several clients interleave and whoever is   *)
(* dropped in the middle of one.                                            *)
BufferOwnership ==
    /\ \A s \in Slots : payload[s] # NULL => refs[payload[s]] = 1
    /\ \A r, s \in Slots : payload[r] # NULL /\ payload[r] = payload[s] => r = s

(* No step of the poll dereferences a client or a payload that is not       *)
(* there: publishing to a slot marked CONNECTED, expiring a slot whose      *)
(* client left in the same poll.                                            *)
NoCrash == pc # "dead"

(* When the poll is past a slot, the client there has been heard from       *)
(* within one and a half times its keepalive, by the poll's own time.       *)
PollLeavesNoExpired ==
    \A s \in Slots :
        client[s] # NULL /\ pc # "main" /\ s < cursor =>
            now < lastseen[s] + Lease(keepalive[s])

(* A client loses its slot only by asking to, because its peer is gone, or  *)
(* after a silence of one and a half times its keepalive.                   *)
EvictionJustified ==
    [][\A s \in Slots :
        client[s] # NULL /\ client'[s] # client[s] =>
            \/ pc = "handle" /\ packet = "disconnect" /\ s = cursor
            \/ sock[client[s]] = "eof"
            \/ now - lastseen[s] >= Lease(keepalive[s])]_vars

(* Who is sent a publish on t is exactly who, since it registered, was told *)
(* of more grants for t or a topic above it than it has given up again: no  *)
(* client inherits its slot's subscriptions and none loses its own.         *)
RoutesMatchGrants ==
    \A t \in Topics :
        Receivers(t) = {s \in Occupied : /\ state[s] = "connected"
                                         /\ \E u \in {t} \cup Above[t] : due[s][u] > 0}

(* numsubscriptions, which decides whether a SUBSCRIBE is granted, is the   *)
(* number of entries in use, as long as every UNSUBSCRIBE names topics that *)
(* the broker has.  (One it does not have counts a free entry off.)         *)
NumSubsExact ==
    \A s \in Occupied : numsubs[s] = Cardinality(Entries \ FreeEntries(s))

(* When a packet is handled, the acknowledgement of the one before has left *)
(* outgoingpacket: with sockets that take what is written, none is lost.    *)
AckSlotFree == pc = "handle" => outgoing[cursor] \notin {"queued", "partial"}

(* With no client lost while it publishes, every buffer in use is in the    *)
(* register of a client that is there to finish with it.                    *)
PoolNotLeaked ==
    \A b \in Buffers : refs[b] # 0 => \E s \in Occupied : payload[s] = b

(* A poll that has begun to serve the table returns to the main loop.       *)
PollReturns == pc = "slot" ~> pc = "main"

(* A client whose peer is gone gives its slot back: the lease runs out, and *)
(* the poll sees that.  (The lease must be able to run out by MaxTime.)     *)
SilentEvicted ==
    \A h \in Handles :
        (sock[h] = "eof" /\ \A k \in Keepalives \cup {0} : clock + Lease(k) <= MaxTime)
            ~> sock[h] = "closed"

-----------------------------------------------------------------------------
(* Inductive invariants: what the properties above rest on.                 *)

(* A slot is marked for service exactly while it has a client, and the poll *)
(* is never between two steps of serving a slot that has none.              *)
SlotsConsistent ==
    /\ \A s \in Slots : /\ client[s] # NULL => state[s] \in {"new", "connected"}
                        /\ state[s] = "connected" => client[s] # NULL
    /\ pc \in {"read", "handle", "spin"} => client[cursor] # NULL
    /\ pc = "main" => cursor = 1

(* The table, the sockets, the pool and the program counter agree.          *)
IInv == TypeOK /\ RegisteredExact /\ HandlesOwned /\ BufferOwnership /\ SlotsConsistent

(* What a client has been granted is what its entries hold; from this, and  *)
(* SlotsConsistent, RoutesMatchGrants follows.                              *)
DueCounts ==
    \A s \in Slots, t \in Topics :
        due[s][t] = Cardinality({j \in Entries : subs[s][j] = t})

(* NumSubsExact, for every slot, with filters that all name topics.         *)
EntriesCounted ==
    /\ filters \in Seq(Topics)
    /\ \A s \in Slots : numsubs[s] = Cardinality(Entries \ FreeEntries(s))

(* No timestamp the broker computes reaches the end of the timestamp type.  *)
NoWrap == \A k \in Keepalives \cup {0} : MaxTime + Lease(k) < TimeWidth

(* No time kept is in the future, and a client that left within this poll   *)
(* was seen by this poll, so that its slot is not expired a second time.    *)
TimeInv ==
    /\ clock <= MaxTime /\ now <= clock
    /\ \A s \in Slots : lastseen[s] <= clock
    /\ pc = "expire" /\ client[cursor] = NULL => lastseen[cursor] = now
    /\ PollLeavesNoExpired

(* While a client's packet is read and handled its outgoing packet is free. *)
AckTaken ==
    pc \in {"read", "handle", "spin"} => outgoing[cursor] \notin {"queued", "partial"}

(* A publish is handled with its payload buffer at hand.                    *)
PublishHasBuffer == pc = "handle" /\ packet = "publish" => payload[cursor] # NULL

(* A payload in a register is that of the PUBLISH the client's reader is in *)
(* or has just finished; a reader left by a peer that is gone reads nothing *)
(* any more.                                                                *)
ParseInv ==
    /\ pc = "spin" => incoming[cursor] \in {"idle", "fixed"}
    /\ pc = "handle" /\ payload[cursor] # NULL => packet = "publish"
    /\ \A s \in Slots :
          payload[s] # NULL /\ client[s] # NULL /\ sock[client[s]] = "open" =>
              incoming[s] = "payload" \/ (pc = "handle" /\ s = cursor)

(* No client loses its slot with a payload in its register.                 *)
PublishersStay ==
    \A s \in Slots : payload[s] # NULL /\ client[s] # NULL => client'[s] = client[s]

-----------------------------------------------------------------------------
(* What the repository says and the code does not do.                       *)

(* client.h:26, CLIENTSTATE_NEW: "client has just connected to us", so what *)
(* the packet reader holds of a packet is from this client and not from the *)
(* one that had the slot before.                                            *)
NewIsFresh ==
    [][\A s \in Slots : client[s] = NULL /\ client'[s] # NULL => incoming'[s] = "idle"]_vars

(* README.md:20-21: when a publish comes in it is handed off.  It can be    *)
(* only if a buffer is free or somebody is going to free one.               *)
PublishPossible ==
    FreeBuffers # {} \/ \E s \in Occupied : payload[s] # NULL

=============================================================================
