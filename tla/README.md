# emcuetiti in TLA+

A TLA+ model of emcuetiti, an embeddable MQTT broker in C: its client table and
poll loop, its packet reader and writers, its topic tree, its ports and its
remote port, and what of the buffers and the linux_glib host those use. TLC
checks it on small instances; TLAPS proves, for every size of them, the
invariants of the client table, of the packet reader, of the topic tree and the
names resolved in it, of the way a publish takes out of the broker and onto the
wire, and of the remote port, and that the table implements an abstract
specification of delivery. Paths below are relative to the repository (`src/` as it is mapped in `PROJECT.json`).

    tlc -workers 2 -config Lifecycle.cfg MCClients   # model-check one run
    tlapm ClientsProofs.tla                          # check proofs; also DeliveryProofs,
                                                     # RefinementProofs, PacketReadProofs,
                                                     # OutboundProofs, StreamProofs,
                                                     # RemotePortProofs, TopicsProofs

## The system

A single thread runs everything. The linux_glib host has a glib main loop with
two sources: the listening socket (`serversocket_callback`, which accepts a
connection and registers a client) and a 2 ms timer (`brokerpoll`, which calls
`emcuetiti_broker_poll`: first the ports' poll functions, then one pass over
the client slots). Nothing preempts a callback; peers, the network and the
clock move while one runs.

| component | state | operations | where |
|---|---|---|---|
| client table and poll loop | `clients[]` (handle, state, keepalive, lastseen, subscriptions, registers, incoming and outgoing packet), `registeredclients` | register, unregister, poll one slot: is it connected, write, read, handle, expire; the handler of each packet type | `emcuetiti_client.c` |
| broker core | `inflightpayloads[]`, the root topic, the ports | init, publish to the clients, find a free payload buffer, poll | `emcuetiti_broker.c` |
| packet reader | `libmqtt_packetread` | one call reads until blocked, finished or failed; used by each client slot and by the remote port | `libmqtt_readpkt.c` |
| packet writer | `libmqtt_packetwrite` | queue PINGREQ, PINGRESP or UNSUBACK; write on, reset | `libmqtt_writepkt.c` |
| direct constructors | none | CONNECT, CONNACK, SUBSCRIBE, SUBACK, PUBLISH written straight to a socket | `libmqtt.c` |
| byte buffers | head, tail, size, use count; a reference has a tail of its own | append, fill, flush, reset, ref, unref | `buffers.c` |
| topic tree | linked nodes | find, add, munch (resolve part by part), matching | `emcuetiti_topic.c` |
| ports and router port | registered callbacks | publish ready: route to clients | `emcuetiti_port*.c` |
| remote port | a state machine, one buffered publish | connect, subscribe, read, publish on, keep alive, time out | `emcuetiti_port_remote.c` |
| sys port | none | publishes when a client connects | `emcuetiti_port_sys.c` |
| linux_glib host | sockets, the listening socket | accept, isconnected, readytoread, read, write, disconnect, timestamp | `ports/linux_glib/` |

**Interactions.** The poll calls the host's socket callbacks. The reader calls
back into the client for each state change and for each chunk of a topic or
payload, and that callback resolves topics, appends filters and takes a buffer
from the pool. A finished PUBLISH goes to the broker, which offers it to the
ports; the router port sends it back through `emcuetiti_broker_publish` to
every subscribed slot. Disconnecting goes to the host, which comes back with
`emcuetiti_client_unregister` and only then frees the handle.

**What is hard.** A slot is reused with what its last client left in it. Parses
of several clients interleave across polls and share a pool of two buffers, and
a client can be lost at any point of one. A client's state and its handle are
cleared by different functions, in different orders on different paths, and
both are read by the publish fan-out. A packet and the lease race within one
poll. Counters (`registeredclients`, `numsubscriptions`, `pos`) are kept by
increments in one place and decrements in another. Packets arrive in pieces of
any size and go through two buffers, either of which may be full or missing.
Names are resolved out of a text buffer that is emptied at some ends of a
string and not at others. A publish passes several ports and receivers that all
read one buffer, and goes out between the bytes of acknowledgements. Everything
happens in one call on one thread, so a loop that does not move
stops the broker. `PROJECT.json` lists these hazards at their lines, each with
the properties that are about it.

**What makes the components correct.** Table: the counter, the slots, the
sockets and the states agree; no handle or buffer is used once given back; a
client is dropped for a reason and expired when its lease is over. Broker: a
publish reaches those, and only those, who were granted it; no buffer has two
users and none is lost. Reader: packets end where they ended at the sender,
payloads are whole, and complete packets get handled. Writer and constructors:
bytes towards a client form whole packets, in order. Topics: a filter matches
what it says. Remote port: it recovers or reports, and hands each publish on once.

## The modules

### Clients

`Clients.tla` models `emcuetiti_client.c` with the pool of
`emcuetiti_broker.c` and the host's accept and disconnect. The arrays of the
code are functions over `Slots` and `Buffers`; `NULL` is a model value. The
thread's place is `pc` and `cursor`:

    main --PollStart--> slot --WriteOutgoing--> read --ReadFinishes--> handle --> expire --> next slot or main
                         \--SkipSlot, NotConnected--> next slot    \--ReadBlocks, ReadFails, NotReady--> expire

| code | action |
|---|---|
| `serversocket_callback`, `emcuetiti_client_register` | `Accept` |
| `emcuetiti_disconnectclient`, `gsocket_disconnect`, `emcuetiti_client_unregister` | `Disconnect`, part of `NotConnected`, `HandleDisconnect`, `Expires` |
| `emcuetiti_broker_poll`, `emcuetiti_client_poll` | `PollStart`, `SkipSlot`, `GoOn` |
| `libmqtt_writepkt` on the queued acknowledgement | `WriteOutgoing` |
| `libmqtt_readpkt` with the client's state-change and write callbacks | `NotReady`, `ReadBlocks`, `ReadFinishes`, `ReadFails`, `ReadSpins`, `SpinEnds`, `ReadHangs`, `ReadAborts` |
| `emcuetiti_handleinboundpacket` and its handlers | `HandleConnect`, `HandlePublish`, `SubscribeOne`, `SubscribeAck`, `UnsubscribeOne`, `UnsubscribeAck`, `HandlePing`, `HandleOther`, `HandleDisconnect` |
| `emcuetiti_broker_poll_checkkeepalive` | `StillAlive`, `Expires`, `ExpiresNobody` |

Points a reader of the code should know:

- The poll is split where the code calls out, so the clock and the peers can
  move between any two steps; accepting cannot, it needs the main loop.
- `register` keeps the slot's packet reader and its keepalive, and so does
  `Accept`. `unregister` clears only the handle; `Disconnect` sets the
  state of the slot that asked, and the model clears the slot that was *found*.
- What a read brings is chosen by packet type (`PacketTypes`) and by how far the
  reader got (`incoming`, the region of the reader's states); topics and filters
  come resolved, `NULL` when the tree does not have them.
- `Quirks` names what peers and the network may do besides: vanish, stop taking
  bytes, split a PUBLISH inside its topic length, send an empty or oversize
  payload, send credentials. The last four lead the code into a busy loop,
  a dereference of NULL or a failed assertion; `pc` is then `spin`,
  `hang` or `dead`.
- `lastseen + Lease` is computed in the timestamp's width (`TimeWidth`), and
  `numsubscriptions` in its own (`CounterWidth`).
- `due` is history: what the client has been granted and told so.
- `NotConnected` may find a vanished peer at any poll. Whether a host notices is
  up to its `isconnectedfunc`; glib's reports only what was closed on this side,
  so nothing in the liveness argument relies on it.

### PacketRead

`PacketRead.tla` models `libmqtt_readpkt` byte by byte: one action is one turn
of its loop, with `pos`, `counter` (a byte), `length`, `strlen` (16 bits) and
the state as in the code. The states that read one fixed-size field or one
string share an action each (`ReadU8`, `ReadU16`, `ReadString`), with
the successor from a table, and `Reached` is `changestate`'s rule that a packet without
bytes left is finished. `Payload` is the fill from the socket into the packet's
own buffer and the flush into the payload buffer. The environment sends the
bytes one by one, may close, and takes and returns the pool's buffer. `Call`
and `Return` are what the client poll does around the reader: it calls when the
socket is readable and, when a packet is finished, handles it.

What a peer sends is a stream of whole packets, and the module says what that is
(`PacketForm`): beside its bytes a stream has the place where each packet starts
and ends, and for each byte the field it belongs to (`fields`), named as the state
that should read it. The fields follow MQTT's grammar (`FieldAfter`, `FieldEnds`),
not the reader's tables; that the two agree is what `ReadInv` is about.
`StreamsAssumption` has one clause that MQTT does not: a string is shorter than
the reader's counter is wide (256), and only a client id may be empty. The reader
compares an 8-bit counter with a 16-bit length, so a longer string does
not end where it should.

The two modules meet at `incoming`, `payload` and the outcomes of a read:
`ReadBlocks`, `ReadFinishes`, `ReadFails`, `ReadSpins`, `ReadHangs` and
`ReadAborts` are the ways a call of PacketRead can end or not end, and each is
reached in PacketRead's runs.

### Topics

`Topics.tla` models `emcuetiti_topic.c` and the two that resolve names in the
tree, the client slot and the remote port. The tree is a sequence of nodes with
the code's three pointers as indices, 0 for NULL; `AddPart` is one turn of the
host's loop over the topics it is given. Afterwards names arrive a byte at a
time.

| code | definition |
|---|---|
| `emcuetiti_findtopic`, `emcuetiti_topic_attach`, `emcuetiti_broker_addtopicpart` | `Find`, `Attach`, `AddTopicPart`, and `AddPart` for the host's loop |
| `emcuetiti_topic_len`, `emcuetiti_topic_topichandlewriter` | `TopicLen`, `Written` |
| `emcuetiti_topic_munchtopicpart` with `processtopicpart` | `Munch` in `ReadByte` |
| `statechange` of a client slot, the reset after a packet | `EndClientId`, `EndString`, `Handled` |
| registering another client in the slot | `Lost` |
| the remote port's `statechange` | `RemoteSends`, `RemoteEnd`, `RemoteHandsOn` |

Memory matters here: the buffer is what was written into it, `head` is how far,
and a comparison sees the bytes up to the first NUL (`CString`), whoever put it
there. `Emptied` moves `head` and clears nothing, as in the code. A part is a
sequence of letters; two of them in the runs, so that one part can be the
beginning of another.

### Outbound

`Outbound.tla` models what the broker writes. Each client slot and the remote
port is an *outlet* with a socket, whose history is `stream`, and a queued
packet, `pkt`. `meant` is the packets begun on that stream as MQTT has them, built
by another definition (`Packet`) than the field-by-field writes of the code.

    idle --Poll--> write --WriteTurn*, WriteEnds--> handle --a handler--> idle
    handle --HandlePublish--> router --> fanout --> remote --> fanout --> handed on --PublishEnds--> idle
    handle --HandleConnect--> fanout (sys port) --> idle

| code | definition |
|---|---|
| `libmqtt_writepkt`, its u8, u16 and state change | `WriteTurn`, `WriteEnds`, `After`, `ChangeState`, `Byte` |
| `libmqtt_writepkt_simple`, `_justmsgid` | `Queue` |
| `libmqtt_encodelength`, `libmqtt_construct_*` | `EncodeLength`, `ConnectBytes`, `ConnackBytes`, `SubscribeBytes`, `SubackBytes`, `PublishBytes` and `Copy` |
| `emcuetiti_port_onpublishready`, the router's and the remote port's callback | `HandlePublish`, `RouterBegins`, `RemoteBegins`, `Onwards`, `PortEnds`, `PublishEnds` |
| `emcuetiti_broker_publish` | `BeginCopy`, `CopyEnds`; who is selected is `Receivers` of Clients |
| `buffers_buffer_createreference`, `_ref`, `_unref`, `_readfunc`, `_resetfunc` | `References`, `Unref`, `ReadFunc`, `CopyEnds` |
| `emcuetiti_port_sys_onclientconnected` | `SysPublishes` |

A socket takes a byte of a queued packet or answers with one of `Refusals`. A
direct write it may take or refuse in part, which the code does not look at;
from the first refusal on (`full`) nothing is claimed of that stream. Its
bytes are then left out, so that the number of states stays finite. `over` marks
an acknowledgement that was queued over one that had gone out in part.

### Delivery and Deliveries

`Delivery.tla` is what a publish/subscribe broker promises, whatever its tables:
clients join, open, collect and return grants for topics and leave with none; a
publish goes to exactly the open clients with a grant for its topic or for one
above it. `Deliveries.tla` is Clients with the publish that has just been
written in view (`sent`), and the refinement mapping: the clients here are the
handles in the slots, the open ones those in CONNECTED slots, the grants those
of the slot a handle is in. `DeliversAsPromised` is that Clients implements
Delivery: the slots, the entries with holes in them, the counter, the cursor of
the poll and everything a packet goes through are stutters or single steps.

### RemotePort

`RemotePort.tla` models `emcuetiti_port_remote.c`, the broker as a client of
another one. Each poll of the broker runs the port's poll once and that takes
one step of its state machine, so each action under `Poll` is one call:

    notconnected --> connecting --> subscribing --> ready: read -> write -> keepalive -> read ...
         \--------------\---------------\--------------\--> error (never left)

| code | action |
|---|---|
| `state_notconnected`, `remote_connect` | `NotConnected` |
| `state_connecting` | `SendConnect`, `AwaitConnack` |
| `state_subscribing` | `SendSubscribe`, `AwaitSuback`, `SkipSubscribe` |
| `state_ready` | `ReadyRead`; `ReadyHandOn` or `ReadyWrite`; `ReadyKeepalive` |
| `state_error` | `Error` |
| `movetostate`, `errorontimeout`, `timeoutexpired` | `MoveTo`, `AwaitOr`, `TimedOut` |
| `readpacket`, its state-change and write callbacks | `ReadWhole`, `ReadPart`, `NothingRead`, `ReadFails` |

A packet of the remote is one element of `wire`, and a read takes it whole or
in parts (PacketRead has the bytes); `taken` says how far the reader is. A
timestamp is a number of `TimeWidth` values and wraps. `held` counts the buffers
the port has taken from the pool, apart from `publish`, which is the one it
knows of. `told`, `sent`, `early`, `delivered` and `quiet` are history; `quiet`
counts true seconds, which is what the timestamps are measured against. A SUBACK
has a message id: besides the answer to the port's one SUBSCRIBE (`IsAnswer`) the remote
may send, until it answers that, any number of SUBACKs for another message
(`StrayAck`), which `AwaitSuback` drops like every other packet. Later ones would
be read in READY, where every packet counts the same, and are left out.

What the code does and no property hides: a publish that is early (before the
SUBACK), empty or on an unknown topic is handed on through a NULL pointer
(`dead`); with two local receivers the second finds the payload consumed and
`libmqtt_construct_publish` does not return (`hang`), because the port's publish
has no reset function; a port with no topics enters READY with timestamps of
zero and may time out at once; a port in ERROR keeps a buffer it had; a remote
that keeps sending without its SUBACK holds the port in SUBSCRIBING.

### Instances

`MCClients.tla`, `MCDeliveries.tla`, `MCPacketRead.tla`, `MCTopics.tla` and
`MCOutbound.tla` hold the instances: topic trees, filter lists, streams of whole
MQTT packets with their fields; RemotePort needs numbers only, which its `.cfg` gives.
`MCOutbound` also checks, as an assumption, that lengths up to three bytes are
read as they are written. Operators marked as mutants are plausible mistakes in the code, kept
beside the definitions they change; each property of a passing run has one that
breaks it.

## The runs

| run | question | instance and bounds |
|---|---|---|
| Lifecycle | Do the table, sockets and pool stay consistent while clients come, publish, leave, vanish and fall silent? Is a client expired when its lease is over and not before? | 2 slots, 2 handles, 1 buffer, time 0..2, leases 1 and 3 (a keepalive kept from the slot's last client, too) |
| Subscriptions | Does a publish reach exactly those granted it, through slot reuse, as Delivery promises, with exact counts, no leaked buffer, no overwritten acknowledgement and no write to a slot whose client has left? | 2 slots of 2 entries, 2 topics one above the other, lists of one and two filters, no clock |
| Rough | Does the inductive invariant hold with everything in `Quirks` and a timestamp that wraps? | 1 slot, all packet types, time modulo 3 |
| Liveness | Does every poll return, and does a silent client give its slot back? | 2 slots, 2 peers that vanish inside or between publishes |
| Framing | Does every packet end where it was sent to end, with its payload, and is the reader in the right state at every byte? | 8 streams of two or three packets covering all the reader's states, any split, busy pool, closing peers; packet buffer 3 bytes, payload buffer 6 |
| Progress | Are complete, well-formed packets all handled? | 6 of the streams, buffer at hand |
| Remote | Is what the port hands on whole and in order, does it own at most the buffer it uses, is it READY only on the answer to its own SUBSCRIBE, and does it give up only, and in READY in time, when the remote has been silent too long? Does it settle once connected? | with and without topics and keepalive, 2 publishes, any number of stray SUBACKs, 2 packets under way, 1 buffer shared with other users, time modulo 6 from 4; timeouts of 1 and 2 for the 10 and 30 seconds of the code |
| Topics | Is every node in reach by its own path and no other, and does a name resolve to its topic, whatever is left in the text buffer? | 3 trees of up to 6 nodes on two levels (one built child first, with a topic given twice), 6 names, two filters to a packet, a client lost at any byte, buffer of 4 bytes |
| Outbound | Are the packets on a stream whole and in order, does an acknowledgement that goes out in pieces go out once, does a publish reach each receiver whole, and is its buffer free again? | 2 slots and a remote, 3 packets that are answered or passed on, payloads of 0, 2 and 3 bytes in chunks of 2, sockets that block and that fail |

Three further runs end in a violation; see *Findings*.

**Why the bounds are enough.** The poll treats slots independently except for
the shared counter, the pool and the fan-out, and each of those needs two slots
to go wrong between clients; slot reuse needs one handle more than a slot or a
second life of one handle, and both occur. One buffer is the pool at its limit
(the code has two, so two publishers there are like one here). Two entries and
lists of two filters make the entry array fill up, be refused and
have holes. In Topics two letters and parts of one and two
make one name the beginning of another; one part follows a longer one and a
shorter one; two filters are the least that can run together. In Outbound two
receivers are the least of which the second can find the payload read; payloads
of none, of one chunk and of one and a half reach every way through the copy;
three answered packets are an acknowledgement in the queue, a publish over it,
and one more after either. In PacketRead the payloads (up to 5 bytes, 7 for the oversize one)
are shorter than, equal to and longer than a packet buffer of 3 bytes, and 5 < 6 < 7 puts
the payload buffer on either side. The proofs below remove the bounds on the table for
the properties they cover. MaxTime stops the clock, never the poll. In Remote the clock runs on for ever and wraps; two publishes are enough for one to be
mistaken for another, and with two packets under way an answer can be behind a
publish or before it. The stray SUBACKs have no bound of their own, only the wire has: what
a remote that goes on sending for ever can do is in the model, and not cut off by
the number of publishes. `RemoteAssumption` keeps every timeout shorter than the
width of the clock, as the code's 32 bits do, and `Tick` waits for a poll: the
timer polls every 2 ms.

**Fairness.** `Clients!FairSpec`: `WF(PollStart)`, because the host's 2 ms timer
keeps calling `brokerpoll`; `WF(PollStep)`, because a callback runs on
by itself; `WF(Tick)`, because time passes. Peers and connections owe nothing,
so `Accept`, `PeerVanishes` and `SpinEnds` (which needs the peer's bytes) have
none. `SilentEvicted` speaks only of peers that vanish early enough for the
lease to run out by MaxTime. `PacketRead!FairSpec`: `WF(Call)` and
`WF(Turn)`, the poll and the loop; `WF(OthersFree)`, other
clients finish with their buffers. `AllHandled` starts when all bytes have
arrived, so nothing is assumed of the peer. `RemotePort!FairSpec`: `WF(Poll)`
and `WF(Tick)`, the timer and time; nothing of the remote. `Settles` names the one
thing that the remote can do for ever to keep the port from settling: to have a packet
dropped by a poll in SUBSCRIBING again and again (`[]<><<Drops>>_vars`). Without
that clause it is false: the remote that sends stray SUBACKs for ever is the
counterexample.
`Outbound!FairSpec`: `WF(FanOut)`, a call that has begun runs on by itself; every
step of the fan-out is inside one handler. `PollReturns` and `SilentEvicted` run without
the quirks that make a reader's call endless; with those they are false, which
is what *Findings* says of oversize payloads.

**Deadlock** is not checked in Framing and Progress (a peer
that has sent everything leaves nothing to do) and in Rough (a failed assertion
is an end) and Remote (`dead` and `hang` are). Everywhere else it is.

## The proofs

Eight modules, each about any number of slots, entries, buffers, handles, topics,
payloads, streams, topics, names, timeouts, and any setting of `Quirks` and `Refusals`, from the
named assumptions of the modules they are about (`SizesAssumption` and
`InputsAssumption` of Clients, `OutboundAssumption`, `RoomAssumption` and
`StreamsAssumption` of PacketRead, `RemoteAssumption`, and `LettersAssumption`,
`InputsAssumption` and `RoomAssumption` of Topics). Most of those say that
sizes are positive naturals and NULL is none of the rest. The others:

- a timeout of the remote port fits into its clock (`RemoteAssumption`);
- the announced length of a publish fits into the four bytes MQTT has for it
  (`OutboundAssumption`); construct_publish does not look;
- peers send whole packets with strings that can be counted
  (`StreamsAssumption`, see *PacketRead*);
- parts of names are not empty, have neither `/` nor `#` nor a NUL in them, and
  are shorter than the text buffer (Topics). Nothing is assumed of which topics
  there are, in what order they were given, or which names are asked for.

`ClientsProofs.tla`:

- **Consistency**: `Spec => []IInv`. `IInv` joins `TypeOK`, `RegisteredExact`,
  `HandlesOwned`, `BufferOwnership` and `SlotsConsistent`. None of the middle
  three is inductive alone. That unregistering frees the slot that asked, and so
  counts exactly one off, needs that no two slots share a handle; that a
  connection can be accepted with a fresh handle needs that every handle in a
  slot has an open socket; that the poll does all this only to a slot with a
  client needs `SlotsConsistent`, which ties `state`, `client` and `pc`. That
  use counts stay in 0..1 (part of `TypeOK`) needs `BufferOwnership`: only the
  one holder of a buffer gives it back. The proof goes through what a step can
  do to the table (`TableSteps`) and to the pool (`PoolSteps`).
- **TypeCorrect, RegisteredCorrect, HandlesCorrect, BuffersCorrect** follow.
- **TimesKept, KeepaliveEnforced, EvictionsJustified**: with `NoWrap` (no timestamp
  computed reaches the end of its type), through `TimeInv`: no time kept lies in the
  future, and the slots behind the cursor have a lease that has not run out.
- **PoolLostOnlyWithPublisher**: as long as no slot with a client inside a PUBLISH is
  cleared (`PublishersStay`, an action formula), no payload buffer is lost:
  every buffer in use is in the registers of a slot that is in a PUBLISH, or in the
  hands of the handler. So the leak of *Findings* has this one cause; peers that vanish and leases
  that run out are both ways to it, and nothing in the code closes either.
- **AcksNeverLost**: when sockets take what is written (no `"blocked"` in
  `Quirks`), through `AckTaken`: past the write of a turn there is nothing
  left in the slot's outgoing packet, which is where the handlers queue theirs.
- **NeverCrashes**: with `NoWrap` and without empty payloads and
  credentials, no step dereferences a client or payload that is
  not there. It needs `TimeInv`'s clause that a client that left within this
  poll was seen by this poll: the keepalive test runs on its slot
  afterwards, and only that keeps it from disconnecting NULL.

The assumptions of NeverCrashes are needed: Rough, which has no claim of
`NoCrash`, contains the steps to `dead` that they exclude.

`DeliveryProofs.tla`:

- **RoutesCorrect**: `Spec => []RoutesMatchGrants`, through `DueCounts`: what a
  client is due for a topic is the number of its entries for it. Writing a free
  entry adds one to the count of one topic, clearing one takes one off; the
  lemmas say so for any number of entries, with holes anywhere.
- **SubscriptionsCounted**: `numsubscriptions` is the number of entries in use,
  through `EntriesCounted`. It assumes `FilterLists \subseteq Seq(Topics)`,
  filters of known topics only: with an unknown one it is false (see
  *Findings*).

`RefinementProofs.tla`:

- **Delivers**: `DeliverySpec => DeliversAsPromised`, one lemma for each step of Delivery.
  The mapping names a client's slot by a CHOOSE, which `HandlesOwned` makes
  unique; with `DueCounts` what the table selects is what the grants say.

`OutboundProofs.tla`, from `IInv == TypeOK /\ PoolInv /\ CopyInv`:

- **TypeCorrect**, **ReferencesReturned**, **PayloadLeft**: `TypeOK`,
  `RefsBalanced` and `NeverShort` of Outbound. `PoolInv` says, for each place the
  thread can be at, how often the payload buffer is used and that no copy is
  under way outside the fan-out; `CopyInv` says that what is left to write and what is
  read add up to the length announced, that the reader is back at the start
  between two receivers, and that the port without a reset has one receiver.
  RefsBalanced alone is not inductive: that giving a reference back leaves one
  use needs the counts at every place before it.

`StreamProofs.tla`, from the same invariant and two more:

- **AcksGoOutOnce**: `Spec => []AckResumes`. `AckInv` says of every queued packet that what
  was written of it is the first `pos` bytes of that acknowledgement, in each
  state of the writer: the bytes of a state and its counter give `pos` (`Placed`).
  One lemma per shape of packet, with and without a message id.
- **PacketsStayWhole**: `Spec => []StreamWhole`. `StreamInv` says that a socket that has
  taken everything lacks of `meant` exactly what is still to come (`Rest`): the rest
  of an acknowledgement while its outlet's turn lasts, the rest of a payload inside
  the copy loop, and nothing otherwise. For the first it needs AckInv, for the second
  CopyInv, and that the field-by-field writes (`ConnectBytes` and so on) add up
  to the packet as MQTT has it (`Packet`).

`PacketReadProofs.tla`, from `IInv == Typed /\ ReadInv`:

- **ReaderInPlace**: `Spec => []ReadInv`. For each group of states `ReadInv` says where
  in the stream the reader is: between packets (`Between`), in a length with so
  many digits read (`InLength`), in the field that `st` is named for, with as many of
  its bytes read as `counter` says and the string length that the bytes before it
  make (`AtField`), in a payload with what was passed on, what is held and what
  is in the sink adding up (`InBody`), or at the end (`AtEnd`). Framing alone
  is not inductive: that a packet ends where it should depends on `length` being
  right, that on `mult` and `pos`, and the fields on each other.
  The lemmas go along the reader: its tables ask for the fields in MQTT's order
  (`OneByteAgrees`, `TwoBytesAgree`, `StringAgrees`, `LengthAgrees`), the
  next byte's field is the state's (`NextByte`), and then one lemma for what a
  turn of each kind does to the place and one that the step keeps `IInv`.
  After the peer's close with nothing left to read (`Cut`) nothing is claimed of
  the packet under way, which is given up.
- **TypeCorrect, PacketsEndWhereSent, PayloadsWhole**: `TypeOK`, `Framing`
  and `PayloadWhole` follow.

`RemotePortProofs.tla`:

- **TypeCorrect**, **BufferGivenBack** (`PortBuffer`): outside ERROR the port holds a
  buffer only from the first byte of a publish until it is handed on (a port that
  gives up keeps it). With
  `RegisterInv`: a publish that is only partly in the register is the one at the
  head of the wire.
- **GivesUpJustly** (`ErrorJustified`), **SilenceIsBounded** (`SilenceBounded`): the port
  measures silence with timestamps that wrap. `SilenceInv` says that the time it
  measures since its last timestamp is never more than the true silence
  (as far as `quiet` counts that), and in READY never less, and within the timeout
  and the few ticks that a round of READY may be late; with `RemoteAssumption` the
  difference is then right though either side has wrapped.
- **PublishesInOrder** (`DeliveredInOrder`), from `OrderInv`: on the wire is each publish
  that was sent and not read, once and in order (`WireInv`); the one in the register
  is the next to be handed on (`WaitingInv`); before READY nothing but the
  answers asked for has come, or stray SUBACKs, which are dropped (`HandshakeInv`).
- **OwnAnswerOnly** (`Subscribed`): a port with topics is READY only if the remote has
  answered its SUBSCRIBE, since the answer is on the wire only then (`AnswerInv`).

`TopicsProofs.tla`, from `TopicsInv`:

- **ResolverInPlace**: `Spec => []TopicsInv`. Its parts: `Shape`, the pointers are
  those of a tree (a parent is an earlier node, a child or a sibling a later one
  that points back to the same parent, every node hangs on one, and siblings have
  different parts); `Building`, the paths of the nodes are those of the topics
  that the host's loop has added and the way to the one it is at; `ReadTypes` and
  `Asking`; `Resolving`, a reader inside a name has the beginning of the part it is
  at in its buffer and the node of the parts before in its register (`Midway`);
  `LeftOver`, what the remote port's buffer still holds is not longer than the parts
  that came through it. None of the properties is inductive: that a name resolves
  to its topic at its end depends on where each of its parts has led, and that
  on the tree.
- The recursions (`Siblings`, `PathOf`, `Descend`, `BytesAfter`, `Written`,
  `TopicLen`) go along pointers or positions. `Ranked` says of such a walk that it
  ends; `Following` then gives the function that the recursion defines, and `Carried`
  an induction along it. Both are about a set or a function where the library's
  theorems have an operator, so the provers can use them. On them rest `PathTo`,
  `Below` (the siblings from the first are all the nodes of a level), `FindIs`,
  `DescendToNode` (going down by a node's path ends at the node, so no two have one
  path), `DescendEnds`, `AddedNode` and `ShapeKept` (what attaching a node does), and
  for the bytes `MidwayKept` and `MidwayEnd`.
- **TypeCorrect** (the text buffer is never filled past its end), **TreeStaysSound**
  (`TreeSound`), **KnownNamesResolve** (`KnownTopicResolves`), **NothingIsInvented**
  (`NothingInvented`), **RemoteNamesResolve** (`RemoteResolves`) follow.
- **NamesGoRound** (`NameRoundTrip`): what is written for a node is what is written for
  its parent, a slash and its part (`WrittenIs`), as long as announced
  (`WrittenLength`); a reader of it that has come to the end of the parent's name
  gets from there to the node's (`ReadOn`).

**Only model-checked.** The liveness properties (`PollReturns`, `SilentEvicted`,
`AllHandled`, `Settles`, `FanOutReturns`): fairness and ENABLED are beyond the
prover. Every invariant that a passing run checks is also a theorem.
TLC evaluates `StreamsAssumption`
on the streams of Framing, so streams of all the packet types satisfy it.

## Findings

Each is a run that TLC ends with the counterexample.

- **LostPublisher** (`emcuetiti_client.c:298`): a client lost inside a PUBLISH
  never returns its payload buffer. After as many losses as buffers no publish
  is handed off any more.
- **StaleReader** (`emcuetiti_client.c:291`): a client given the slot of one that
  expired inside a packet has its CONNECT read as the rest of that packet.
- **SecondFilter** (`emcuetiti_client.c:427`): the text of one filter is still in the
  buffer when the next one is read, so of a SUBSCRIBE to two topics the broker
  has the second is refused, or resolves to the first again.

Met while modelling, and stated by the preconditions of properties above:

- UNSUBSCRIBE of an unknown topic (`emcuetiti_client.c:222`) matches a free entry,
  since both are NULL; the count wraps below zero and every later SUBSCRIBE is
  refused. NumSubsExact is about known topics for that reason.
- A payload longer than its buffer (`libmqtt_readpkt.c:224`) keeps the loop going
  for ever; the tests publish up to 64 KiB, the buffer has 1 KiB. Progress leaves that
  stream out.
- A payload already read while the pool was empty (`emcuetiti_client.c:468`) is not
  passed on when a buffer is free again, unless the peer sends more. Progress
  has a buffer at hand.
- The port looks at the time in SUBSCRIBING only when a poll has not read a whole packet
  (`emcuetiti_port_remote.c:264`): a remote that goes on publishing, or sends SUBACKs for
  another message, and never the right one, keeps it there for ever. Settles
  excepts it.
- A topic of the remote whose last part is shorter than an earlier part is
  not found, because the buffer is searched without a NUL
  (`emcuetiti_port_remote.c:151`); RemoteResolves says when it is.
- An acknowledgement queued over one that went out in part goes out from the
  middle (`libmqtt_writepkt.c:29`); AckResumes excludes it.
- A path with an unknown part may resolve to a topic it ends with
  (`emcuetiti_client.c:345`); NothingInvented allows that and no more.
- A string of 256 bytes or more is counted in 8 bits and its length kept in 16
  (`libmqtt_readpkt.c:104`), so the reader does not end it where it ends;
  `StreamsAssumption` keeps strings shorter, and the proofs about PacketRead need it.
- CONNECT announces the high byte of the keepalive twice (`libmqtt.c:119`);
  `ConnectHead` writes it so.

## Not modelled

- In Topics, a lease that ends inside a name: `Lost` is for a client whose packet its
  reader gives up. After such an expiry the reader is still in the old name, and the
  next client's bytes go on with it; StaleReader has that, not Topics.
- Names with empty parts in the host's setup, client ids with a NUL in them, and
  topics longer than the text buffer; `RoomAssumption` keeps parts inside it.
- Streams after a refusal: which bytes of a direct write a full socket took. The
  code does not look, so anything may follow; StreamWhole claims nothing there.
- PUBACK, PUBREC, PUBREL, PUBCOMP and DISCONNECT towards clients and the remote:
  nobody calls what would queue them. CONNECT with a will or credentials, PUBLISH above
  QoS 0, `libmqtt_construct_unsubscribe`, `libmqtt_extractmqttstring` and
  `emcuetiti_readtopicstringandfindtopic`: no caller either.
- What the host's authenticatecallback answers: CONNECTED is set all the same, so
  the answer leaves no trace in the state.
- The result codes in the remote's answers, which the code does not read.
  RemotePort has the clients' buffers as `others`; Clients
  has none of the port's, so its pool properties are those of a broker with the
  router port alone.
- Memory beyond arrays: `pendingtopics` takes more filters than it has room for,
  and payload buffers count their header as room. Inputs stay within.
- Setup of the listening socket, the command line, logging, state dumps, and the
  helper in `sparsepointerarray.c` that nothing calls.

## Plan

Built: all modules, the proofs about all of them, and the refinement of Delivery. Left:

1. The remote port's publishes as a second source of Delivery's `Publish`, once
   Clients' pool counts the port's buffer.
2. What becomes of the filters after the first of a SUBSCRIBE, as a theorem:
   SecondFilter shows that they may not resolve, and what they resolve to
   instead could be said as exactly as `RemoteResolves` says it of the port.

Liveness stays with TLC.
