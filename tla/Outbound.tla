------------------------------ MODULE Outbound ------------------------------
(***************************************************************************)
(* What the broker writes: the bytes towards each client and towards the    *)
(* remote broker.  They come from two places.  UNSUBACK, PINGRESP and       *)
(* PINGREQ are queued in an outgoing packet (libmqtt_writepkt.c) which the  *)
(* poll writes on until the socket refuses.  CONNECT, CONNACK, SUBSCRIBE,   *)
(* SUBACK and PUBLISH are written at once (libmqtt.c), and nobody looks at  *)
(* what the socket took of them.  A PUBLISH goes to the ports one by one    *)
(* (emcuetiti_port.c): the router hands it to the clients subscribed        *)
(* (emcuetiti_port_router.c, emcuetiti_broker.c), the remote port to the    *)
(* remote; each reads the one payload buffer through a reference with a     *)
(* tail of its own (buffers.c).  The sys port publishes when a client       *)
(* connects.                                                                *)
(*                                                                         *)
(* The poll is one call at a time on one thread, so between two of these    *)
(* steps only a socket may change its mind about taking bytes.  What is     *)
(* read, and which clients are subscribed, is chosen here: PacketRead,      *)
(* Clients and Topics have that.                                            *)
(***************************************************************************)
EXTENDS Integers, Sequences, FiniteSets, SequencesExt

CONSTANTS
    MaxClients,   \* EMCUETITI_CONFIG_MAXCLIENTS
    Remote,       \* the outlet of the remote port
    CounterWidth, \* values of libmqtt_packetwrite's counter, a byte
    ChunkSize,    \* bytes construct_publish copies at a time, 32
    PayloadLens,  \* the lengths of payloads
    Refusals,     \* what sockets answer to a write they do not take
    MaxOps,       \* bound: packets that get an answer or are passed on
    NULL

Slots   == 1..MaxClients
Outlets == Slots \cup {Remote}

EWOULDBLOCK == -1
EFATAL == -2
EREMOTEDISCONNECTED == -3

ASSUME OutboundAssumption ==
    /\ MaxClients \in Nat \ {0} /\ Remote \notin Slots
    /\ CounterWidth \in Nat /\ CounterWidth > 2
    /\ ChunkSize \in Nat \ {0} /\ PayloadLens \subseteq Nat
    /\ \A n \in PayloadLens : n + 3 < 128 * 128 * 128 * 128  \* the fixed header has room
    /\ Refusals \subseteq {EWOULDBLOCK, EFATAL, EREMOTEDISCONNECTED}
    /\ MaxOps \in Nat /\ NULL \notin Outlets

VARIABLES
    connected,\* the slots whose client is CONNECTED
    link,     \* how far the remote port is
    pkt,      \* the outgoing packet of each slot, and of the port
    pool,     \* the payload buffer of the publish at hand
    pc,       \* where the thread is
    at,       \* the outlet that is being polled
    job,      \* the port that a publish is at, and how far that is
    stream,   \* history: what each socket took
    meant,    \* history: the packets begun on each stream
    full,     \* history: the socket has refused bytes
    written,  \* history: what the socket took of the queued packet
    over,     \* history: that one was queued over one written in part
    ops       \* bound: what is left of MaxOps

portVars == <<connected, link>>
pktVars  == <<pkt, written, over>>
copyVars == <<pool, job>>
wireVars == <<stream, meant, full>>
vars == <<portVars, pktVars, copyVars, wireVars, pc, at, ops>>

-----------------------------------------------------------------------------
(* Bytes.                                                                   *)

(* libmqtt_encodelength: seven bits a byte, lowest first, the high bit in   *)
(* all but the last.  Its loop, as often as the fixed header has room for.  *)
EncodeLength(len) ==
    LET more(n) == 128 + (n % 128)
        n2 == len \div 128
        n3 == n2 \div 128
        n4 == n3 \div 128
    IN  IF n2 = 0 THEN <<len>>
        ELSE IF n3 = 0 THEN <<more(len), n2>>
        ELSE IF n4 = 0 THEN <<more(len), more(n2), n3>>
        ELSE <<more(len), more(n2), more(n3), n4>>

Connect   == 16
Connack   == 32
Publish   == 48
Subscribe == 130
Suback    == 144
Unsuback  == 176
Pingreq   == 192
Pingresp  == 208

U16(n) == <<n \div 256, n % 256>>
Str(s) == U16(Len(s)) \o s

MsgId == 258   \* a message id whose bytes differ
Topic == <<116>> \* the name of the topic, topichandlewriter's bytes
ClientId == <<99>>
Payload(n) == [i \in 1..n |-> i]

(* A packet as MQTT has it: its body after the length of its body.          *)
Packet(type, body) == <<type>> \o EncodeLength(Len(body)) \o body

(* construct_connect: the varhead says MQTT, level 4, clean session, and    *)
(* the high byte of the keepalive (below 256 s) where both bytes should be. *)
ConnectHead == Str(<<77, 81, 84, 84>>) \o <<4, 2, 0, 0>>
ConnectBytes ==
    <<Connect>> \o EncodeLength(Len(ConnectHead) + Len(ClientId) + 2)
        \o ConnectHead \o U16(Len(ClientId)) \o ClientId

SubscribeBytes ==
    <<Subscribe>> \o EncodeLength(2 + 2 + Len(Topic) + 1)
        \o U16(MsgId) \o U16(Len(Topic)) \o Topic \o <<0>>

ConnackBytes == <<Connack>> \o EncodeLength(2) \o <<0, 0>>

SubackBytes(codes) == <<Suback>> \o EncodeLength(2 + Len(codes)) \o U16(MsgId) \o codes

(* Mutant: the length of the topic's length is forgotten.                   *)
PublishBytesShort(len) ==
    <<Publish>> \o EncodeLength(Len(Topic) + len) \o U16(Len(Topic)) \o Topic

(* construct_publish as far as the payload.                                 *)
PublishBytes(len) ==
    <<Publish>> \o EncodeLength(Len(Topic) + 2 + len) \o U16(Len(Topic)) \o Topic

(* What a queued packet is to be.                                           *)
AckBytes(p) == IF p.type = Unsuback THEN Packet(Unsuback, U16(MsgId)) ELSE Packet(p.type, <<>>)

(* Bytes for o, of packets that are `begun': the socket takes them all, or  *)
(* it refuses some, and then what follows on that stream is anything.       *)
Write(o, bytes, begun) ==
    \/ /\ stream' = IF full[o] THEN stream ELSE [stream EXCEPT ![o] = @ \o bytes]
       /\ meant' = IF full[o] THEN meant ELSE [meant EXCEPT ![o] = @ \o begun]
       /\ UNCHANGED full
    \/ /\ Refusals # {} /\ ~full[o]
       /\ stream' = [stream EXCEPT ![o] = <<>>]
       /\ meant' = [meant EXCEPT ![o] = <<>>]
       /\ full' = [full EXCEPT ![o] = TRUE]

-----------------------------------------------------------------------------
IdlePacket == [state |-> "IDLE", type |-> 0, length |-> 0, pos |-> 0, counter |-> 0]
NoJob == [port |-> "none", to |-> {}, out |-> NULL, tail |-> 0, len |-> 0, left |-> 0]
EmptyBuffer == [head |-> 0, tail |-> 0, refs |-> 0]

Init ==
    /\ connected = {} /\ link = "new"
    /\ pkt = [o \in Outlets |-> IdlePacket]
    /\ pool = EmptyBuffer /\ job = NoJob
    /\ pc = "idle" /\ at = NULL
    /\ stream = [o \in Outlets |-> <<>>] /\ meant = [o \in Outlets |-> <<>>]
    /\ full = [o \in Outlets |-> FALSE]
    /\ written = [o \in Outlets |-> <<>>] /\ over = [o \in Outlets |-> FALSE]
    /\ ops = MaxOps

(* emcuetiti_client_register puts a new client, and its socket, in a slot.  *)
Register(s) ==
    /\ pc = "idle" /\ ops > 0
    /\ connected' = connected \ {s}
    /\ pkt' = [pkt EXCEPT ![s] = IdlePacket]
    /\ written' = [written EXCEPT ![s] = <<>>] /\ over' = [over EXCEPT ![s] = FALSE]
    /\ stream' = [stream EXCEPT ![s] = <<>>] /\ meant' = [meant EXCEPT ![s] = <<>>]
    /\ full' = [full EXCEPT ![s] = FALSE]
    /\ ops' = ops - 1
    /\ UNCHANGED <<link, copyVars, pc, at>>

(* A turn of the poll: a slot is written to before it is read; the port in  *)
(* READY_WRITE writes unless a publish of the remote waits.  What went out  *)
(* whole by then is forgotten.                                              *)
Poll(o) ==
    LET whole(p) == stream[p] = meant[p] IN
    /\ pc = "idle"
    /\ o = Remote => link = "ready"
    /\ at' = o
    /\ pc' \in {"write"} \cup (IF o = Remote THEN {"handle"} ELSE {})
    /\ stream' = [p \in Outlets |-> IF whole(p) THEN <<>> ELSE stream[p]]
    /\ meant' = [p \in Outlets |-> IF whole(p) THEN <<>> ELSE meant[p]]
    /\ UNCHANGED <<portVars, pktVars, copyVars, full, ops>>

-----------------------------------------------------------------------------
(* The queued packet.                                                       *)

(* Mutant: counter runs on from one field into the next.                    *)
ChangeStateKeepsCounter(p, new) ==
    [p EXCEPT !.state = IF new = "MSGID" /\ p.pos = p.length THEN "FINISHED" ELSE new]

(* libmqtt_writepkt_changestate.                                            *)
ChangeState(p, new) ==
    [p EXCEPT !.state = IF new = "MSGID" /\ p.pos = p.length THEN "FINISHED" ELSE new,
              !.counter = 0]

NextState == [TYPE |-> "LEN", LEN |-> "MSGID", MSGID |-> "FINISHED"]

(* The packet after a write of one byte that was answered ret.  A u8 looks  *)
(* at counter whatever the answer, a u16 only if the byte was taken.        *)
After(p, ret) ==
    LET q == IF ret > 0
             THEN [p EXCEPT !.pos = @ + 1, !.counter = (@ + 1) % CounterWidth]
             ELSE p
        done == IF p.state = "MSGID" THEN ret > 0 /\ q.counter = 2 ELSE q.counter = 1
        r == IF done THEN ChangeState(q, NextState[p.state]) ELSE q
    IN  IF ret <= EFATAL THEN ChangeState(r, "ERROR") ELSE r

(* The byte that is written next.                                           *)
Byte(p) ==
    CASE p.state = "TYPE"  -> p.type
      [] p.state = "LEN"   -> p.length - 2
      [] p.state = "MSGID" -> U16(MsgId)[p.counter + 1]

(* One turn of libmqtt_writepkt's loop; it ends when a byte is not taken.   *)
WriteTurn ==
    LET p == pkt[at] IN
    /\ pc = "write" /\ p.state \in DOMAIN NextState
    /\ \E ret \in {1} \cup Refusals :
        /\ pkt' = [pkt EXCEPT ![at] = After(p, ret)]
        /\ IF ret > 0
           THEN /\ pc' = pc
                /\ IF full[at] THEN UNCHANGED wireVars
                   ELSE /\ stream' = [stream EXCEPT ![at] = Append(@, Byte(p))]
                        /\ meant' = IF p.pos = 0 THEN [meant EXCEPT ![at] = @ \o AckBytes(p)]
                                                 ELSE meant
                        /\ UNCHANGED full
                /\ written' = IF over[at] THEN written
                              ELSE [written EXCEPT ![at] = Append(@, Byte(p))]
           ELSE /\ pc' = "handle"
                /\ full' = [full EXCEPT ![at] = TRUE]
                /\ stream' = [stream EXCEPT ![at] = <<>>]
                /\ meant' = [meant EXCEPT ![at] = <<>>]
                /\ UNCHANGED written
    /\ UNCHANGED <<portVars, copyVars, over, at, ops>>

(* Nothing to write, or all of it written: then the packet is reset.        *)
WriteEnds ==
    LET done == pkt[at].state = "FINISHED" IN
    /\ pc = "write" /\ pkt[at].state \notin DOMAIN NextState
    /\ pkt' = IF done THEN [pkt EXCEPT ![at] = IdlePacket] ELSE pkt
    /\ written' = IF done THEN [written EXCEPT ![at] = <<>>] ELSE written
    /\ over' = IF done THEN [over EXCEPT ![at] = FALSE] ELSE over
    /\ pc' = "handle"
    /\ link' = IF at = Remote /\ pkt[at].state = "ERROR" THEN "error" ELSE link
    /\ UNCHANGED <<connected, copyVars, wireVars, at, ops>>

(* libmqtt_writepkt_simple and _justmsgid: pos and counter stay.            *)
Queue(o, type, length) ==
    /\ pkt' = [pkt EXCEPT ![o] = [@ EXCEPT !.state = "TYPE", !.type = type, !.length = length]]
    /\ written' = [written EXCEPT ![o] = <<>>]
    /\ over' = [over EXCEPT ![o] = @ \/ pkt[o].pos # 0]

-----------------------------------------------------------------------------
(* The handlers of a client's packets, and the port's keepalive.            *)

Handles == pc = "handle" /\ ops > 0 /\ ops' = ops - 1

NothingRead ==
    /\ pc = "handle"
    /\ pc' = "idle" /\ at' = NULL
    /\ UNCHANGED <<portVars, pktVars, copyVars, wireVars, ops>>

HandlePing ==
    /\ Handles
    /\ IF at = Remote THEN link = "ready" /\ Queue(at, Pingreq, 2) ELSE Queue(at, Pingresp, 2)
    /\ pc' = "idle" /\ at' = NULL
    /\ UNCHANGED <<portVars, copyVars, wireVars>>

HandleUnsubscribe ==
    /\ Handles /\ at \in Slots
    /\ Queue(at, Unsuback, 4)
    /\ pc' = "idle" /\ at' = NULL
    /\ UNCHANGED <<portVars, copyVars, wireVars>>

HandleSubscribe ==
    /\ Handles /\ at \in Slots
    /\ \E codes \in {<<0>>, <<0, 128>>} :
        Write(at, SubackBytes(codes), Packet(Suback, U16(MsgId) \o codes))
    /\ pc' = "idle" /\ at' = NULL
    /\ UNCHANGED <<portVars, pktVars, copyVars>>

HandleDisconnect ==
    /\ Handles /\ at \in Slots
    /\ connected' = connected \ {at}
    /\ pc' = "idle" /\ at' = NULL
    /\ UNCHANGED <<link, pktVars, copyVars, wireVars>>

(* emcuetiti_port_sys_onclientconnected: what the encoder returns, if it    *)
(* returns anything, is wrapped in a buffer of the port's and published.    *)
SysPublishes ==
    \/ pc' = "idle" /\ at' = NULL /\ UNCHANGED job
    \/ \E n \in PayloadLens, to \in SUBSET connected' :
         /\ job' = [NoJob EXCEPT !.port = "sys", !.to = to, !.len = n]
         /\ pc' = "fanout" /\ at' = at

(* The host may refuse a client: no CONNACK, and CONNECTED all the same.    *)
HandleConnect ==
    /\ Handles /\ at \in Slots
    /\ \/ Write(at, ConnackBytes, Packet(Connack, <<0, 0>>))
       \/ UNCHANGED wireVars
    /\ connected' = connected \cup {at}
    /\ SysPublishes
    /\ UNCHANGED <<link, pktVars, pool>>

(* A port's reference: a tail of its own, and a use counted.                *)
References(port, to) ==
    /\ pool' = [pool EXCEPT !.refs = @ + 1]
    /\ job' = [NoJob EXCEPT !.port = port, !.to = to, !.tail = pool.tail,
                            !.len = pool.head - pool.tail]

(* A PUBLISH has been read into a buffer of the pool.                       *)
HandlePublish ==
    /\ Handles /\ at \in Slots
    /\ \E n \in PayloadLens : pool' = [head |-> n, tail |-> 0, refs |-> 1]
    /\ pc' = "router"
    /\ UNCHANGED <<portVars, pktVars, job, wireVars, at>>

RouterBegins ==
    /\ pc = "router"
    /\ \E to \in SUBSET connected : References("router", to)
    /\ pc' = "fanout"
    /\ UNCHANGED <<portVars, pktVars, wireVars, at, ops>>

RemoteBegins ==
    /\ pc = "remote" /\ link = "ready"
    /\ References("remote", {Remote})
    /\ pc' = "fanout"
    /\ UNCHANGED <<portVars, pktVars, wireVars, at, ops>>

Unref(b) == IF b.refs = 1 THEN EmptyBuffer ELSE [b EXCEPT !.refs = @ - 1]

(* The handler's own unref, once every port has had the publish.            *)
PublishEnds ==
    /\ (pc = "remote" /\ link # "ready") \/ pc = "handed on"
    /\ pool' = Unref(pool)
    /\ pc' = "idle" /\ at' = NULL
    /\ UNCHANGED <<portVars, pktVars, job, wireVars, ops>>

-----------------------------------------------------------------------------
(* emcuetiti_broker_publish and libmqtt_construct_publish.                  *)

BeginCopy ==
    /\ pc = "fanout" /\ job.out = NULL
    /\ \E o \in job.to :
        /\ \A p \in job.to \ {o} : o < p
        /\ Write(o, PublishBytes(job.len), Packet(Publish, Str(Topic) \o Payload(job.len)))
        /\ job' = [job EXCEPT !.out = o, !.left = job.len]
    /\ UNCHANGED <<portVars, pktVars, pool, pc, at, ops>>

(* Bytes of the stack buffer that nothing was read into; a run of them is   *)
(* kept as one.                                                             *)
Junk == 256
WithJunk(o, n) == IF n = 0 \/ full[o] \/ Last(stream[o]) = Junk THEN <<>> ELSE <<Junk>>

Available == (IF job.port = "sys" THEN job.len ELSE pool.head) - job.tail

(* buffers_buffer_readfunc.                                                 *)
ReadFunc(want) == IF Available < want THEN Available ELSE want

(* One turn of the loop: it writes as much as it wanted, whatever it read,  *)
(* and counts what it read.                                                 *)
Copy ==
    LET want == IF job.left < ChunkSize THEN job.left ELSE ChunkSize
        read == ReadFunc(want)
    IN  /\ pc = "fanout" /\ job.out # NULL /\ job.left > 0
        /\ Write(job.out, [i \in 1..read |-> job.tail + i] \o WithJunk(job.out, want - read), <<>>)
        /\ job' = [job EXCEPT !.tail = @ + read, !.left = @ - read]
        /\ UNCHANGED <<portVars, pktVars, pool, pc, at, ops>>

(* Mutant: the next receiver starts where this one stopped.                 *)
CopyEndsUnreset ==
    /\ pc = "fanout" /\ job.out # NULL /\ job.left = 0
    /\ job' = [job EXCEPT !.to = @ \ {job.out}, !.out = NULL]
    /\ UNCHANGED <<portVars, pktVars, pool, wireVars, pc, at, ops>>

(* The publish's resetfunc takes the tail back for the next receiver; the   *)
(* remote port, with one, calls construct_publish itself and has none.      *)
CopyEnds ==
    /\ pc = "fanout" /\ job.out # NULL /\ job.left = 0
    /\ job' = [job EXCEPT !.to = @ \ {job.out}, !.out = NULL,
                          !.tail = IF job.port = "remote" THEN @ ELSE 0]
    /\ UNCHANGED <<portVars, pktVars, pool, wireVars, pc, at, ops>>

(* Where a publish goes from each port.                                     *)
Onwards == [router |-> "remote", remote |-> "handed on", sys |-> "idle"]

(* Mutant: a port forgets to give its reference back.                       *)
PortEndsHolding ==
    /\ pc = "fanout" /\ job.out = NULL /\ job.to = {}
    /\ job' = NoJob
    /\ pc' = Onwards[job.port]
    /\ UNCHANGED <<portVars, pktVars, pool, wireVars, at, ops>>

PortEnds ==
    /\ pc = "fanout" /\ job.out = NULL /\ job.to = {}
    /\ pool' = IF job.port = "sys" THEN pool ELSE Unref(pool)
    /\ job' = NoJob
    /\ pc' = Onwards[job.port]
    /\ UNCHANGED <<portVars, pktVars, wireVars, at, ops>>

-----------------------------------------------------------------------------
(* The remote port before it is READY; the answers it waits for in between  *)
(* are RemotePort's.                                                        *)
RemoteConnects ==
    /\ pc = "idle" /\ link = "new"
    /\ Write(Remote, ConnectBytes, Packet(Connect, ConnectHead \o Str(ClientId)))
    /\ link' = "subscribing"
    /\ UNCHANGED <<connected, pktVars, copyVars, pc, at, ops>>

RemoteSubscribes ==
    /\ pc = "idle" /\ link = "subscribing"
    /\ Write(Remote, SubscribeBytes, Packet(Subscribe, U16(MsgId) \o Str(Topic) \o <<0>>))
    /\ link' = "ready"
    /\ UNCHANGED <<connected, pktVars, copyVars, pc, at, ops>>

(* The steps of a publish on its way through the ports.                     *)
FanOut == RouterBegins \/ RemoteBegins \/ BeginCopy \/ Copy \/ CopyEnds \/ PortEnds \/ PublishEnds

Next == \/ \E s \in Slots : Register(s)
        \/ \E o \in Outlets : Poll(o)
        \/ WriteTurn \/ WriteEnds
        \/ NothingRead \/ HandlePing \/ HandleUnsubscribe \/ HandleSubscribe
        \/ HandleDisconnect \/ HandleConnect \/ HandlePublish
        \/ FanOut \/ RemoteConnects \/ RemoteSubscribes

Spec == Init /\ [][Next]_vars

(* A call that has begun runs on by itself.                                 *)
FairSpec == Spec /\ WF_vars(FanOut)

-----------------------------------------------------------------------------
(* Properties.                                                              *)

PacketStates == {"IDLE", "TYPE", "LEN", "MSGID", "FINISHED", "ERROR"}
Packets == [state : PacketStates, type : Nat, length : Nat, pos : Nat,
            counter : 0..CounterWidth - 1]
Jobs == [port : DOMAIN Onwards \cup {"none"}, to : SUBSET Outlets,
         out : Outlets \cup {NULL}, tail : Nat, len : Nat, left : Nat]

(* Every variable has its type; no reader is past the end of its buffer.    *)
TypeOK ==
    /\ connected \subseteq Slots
    /\ link \in {"new", "subscribing", "ready", "error"}
    /\ pkt \in [Outlets -> Packets]
    /\ pool \in [head : Nat, tail : Nat, refs : 0..2]
    /\ job \in Jobs /\ Available \in Nat
    /\ pc \in {"idle", "write", "handle", "router", "remote", "handed on", "fanout"}
    /\ at \in Outlets \cup {NULL}
    /\ full \in [Outlets -> BOOLEAN] /\ over \in [Outlets -> BOOLEAN]

(* A socket that takes what it is given sees whole packets, each as long as *)
(* it says, in the order they were begun: acknowledgements that were queued *)
(* and packets that were not, publishes of other clients in between.        *)
StreamWhole ==
    \A o \in Outlets : ~full[o] =>
        IF job.out = o \/ (pc = "write" /\ at = o)
        THEN IsPrefix(stream[o], meant[o])
        ELSE stream[o] = meant[o]

(* A queued packet that goes out in pieces, as the socket takes it, goes    *)
(* out once from the first byte to the last.  (Unless it was queued over    *)
(* one that had gone out in part: it takes over pos and counter.)           *)
AckResumes ==
    \A o \in Outlets : ~over[o] /\ pkt[o].state \in DOMAIN NextState \cup {"FINISHED"} =>
        /\ Len(written[o]) = pkt[o].pos
        /\ IsPrefix(written[o], AckBytes(pkt[o]))
        /\ pkt[o].state = "FINISHED" => pkt[o].pos = Len(AckBytes(pkt[o]))

(* While a port reads a payload buffer it is in use twice, by the port and  *)
(* by the handler, and when the publish has been handed on it is free again *)
(* and empty for the next one.                                              *)
RefsBalanced ==
    /\ pc = "fanout" /\ job.port # "sys" => pool.refs = 2
    /\ pc \in {"idle", "write", "handle"} => pool = EmptyBuffer

(* What construct_publish has announced and not yet written is what its     *)
(* reader still has, for each receiver anew: it never reads short.          *)
NeverShort == pc = "fanout" /\ job.out # NULL => job.left = Available

(* A publish that has been handed to the ports comes back, however many     *)
(* receive it: construct_publish loops until it has read what it announced. *)
FanOutReturns == pc \in {"router", "fanout"} ~> pc = "idle"

-----------------------------------------------------------------------------
(* Inductive invariant: what RefsBalanced and NeverShort rest on.           *)

(* The uses of the payload buffer, by the place the thread is at.           *)
PoolInv ==
    /\ pc # "fanout" => job = NoJob
    /\ pc \in {"idle", "write", "handle"} => pool = EmptyBuffer
    /\ pc \in {"router", "remote", "handed on"} => pool.refs = 1 /\ pool.tail = 0
    /\ pc = "fanout" => /\ job.port \in DOMAIN Onwards
                        /\ IF job.port = "sys" THEN pool = EmptyBuffer
                           ELSE pool.refs = 2 /\ pool.tail = 0 /\ job.len = pool.head
    /\ pc \in {"write", "handle"} => at \in Outlets

(* The reader is at the start for the next receiver, and within a copy it   *)
(* has left what is still to be written.  The remote port has one receiver. *)
CopyInv ==
    pc = "fanout" =>
        /\ job.out = NULL /\ job.to # {} => job.tail = 0
        /\ job.out # NULL => job.out \in job.to /\ job.left + job.tail = job.len
        /\ job.tail <= job.len
        /\ job.port = "remote" => job.to \subseteq {Remote}

(* The packets that are queued, and how long each is.                       *)
Acks == {<<Unsuback, 4>>, <<Pingreq, 2>>, <<Pingresp, 2>>}

(* Where the writer is in a packet that was not queued over another: state  *)
(* and counter say how many bytes are gone.                                 *)
Placed(p) ==
    /\ p.state = "TYPE"  => p.pos = 0 /\ p.counter = 0
    /\ p.state = "LEN"   => p.pos = 1 /\ p.counter = 0
    /\ p.state = "MSGID" => p.pos \in {2, 3} /\ p.counter = p.pos - 2 /\ p.length = 4
    /\ p.state = "FINISHED" => p.pos = p.length

(* An outgoing packet p knows what it is, and unless it was queued over one *)
(* written in part, what is gone of it is the bytes w that the socket took. *)
(* An idle one, and one that failed before its first byte, is as good as    *)
(* new.                                                                     *)
Acked(p, w, queuedOver) ==
    /\ p.state = "IDLE" => p.pos = 0
    /\ p.state \in {"IDLE", "ERROR"} => p.counter = 0
    /\ p.state # "IDLE" => <<p.type, p.length>> \in Acks
    /\ ~queuedOver /\ p.state \notin {"IDLE", "ERROR"} =>
           Placed(p) /\ w = SubSeq(AckBytes(p), 1, p.pos)

AckInv ==
    /\ written \in [Outlets -> Seq(Int)]
    /\ \A o \in Outlets : Acked(pkt[o], written[o], over[o])

(* What is still to be written of the packet that is under way to o.        *)
Rest(o) ==
    CASE pc = "write" /\ at = o /\ pkt[o].pos > 0 -> SubSeq(AckBytes(pkt[o]), pkt[o].pos + 1, pkt[o].length)
      [] pc = "fanout" /\ job.out = o -> [i \in 1..job.left |-> job.tail + i]
      [] OTHER -> <<>>

(* A socket that has taken everything lacks that and nothing else, and no   *)
(* queued packet stops half way but while it is being written.              *)
StreamInv ==
    /\ stream \in [Outlets -> Seq(Int)] /\ meant \in [Outlets -> Seq(Int)]
    /\ \A o \in Outlets : ~full[o] =>
        /\ meant[o] = stream[o] \o Rest(o)
        /\ ~over[o] /\ pkt[o].state # "ERROR"
        /\ (pc = "write" /\ at = o) \/ pkt[o].state \in {"IDLE", "TYPE"}

=============================================================================
