------------------------------ MODULE RemotePort ------------------------------
(***************************************************************************)
(* The remote port (emcuetiti_port_remote.c): the broker as a client of     *)
(* another broker.  Each poll of the broker runs the port's poll function   *)
(* once, before the clients', and that takes one step of its state machine. *)
(* The remote broker, its network and the clock move between polls; other   *)
(* users of the payload pool do too.  Writes to the remote go out at once   *)
(* and their results are ignored, except for the queued PINGREQ.            *)
(***************************************************************************)
EXTENDS Integers, Sequences

CONSTANTS
    TopicCounts,      \* values of config->numtopics
    Keepalives,       \* values of config->keepalive
    ConnectTimeout,   \* TIMEOUT
    SubscribeTimeout, \* seconds a SUBACK may take
    RetryAfter,       \* seconds between two attempts to connect
    TimeWidth,        \* values of emcuetiti_timestamp
    StartTimes,       \* what the clock shows when the broker starts
    MaxInflight,      \* buffers of the pool
    MaxReceivers,     \* bound: local clients subscribed to a topic
    MaxPublishes,     \* bound: publishes the remote sends
    MaxWire,          \* bound: packets under way to the port
    NULL

(* The clock does not wrap all the way round between two reads, of which    *)
(* there is one in three polls, or between two polls.                       *)
ASSUME RemoteAssumption ==
    /\ TopicCounts \subseteq Nat /\ Keepalives \subseteq Nat
    /\ {ConnectTimeout, SubscribeTimeout, RetryAfter, MaxInflight,
        MaxReceivers, MaxPublishes, MaxWire} \subseteq Nat
    /\ NULL \notin [id : 1..MaxPublishes, whole : BOOLEAN]
    /\ TimeWidth \in Nat \ {0}
    /\ StartTimes \subseteq 0..(TimeWidth - 1)
    /\ \A k \in Keepalives : 2 * k + 3 < TimeWidth
    /\ ConnectTimeout + 1 < TimeWidth /\ SubscribeTimeout + 1 < TimeWidth

VARIABLES
    config,   \* config->numtopics and config->keepalive
    state,    \* portdata->state
    asked,    \* connreqsent, subreqsent
    since,    \* lastattempt, connsentat, subreqsentat
    step,     \* statedata.ready.state
    lastsent, lastrecv, \* statedata.ready.datalastsent and datalastreceived
    ping,     \* statedata.ready.pktwrite
    taken,    \* how much of Head(wire) the packet reader has
    waiting,  \* portdata->publishwaiting
    publish,  \* portdata->publish: what is in its buffer, or NULL
    topic,    \* portdata->topic is not NULL
    held,     \* buffers of the pool the port has taken and not given back
    others,   \* buffers its other users have
    conn,     \* connectiondata and the state of the socket behind it
    wire,     \* packets of the remote that the port has not read whole
    told,     \* history: what the two have told each other
    sent,     \* history: how many publishes the remote has sent
    early,    \* history: it sent one before its SUBACK
    delivered,\* history: what was handed to the clients
    clock,    \* callbacks->timestamp()
    polled,   \* the broker has polled since the clock's last tick
    quiet,    \* history: true seconds since the remote was last owed nothing
    pc        \* "run", or where the thread ended: "dead", "hang"

remoteVars == <<conn, wire, told, sent, early>>
timeVars   == <<clock, polled, quiet>>
readVars   == <<taken, waiting, publish, topic, held>>
dataVars   == <<asked, since, step, lastsent, lastrecv, ping>>
vars == <<config, state, dataVars, readVars, others, remoteVars, delivered,
          timeVars, pc>>

Kinds == {"plain", "empty", "unknown"}
Packet(t)      == [type |-> t, id |-> 0, kind |-> "plain"]
PublishOf(i, k) == [type |-> "publish", id |-> i, kind |-> k]
SubscribeId == 0 \* the message id of the port's only SUBSCRIBE
StrayAck == [type |-> "suback", id |-> SubscribeId + 1, kind |-> "plain"]
Packets == {Packet(t) : t \in {"connack", "suback", "pingresp"}} \cup {StrayAck}
             \cup {PublishOf(i, k) : i \in 1..MaxPublishes, k \in Kinds}

(* The longest silence any property asks about, and one more.               *)
QuietMax == CHOOSE q \in 0..(2 * TimeWidth) :
                /\ q > ConnectTimeout /\ q > SubscribeTimeout
                /\ \A k \in Keepalives : q > 2 * k
                /\ q - 1 \in {ConnectTimeout, SubscribeTimeout} \cup {2 * k : k \in Keepalives}

(* Mutant: not in the width of the timestamp.                               *)
ElapsedWide(t) == clock - t

(* Elapsed seconds are a difference of timestamps, and right though the     *)
(* clock may have wrapped.                                                  *)
Elapsed(t) == (clock - t + TimeWidth) % TimeWidth

(* Mutant: the limit itself is too long.                                    *)
TimedOutEarly(t, timeout) == Elapsed(t) >= timeout

(* emcuetiti_port_remote_timeoutexpired                                     *)
TimedOut(t, timeout) == Elapsed(t) > timeout

Init ==
    /\ config \in [numtopics : TopicCounts, keepalive : Keepalives]
    /\ state = "notconnected" /\ asked = FALSE /\ since = 0
    /\ step = "read" /\ lastsent = 0 /\ lastrecv = 0 /\ ping = "idle"
    /\ taken = "none" /\ waiting = FALSE /\ publish = NULL /\ topic = FALSE
    /\ held = 0 /\ others = 0
    /\ conn = "none" /\ wire = <<>> /\ told = {} /\ sent = 0 /\ early = FALSE
    /\ delivered = <<>>
    /\ clock \in StartTimes /\ polled = FALSE /\ quiet = 0
    /\ pc = "run"

-----------------------------------------------------------------------------
(* The environment.                                                         *)

(* The timer polls many times a second.                                     *)
Tick ==
    /\ polled
    /\ clock' = (clock + 1) % TimeWidth
    /\ quiet' = IF quiet < QuietMax THEN quiet + 1 ELSE quiet
    /\ polled' = FALSE
    /\ UNCHANGED <<config, state, dataVars, readVars, others, remoteVars,
                   delivered, pc>>

OthersTake ==
    /\ others + held < MaxInflight
    /\ others' = others + 1
    /\ UNCHANGED <<config, state, dataVars, readVars, remoteVars, delivered,
                   timeVars, pc>>

OthersFree ==
    /\ others > 0
    /\ others' = others - 1
    /\ UNCHANGED <<config, state, dataVars, readVars, remoteVars, delivered,
                   timeVars, pc>>

(* What a broker may send: answers to what it was asked and, from the       *)
(* moment it has the SUBSCRIBE, publishes.  Until it has answered that, it  *)
(* may send SUBACKs for another message, as many as it likes.               *)
RemoteSends ==
    /\ conn = "open" /\ Len(wire) < MaxWire
    /\ \/ /\ "connect" \in told /\ "connack" \notin told
          /\ wire' = Append(wire, Packet("connack"))
          /\ told' = told \cup {"connack"}
          /\ UNCHANGED <<sent, early>>
       \/ /\ "subscribe" \in told /\ "suback" \notin told
          /\ wire' = Append(wire, Packet("suback"))
          /\ told' = told \cup {"suback"}
          /\ UNCHANGED <<sent, early>>
       \/ /\ "subscribe" \in told /\ "suback" \notin told
          /\ wire' = Append(wire, StrayAck)
          /\ UNCHANGED <<told, sent, early>>
       \/ /\ "ping" \in told
          /\ wire' = Append(wire, Packet("pingresp"))
          /\ told' = told \ {"ping"}
          /\ UNCHANGED <<sent, early>>
       \/ /\ "subscribe" \in told /\ sent < MaxPublishes
          /\ \E k \in Kinds : wire' = Append(wire, PublishOf(sent + 1, k))
          /\ sent' = sent + 1
          /\ early' = (early \/ "suback" \notin told)
          /\ UNCHANGED told
    /\ UNCHANGED <<config, state, dataVars, readVars, others, conn, delivered,
                   timeVars, pc>>

RemoteCloses ==
    /\ conn = "open"
    /\ conn' = "eof"
    /\ UNCHANGED <<config, state, dataVars, readVars, others, wire, told, sent,
                   early, delivered, timeVars, pc>>

-----------------------------------------------------------------------------
(* emcuetiti_port_remote_movetostate zeroes the union of the states' data,  *)
(* the packet reader and writer among it; buffer, topic and publishwaiting  *)
(* lie outside.  What the last step of READY still writes there is not      *)
(* looked at in ERROR.                                                      *)
MoveTo(new) ==
    /\ state' = new
    /\ asked' = FALSE /\ since' = 0
    /\ step' = "read" /\ lastsent' = 0 /\ lastrecv' = 0 /\ ping' = "idle"

(* Every poll: the thread is at it, and has been since the last tick.       *)
Polling == pc = "run" /\ polled' = TRUE /\ UNCHANGED <<config, others, clock>>

NotConnected ==
    /\ Polling /\ state = "notconnected"
    /\ IF Elapsed(since) < RetryAfter
       THEN UNCHANGED <<state, dataVars, conn>>
       ELSE \/ conn' = "open" /\ MoveTo("connecting")
            \/ conn' = "none" /\ MoveTo("error")
            \/ since' = clock /\ UNCHANGED <<state, asked, step, lastsent,
                                             lastrecv, ping, conn>>
    /\ UNCHANGED <<readVars, wire, told, sent, early, delivered, quiet, pc>>

(* The CONNECT, the SUBSCRIBE.                                              *)
Ask(request) ==
    /\ ~asked
    /\ asked' = TRUE /\ since' = clock
    /\ told' = told \cup {request}
    /\ quiet' = 0
    /\ UNCHANGED <<state, step, lastsent, lastrecv, ping, readVars, conn, wire,
                   sent, early, delivered, pc>>

SendConnect   == Polling /\ state = "connecting" /\ Ask("connect")
SendSubscribe == Polling /\ state = "subscribing" /\ config.numtopics > 0 /\ Ask("subscribe")

(* With no topics READY is entered with both timestamps zero.               *)
SkipSubscribe ==
    /\ Polling /\ state = "subscribing" /\ config.numtopics = 0
    /\ MoveTo("ready")
    /\ quiet' = 0
    /\ UNCHANGED <<readVars, remoteVars, delivered, pc>>

-----------------------------------------------------------------------------
(* emcuetiti_port_remote_readpacket: one packet at most is read per poll.   *)
(* Head(wire) is the packet the reader is in, and taken says how far: with  *)
(* "all" its bytes are in the reader, and a buffer for its payload is not.  *)

Unread == Len(wire) > (IF taken = "all" THEN 1 ELSE 0)
DataWaiting == conn = "eof" \/ Unread

(* Only in READY does the payload callback look at the packet in the right  *)
(* member of the union; elsewhere it drops what it is given.  (It returns   *)
(* an unset value there for a packet whose length ends in a byte 3, which   *)
(* is left out.)                                                            *)
HasPayload(p) == state = "ready" /\ p.type = "publish" /\ p.kind # "empty"

BufferAtHandAny == TRUE \* mutant: a buffer in use will do
BufferAtHand == publish # NULL \/ others + held < MaxInflight

(* The payload goes into the buffer the port has, or into a new one.        *)
Fill(p, whole) ==
    /\ BufferAtHand
    /\ IF publish = NULL
       THEN publish' = [id |-> p.id, whole |-> whole] /\ held' = held + 1
       ELSE /\ publish' = [id |-> p.id, whole |-> whole /\ publish.id = p.id]
            /\ UNCHANGED held

(* The reader comes back inside a packet: the rest is not there yet, or a   *)
(* payload is and the pool is empty.                                        *)
ReadPart ==
    /\ DataWaiting /\ wire # <<>>
    /\ LET p == Head(wire) IN
        \/ /\ taken # "all" /\ taken' = "some"
           /\ \/ HasPayload(p) /\ Fill(p, FALSE) /\ topic' = (p.kind # "unknown")
              \/ publish = NULL /\ topic' = FALSE /\ UNCHANGED <<publish, held>>
        \/ /\ HasPayload(p) /\ ~BufferAtHand
           /\ taken' = "all" /\ topic' = (p.kind # "unknown")
           /\ UNCHANGED <<publish, held>>
    /\ UNCHANGED <<wire, waiting>>

ReadWhole ==
    /\ DataWaiting /\ wire # <<>>
    /\ LET p == Head(wire) IN
        /\ IF HasPayload(p) THEN Fill(p, TRUE) ELSE UNCHANGED <<publish, held>>
        /\ waiting' = (waiting \/ p.type = "publish")
        /\ topic' = (HasPayload(p) /\ p.kind # "unknown")
    /\ wire' = Tail(wire) /\ taken' = "none"

(* The remote is gone: what it sent last may be lost.                       *)
ReadFails == conn = "eof" /\ taken # "all" /\ UNCHANGED <<readVars, wire>>

(* Hosts differ in whether datawaiting holds of a closed socket.            *)
NothingRead == \/ /\ conn = "eof" \/ ~Unread
                  /\ UNCHANGED <<readVars, wire>>
               \/ ReadPart

(* A failed read moves to ERROR, and so does a packet that is not there in  *)
(* time.                                                                    *)
AwaitOr(t, timeout, otherwise) ==
    \/ ReadFails /\ MoveTo("error")
    \/ NothingRead /\ IF TimedOut(t, timeout) THEN MoveTo("error") ELSE otherwise

(* Any packet at all ends the wait for the CONNACK.                         *)
AwaitConnack ==
    /\ Polling /\ state = "connecting" /\ asked
    /\ \/ ReadWhole /\ MoveTo("subscribing")
       \/ AwaitOr(since, ConnectTimeout, UNCHANGED <<state, dataVars>>)
    /\ UNCHANGED <<conn, told, sent, early, delivered, quiet, pc>>

IsAnswerAny(p) == p.type = "suback" \* mutant: a SUBACK of any message will do
IsAnswer(p) == p.type = "suback" /\ p.id = SubscribeId

(* A packet that does not answer the SUBSCRIBE is dropped, without a look   *)
(* at the time.                                                             *)
AwaitSuback ==
    /\ Polling /\ state = "subscribing" /\ config.numtopics > 0 /\ asked
    /\ \/ /\ ReadWhole
          /\ IF IsAnswer(Head(wire))
             THEN /\ state' = "ready" /\ asked' = FALSE /\ since' = 0
                  /\ step' = "read" /\ ping' = "idle"
                  /\ lastsent' = clock /\ lastrecv' = clock
                  /\ quiet' = 0
             ELSE UNCHANGED <<state, dataVars, quiet>>
       \/ /\ AwaitOr(since, SubscribeTimeout, UNCHANGED <<state, dataVars>>)
          /\ UNCHANGED quiet
    /\ UNCHANGED <<conn, told, sent, early, delivered, pc>>

-----------------------------------------------------------------------------
(* READY: a read, a write and a keepalive in turn, one per poll.            *)
Ready(s) == Polling /\ state = "ready" /\ step = s

ReadyRead ==
    /\ Ready("read")
    /\ \/ /\ ReadWhole
          /\ lastrecv' = clock /\ quiet' = 0 /\ step' = "write"
          /\ UNCHANGED <<state, asked, since, lastsent, ping>>
       \/ /\ AwaitOr(IF config.keepalive > 0 THEN lastrecv ELSE clock,
                     2 * config.keepalive,
                     step' = "write" /\ UNCHANGED <<state, asked, since, lastsent, lastrecv, ping>>)
          /\ UNCHANGED quiet
    /\ UNCHANGED <<conn, told, sent, early, delivered, pc>>

(* Mutants: the buffer is not given back; the port goes on filling it.      *)
HandOverKeepsRef ==
    /\ waiting' = FALSE /\ publish' = NULL
    /\ UNCHANGED held
HandOverKeepsBuffer ==
    /\ waiting' = FALSE
    /\ UNCHANGED <<publish, held>>

HandOver ==
    /\ waiting' = FALSE /\ publish' = NULL
    /\ held' = held - 1

(* A publish that waits is handed to the clients from its buffer.  With no  *)
(* reset function only the first receiver finds its payload there: for the  *)
(* second, libmqtt_construct_publish reads for ever.  No buffer or no topic *)
(* is dereferenced all the same.                                            *)
ReadyHandOn ==
    /\ Ready("write") /\ waiting
    /\ \/ /\ publish = NULL \/ ~topic
          /\ pc' = "dead"
          /\ UNCHANGED <<waiting, publish, held, step, delivered>>
       \/ /\ publish # NULL /\ topic
          /\ \E n \in 0..MaxReceivers :
              IF n > 1
              THEN pc' = "hang" /\ UNCHANGED <<waiting, publish, held, step, delivered>>
              ELSE /\ delivered' = Append(delivered, publish)
                   /\ HandOver
                   /\ step' = "keepalive"
                   /\ UNCHANGED pc
    /\ UNCHANGED <<state, asked, since, lastsent, lastrecv, ping, taken, topic,
                   remoteVars, quiet>>

(* Otherwise a queued PINGREQ is written, if the socket takes it.           *)
ReadyWrite ==
    /\ Ready("write") /\ ~waiting
    /\ \/ /\ ping # "idle"
          /\ ping' = "idle" /\ told' = told \cup {"ping"} /\ step' = "keepalive"
          /\ UNCHANGED <<state, asked, since, lastsent, lastrecv>>
       \/ /\ ping' \in (IF ping = "idle" THEN {"idle"} ELSE {ping, "partial"})
          /\ step' = "keepalive"
          /\ UNCHANGED <<state, asked, since, lastsent, lastrecv, told>>
       \/ ping # "idle" /\ conn = "eof" /\ MoveTo("error") /\ UNCHANGED told
    /\ UNCHANGED <<readVars, conn, wire, sent, early, delivered, quiet, pc>>

PingDue == /\ config.keepalive > 0
           /\ \/ Elapsed(lastsent) >= config.keepalive
              \/ Elapsed(lastrecv) >= config.keepalive

ReadyKeepalive ==
    /\ Ready("keepalive")
    /\ IF PingDue THEN ping' = "queued" /\ lastsent' = clock
                  ELSE UNCHANGED <<ping, lastsent>>
    /\ step' = "read"
    /\ UNCHANGED <<state, asked, since, lastrecv, readVars, remoteVars,
                   delivered, quiet, pc>>

(* ERROR is never left.                                                     *)
Error ==
    /\ Polling /\ state = "error"
    /\ conn' = "none"
    /\ UNCHANGED <<state, dataVars, readVars, wire, told, sent, early,
                   delivered, quiet, pc>>

-----------------------------------------------------------------------------
Poll == \/ NotConnected \/ SendConnect \/ AwaitConnack
        \/ SkipSubscribe \/ SendSubscribe \/ AwaitSuback
        \/ ReadyRead \/ ReadyHandOn \/ ReadyWrite \/ ReadyKeepalive \/ Error

Next == \/ Tick \/ OthersTake \/ OthersFree \/ RemoteSends \/ RemoteCloses
        \/ Poll

Spec == Init /\ [][Next]_vars

(* The host's timer keeps polling and time passes.  Nothing is asked of the *)
(* remote.                                                                  *)
FairSpec == Spec /\ WF_vars(Poll) /\ WF_vars(Tick)

-----------------------------------------------------------------------------
(* Properties.                                                              *)

(* Every variable has its type, and the port talks to nobody before it has  *)
(* connected.                                                               *)
TypeOK ==
    /\ config \in [numtopics : TopicCounts, keepalive : Keepalives]
    /\ state \in {"notconnected", "connecting", "subscribing", "ready", "error"}
    /\ asked \in BOOLEAN /\ since \in 0..(TimeWidth - 1)
    /\ step \in {"read", "write", "keepalive"}
    /\ {lastsent, lastrecv} \subseteq 0..(TimeWidth - 1)
    /\ ping \in {"idle", "queued", "partial"}
    /\ taken \in {"none", "some", "all"}
    /\ waiting \in BOOLEAN /\ topic \in BOOLEAN
    /\ publish \in {NULL} \cup [id : 1..MaxPublishes, whole : BOOLEAN]
    /\ held \in 0..MaxInflight /\ others \in 0..(MaxInflight - held)
    /\ conn \in {"none", "open", "eof"}
    /\ wire \in Seq(Packets) /\ Len(wire) <= MaxWire
    /\ told \subseteq {"connect", "connack", "subscribe", "suback", "ping"}
    /\ sent \in 0..MaxPublishes /\ early \in BOOLEAN
    /\ delivered \in Seq([id : 1..MaxPublishes, whole : BOOLEAN])
    /\ clock \in 0..(TimeWidth - 1) /\ polled \in BOOLEAN
    /\ quiet \in 0..QuietMax
    /\ pc \in {"run", "dead", "hang"}
    /\ state \in {"connecting", "subscribing", "ready"} => conn # "none"
    /\ wire = <<>> => taken = "none"

(* The port counts itself subscribed only when the remote has answered its  *)
(* own SUBSCRIBE, whatever else the remote has sent before.                 *)
Subscribed == state = "ready" /\ config.numtopics > 0 => "suback" \in told

(* Publishes are read in one poll and handed on in another, through one     *)
(* register and a shared pool that may be empty in between.  Still each     *)
(* reaches the clients once, in the order sent, with its whole payload and  *)
(* nothing of another's: as long as none came before the SUBACK.            *)
DeliveredInOrder ==
    ~early => \A i \in DOMAIN delivered : delivered[i] = [id |-> i, whole |-> TRUE]

(* The port has a buffer of the pool only from the first byte of a payload  *)
(* to the handing on of the publish, and gives back exactly what it took.   *)
(* (A port that goes to ERROR in between never does.)                       *)
PortBuffer ==
    /\ held = IF publish = NULL THEN 0 ELSE 1
    /\ publish # NULL => \/ state = "ready" /\ (waiting \/ taken = "some")
                         \/ state = "error"

Limit == CASE state = "connecting" -> ConnectTimeout
           [] state = "subscribing" -> SubscribeTimeout
           [] OTHER -> 2 * config.keepalive

(* The port gives up only if it could not connect, if the connection is     *)
(* gone or if the remote has really been silent for longer than the limit,  *)
(* whatever the timestamps have wrapped to: in a port with topics.          *)
ErrorJustified ==
    [][state # "error" /\ state' = "error" =>
        \/ state = "notconnected" \/ conn = "eof"
        \/ quiet > Limit
        \/ state = "ready" /\ config.numtopics = 0]_vars

(* And it does give up: past a read in READY the remote has been heard of   *)
(* within twice the keepalive.                                              *)
SilenceBounded ==
    [][state = "ready" /\ step = "read" /\ state' = "ready" /\ step' = "write"
       /\ config.keepalive > 0 /\ config.numtopics > 0
         => quiet' <= 2 * config.keepalive]_vars

(* A poll that drops a packet while the port waits for its SUBACK.          *)
Drops == state = "subscribing" /\ state' = state /\ wire # <<>> /\ wire' = Tail(wire)

(* A port that has connected does not stay half-way: it becomes READY or    *)
(* gives up.  Unless it is for ever sent other packets while it waits for   *)
(* its SUBACK: a poll that reads one whole does not look at the time, and   *)
(* the other broker can hold the port in SUBSCRIBING that way.              *)
Settles ==
    \/ state = "connecting" ~> state \in {"ready", "error"}
    \/ []<><<Drops>>_vars

-----------------------------------------------------------------------------
(* Inductive invariants: what the properties above rest on.                 *)

(* A publish that is only partly in the register is the one that the reader *)
(* is in.                                                                   *)
RegisterInv ==
    publish # NULL /\ state = "ready" /\ ~waiting =>
        /\ taken = "some" /\ wire # <<>>
        /\ HasPayload(Head(wire)) /\ publish.id = Head(wire).id

IsPublish(i) == wire[i].type = "publish"

(* Before READY the remote has answered what it was asked, in that order;   *)
(* nothing but stray SUBACKs come before the answer to the SUBSCRIBE.       *)
HandshakeInv ==
    /\ state = "notconnected" => told = {} /\ wire = <<>>
    /\ state = "connecting" =>
          /\ told \subseteq {"connect", "connack"}
          /\ Len(wire) = IF "connack" \in told THEN 1 ELSE 0
    /\ state = "subscribing" =>
          /\ "connack" \in told /\ "ping" \notin told
          /\ "suback" \in told <=> \E i \in DOMAIN wire : IsAnswer(wire[i])
          /\ \A i \in DOMAIN wire : IsPublish(i) => \E j \in 1..(i - 1) : IsAnswer(wire[j])
    /\ state \in {"notconnected", "connecting", "subscribing"} => delivered = <<>>

(* How many publishes have been read whole.                                 *)
Received == Len(delivered) + (IF waiting THEN 1 ELSE 0)

(* On the wire is each publish that has been sent and not been read, once   *)
(* and in the order sent.                                                   *)
WireInv ==
    /\ Received <= sent
    /\ \A i \in DOMAIN wire : IsPublish(i) => wire[i].id \in Received + 1..sent
    /\ \A i, j \in DOMAIN wire : IsPublish(i) /\ IsPublish(j) /\ i < j => wire[i].id < wire[j].id
    /\ \A n \in Received + 1..sent : \E i \in DOMAIN wire : IsPublish(i) /\ wire[i].id = n

(* The publish in the register is the next to be handed on, and is handed   *)
(* on before anything more is read.                                         *)
WaitingInv ==
    /\ waiting => state = "ready" /\ step = "write"
    /\ waiting /\ publish # NULL => publish = [id |-> Received, whole |-> TRUE]

(* DeliveredInOrder with what it rests on.                                  *)
OrderInv ==
    /\ sent > 0 => "suback" \in told \/ early
    /\ ~early => /\ DeliveredInOrder /\ WaitingInv
                 /\ state # "error" => HandshakeInv /\ WireInv

(* The silence that the port measures from t is real, as far as it matters. *)
SilenceSince(t) == quiet >= QuietMax \/ quiet >= Elapsed(t)

(* What a poll of READY may be late for the next look at the time.          *)
Late == [write |-> 0, keepalive |-> 1, read |-> 2][step] + (IF polled THEN 0 ELSE 1)

(* The port's timestamps and the silence of the remote.                     *)
SilenceInv ==
    /\ state \in {"connecting", "subscribing"} /\ asked => SilenceSince(since)
    /\ state = "ready" /\ config.numtopics > 0 => SilenceSince(lastrecv)
    /\ state = "ready" /\ config.numtopics > 0 /\ config.keepalive > 0 /\ pc = "run" =>
          /\ quiet <= Elapsed(lastrecv)
          /\ Elapsed(lastrecv) <= 2 * config.keepalive + Late

=============================================================================
