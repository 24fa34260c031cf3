------------------------------ MODULE PacketRead ------------------------------
(***************************************************************************)
(* libmqtt_readpkt: the packet reader shared by the broker's client slots   *)
(* and the remote port, run on a stream of packets whose bytes arrive a few *)
(* at a time.  One action is one turn of the reader's loop.  The caller is  *)
(* the client poll: it calls when the socket is readable, handles a packet  *)
(* that is finished and lends the reader a payload buffer when its pool has *)
(* one.                                                                     *)
(***************************************************************************)
EXTENDS Integers, Sequences, FiniteSetsExt

CONSTANTS
    Streams,      \* what a peer may send
    CounterWidth, \* values of pkt->counter, a uint8_t
    PktRoom,      \* bytes pkt->buffer accounts for
    SinkRoom,     \* bytes a payload buffer accounts for
    PoolBusy,     \* whether other clients ever take the payload buffer
    MayClose      \* whether the peer may close the connection

Byte == 0..255
Word == 65536

ASSUME RoomAssumption ==
    /\ {CounterWidth, PktRoom, SinkRoom} \subseteq Nat \ {0} /\ CounterWidth > 2
    /\ {PoolBusy, MayClose} \subseteq BOOLEAN

VARIABLES
    stream,   \* the packets the peer sends
    arrived,  \* how many of their bytes have reached the socket
    closed,   \* the peer has closed its side
    taken,    \* how many the reader has read
    pc,       \* "out" of a call, "in" one, "dead" after a failed assertion
    ret,      \* the loop's ret
    st,       \* pkt->state
    pos,      \* pkt->pos
    counter,  \* pkt->counter
    type, flags, length, mult,  \* varhdr.common and lenmultiplier
    strlen,   \* the length of the string being read
    head, tail,  \* of pkt->buffer: payload bytes read but not passed on
    free,     \* the pool has a buffer for this client
    have,     \* this client has it
    sunk,     \* payload bytes in it
    finished  \* history: for each packet handled, where it ended and its payload

netVars  == <<stream, arrived, closed>>
hdrVars  == <<type, flags, length, mult>>
sinkVars == <<free, have, sunk>>
bufVars  == <<head, tail>>
vars == <<netVars, taken, pc, ret, st, pos, counter, hdrVars, strlen, bufVars,
          sinkVars, finished>>

CONNECT     == 1
CONNACK     == 2
PUBLISH     == 3
PUBACK      == 4
PUBREC      == 5
PUBREL      == 6
PUBCOMP     == 7
SUBSCRIBE   == 8
SUBACK      == 9
UNSUBSCRIBE == 10
UNSUBACK    == 11
DISCONNECT  == 14

EWOULDBLOCK == -1
EFATAL == -2
EREMOTEDISCONNECTED == -3

(* The states that read one fixed-size field or one string, and the state   *)
(* that each asks for next.                                                 *)
U8Next == [CONNECT_PROTOLEVEL |-> "CONNECT_FLAGS",
           CONNECT_FLAGS |-> "CONNECT_KEEPALIVE",
           CONNACK_FLAGS |-> "CONNACK_RETCODE",
           CONNACK_RETCODE |-> "FINISHED",
           SUBSCRIBE_QOS |-> "SUBSCRIBE_TOPICLEN",
           SUBACK_RESULT |-> "SUBACK_RESULT"]
U16Next == [MSGID |-> "FINISHED",
            CONNECT_PROTOLEN |-> "CONNECT_PROTO",
            CONNECT_KEEPALIVE |-> "CONNECT_CLIENTIDLEN",
            CONNECT_CLIENTIDLEN |-> "CONNECT_CLIENTID",
            SUBSCRIBE_MSGID |-> "SUBSCRIBE_TOPICLEN",
            SUBSCRIBE_TOPICLEN |-> "SUBSCRIBE_TOPICFILTER",
            SUBACK_MSGID |-> "SUBACK_RESULT",
            UNSUBSCRIBE_MSGID |-> "UNSUBSCRIBE_TOPICLEN",
            UNSUBSCRIBE_TOPICLEN |-> "UNSUBSCRIBE_TOPICFILTER",
            PUBLISH_TOPICLEN |-> "PUBLISH_TOPIC",
            PUBLISH_MSGID |-> "PUBLISH_PAYLOAD"]
StringNext == [CONNECT_PROTO |-> {"CONNECT_PROTOLEVEL"},
               CONNECT_CLIENTID |-> {"PUBLISH_PAYLOAD"},
               SUBSCRIBE_TOPICFILTER |-> {"SUBSCRIBE_QOS"},
               UNSUBSCRIBE_TOPICFILTER |-> {"UNSUBSCRIBE_TOPICLEN"},
               PUBLISH_TOPIC |-> {"PUBLISH_MSGID", "PUBLISH_PAYLOAD"}]
LengthStates == {"CONNECT_PROTOLEN", "CONNECT_CLIENTIDLEN", "SUBSCRIBE_TOPICLEN",
                 "UNSUBSCRIBE_TOPICLEN", "PUBLISH_TOPICLEN"}
PublishStates == {"PUBLISH_TOPICLEN", "PUBLISH_TOPIC", "PUBLISH_MSGID",
                  "PUBLISH_PAYLOAD"}
InnerStates == DOMAIN U8Next \cup DOMAIN U16Next \cup DOMAIN StringNext
                   \cup {"PUBLISH_PAYLOAD"}
EndStates == {"FINISHED", "ERROR"}
States == InnerStates \cup EndStates \cup {"IDLE", "TYPE", "LEN"}

(* libmqtt_nextstateafterlen, with len and p the packet's length and pos.   *)
AfterLen(t, len, p) ==
    CASE t = CONNECT -> "CONNECT_PROTOLEN"
      [] t = CONNACK -> "CONNACK_FLAGS"
      [] t = SUBSCRIBE -> "SUBSCRIBE_MSGID"
      [] t = SUBACK -> "SUBACK_MSGID"
      [] t = UNSUBSCRIBE -> "UNSUBSCRIBE_MSGID"
      [] t = PUBLISH -> "PUBLISH_TOPICLEN"
      [] t \in {PUBACK, PUBREC, PUBREL, PUBCOMP, UNSUBACK} -> "MSGID"
      [] OTHER -> IF len = p THEN "FINISHED" ELSE "ERROR"

(* Mutant: the end of the packet is not looked for.                         *)
ReachedBlind(new, p, len) == new

(* changestate: a state inside the packet becomes FINISHED when the packet  *)
(* has no byte left.                                                        *)
Reached(new, p, len) == IF new \in InnerStates /\ p = len THEN "FINISHED" ELSE new

-----------------------------------------------------------------------------
(* What a peer sends: whole packets, as MQTT has them.  Packet i is         *)
(* bytes[starts[i]..ends[i]], with payloads[i] bytes of payload; bytes that *)
(* begin no packet may come before it.  fields[k] says which field of its   *)
(* packet byte k belongs to, named as the state that should read it, and    *)
(* how far into the field it is.  (What follows the client id of a CONNECT  *)
(* has the name of the state that the code asserts on.)                     *)

Wide == {"MSGID", "CONNECT_PROTOLEN", "CONNECT_KEEPALIVE", "CONNECT_CLIENTIDLEN",
         "SUBSCRIBE_MSGID", "SUBSCRIBE_TOPICLEN", "SUBACK_MSGID",
         "UNSUBSCRIBE_MSGID", "UNSUBSCRIBE_TOPICLEN", "PUBLISH_TOPICLEN",
         "PUBLISH_MSGID"}
Text == {"CONNECT_PROTO", "CONNECT_CLIENTID", "SUBSCRIBE_TOPICFILTER",
         "UNSUBSCRIBE_TOPICFILTER", "PUBLISH_TOPIC"}

Order == [CONNECT_PROTOLEN |-> "CONNECT_PROTO", CONNECT_PROTO |-> "CONNECT_PROTOLEVEL",
          CONNECT_PROTOLEVEL |-> "CONNECT_FLAGS", CONNECT_FLAGS |-> "CONNECT_KEEPALIVE",
          CONNECT_KEEPALIVE |-> "CONNECT_CLIENTIDLEN",
          CONNECT_CLIENTIDLEN |-> "CONNECT_CLIENTID", CONNECT_CLIENTID |-> "PUBLISH_PAYLOAD",
          CONNACK_FLAGS |-> "CONNACK_RETCODE", SUBSCRIBE_MSGID |-> "SUBSCRIBE_TOPICLEN",
          SUBSCRIBE_TOPICLEN |-> "SUBSCRIBE_TOPICFILTER",
          SUBSCRIBE_TOPICFILTER |-> "SUBSCRIBE_QOS", SUBSCRIBE_QOS |-> "SUBSCRIBE_TOPICLEN",
          SUBACK_MSGID |-> "SUBACK_RESULT", SUBACK_RESULT |-> "SUBACK_RESULT",
          UNSUBSCRIBE_MSGID |-> "UNSUBSCRIBE_TOPICLEN",
          UNSUBSCRIBE_TOPICLEN |-> "UNSUBSCRIBE_TOPICFILTER",
          UNSUBSCRIBE_TOPICFILTER |-> "UNSUBSCRIBE_TOPICLEN",
          PUBLISH_TOPICLEN |-> "PUBLISH_TOPIC", PUBLISH_MSGID |-> "PUBLISH_PAYLOAD"]

FirstField(t) ==
    CASE t = CONNECT -> "CONNECT_PROTOLEN" [] t = CONNACK -> "CONNACK_FLAGS"
      [] t = PUBLISH -> "PUBLISH_TOPICLEN" [] t = SUBSCRIBE -> "SUBSCRIBE_MSGID"
      [] t = SUBACK -> "SUBACK_MSGID" [] t = UNSUBSCRIBE -> "UNSUBSCRIBE_MSGID"
      [] t \in PUBACK..PUBCOMP \cup {UNSUBACK} -> "MSGID"
      [] OTHER -> "none"

(* The field after this one, in a packet with this first byte.              *)
FieldAfter(name, first) ==
    CASE name = "LEN" -> FirstField(first \div 16)
      [] name = "PUBLISH_TOPIC" ->
            IF (first \div 2) % 4 = 0 THEN "PUBLISH_PAYLOAD" ELSE "PUBLISH_MSGID"
      [] name \in DOMAIN Order -> Order[name]
      [] OTHER -> "none"

Num(m, k) == m.bytes[k - 1] * 256 + m.bytes[k]

FieldEnds(m, k) ==
    LET f == m.fields[k]
    IN  CASE f.name = "LEN" -> m.bytes[k] < 128
          [] f.name \in Wide -> f.nth = 2
          [] f.name \in Text -> f.nth = Num(m, k - f.nth)
          [] OTHER -> f.name # "PUBLISH_PAYLOAD"

(* The number in n bytes of length after the packet's first byte.           *)
Digit(m, k) == m.bytes[k] % 128
LenValue(m, s, n) ==
    (IF n > 0 THEN Digit(m, s + 1) ELSE 0) + (IF n > 1 THEN 128 * Digit(m, s + 2) ELSE 0)
        + (IF n > 2 THEN 16384 * Digit(m, s + 3) ELSE 0)
        + (IF n > 3 THEN 2097152 * Digit(m, s + 4) ELSE 0)

(* A field is ended by its own form, and the packet only with a field.  A   *)
(* string is not empty, except a client id that ends the packet, and its    *)
(* length can be counted.                                                   *)
FieldForm(m, s, e, k) ==
    LET f == m.fields[k]
    IN  /\ f.name \in InnerStates \cup {"LEN"}
        /\ IF FieldEnds(m, k)
           THEN k < e => m.fields[k + 1] =
                            [name |-> FieldAfter(f.name, m.bytes[s]), nth |-> 1]
           ELSE \/ k < e /\ m.fields[k + 1] = [name |-> f.name, nth |-> f.nth + 1]
                \/ k = e /\ f.name = "PUBLISH_PAYLOAD"
        /\ f.name = "LEN" =>
              /\ f.nth = k - s /\ f.nth <= 4
              /\ FieldEnds(m, k) => e = k + LenValue(m, s, f.nth)
        /\ f.name \in LengthStates /\ FieldEnds(m, k) /\ k < e =>
              Num(m, k) \in 1..(CounterWidth - 1)

EndBefore(m, i) == IF i = 1 THEN 0 ELSE m.ends[i - 1]

PacketForm(m, i) ==
    LET s == m.starts[i]
        e == m.ends[i]
    IN  /\ EndBefore(m, i) < s /\ s < e
        /\ \A k \in (EndBefore(m, i) + 1)..(s - 1) :
               m.bytes[k] \div 16 \notin CONNECT..DISCONNECT
        /\ m.bytes[s] \div 16 \in CONNECT..DISCONNECT
        /\ m.fields[s + 1] = [name |-> "LEN", nth |-> 1]
        /\ \A k \in (s + 1)..e :
               /\ FieldForm(m, s, e, k)
               /\ m.bytes[s] \div 16 = PUBLISH
                  /\ m.fields[k] = [name |-> "PUBLISH_PAYLOAD", nth |-> 1]
                    => m.payloads[i] = e - k + 1
        /\ m.fields[e].name # "PUBLISH_PAYLOAD" => m.payloads[i] = 0

ASSUME StreamsAssumption ==
    \A m \in Streams :
        /\ m.bytes \in Seq(Byte)
        /\ m.starts \in Seq(1..Len(m.bytes)) /\ m.ends \in Seq(1..Len(m.bytes))
        /\ Len(m.starts) = Len(m.ends)
        /\ Len(m.bytes) = EndBefore(m, Len(m.ends) + 1)
        /\ m.payloads \in [DOMAIN m.ends -> Nat]
        /\ \A i \in DOMAIN m.ends : PacketForm(m, i)

-----------------------------------------------------------------------------
Init ==
    /\ stream \in Streams
    /\ arrived = 0 /\ closed = FALSE /\ taken = 0
    /\ pc = "out" /\ ret = 0
    /\ st = "IDLE" /\ pos = 0 /\ counter = 0
    /\ type = 0 /\ flags = 0 /\ length = 0 /\ mult = 0 /\ strlen = 0
    /\ head = 0 /\ tail = 0
    /\ free = TRUE /\ have = FALSE /\ sunk = 0
    /\ finished = <<>>

-----------------------------------------------------------------------------
(* The environment: bytes arrive, the peer closes, other clients use the    *)
(* pool.                                                                    *)

Arrive ==
    /\ arrived < Len(stream.bytes) /\ ~closed
    /\ arrived' = arrived + 1
    /\ UNCHANGED <<stream, closed, taken, pc, ret, st, pos, counter, hdrVars,
                   strlen, bufVars, sinkVars, finished>>

Close ==
    /\ MayClose /\ ~closed
    /\ closed' = TRUE
    /\ UNCHANGED <<stream, arrived, taken, pc, ret, st, pos, counter, hdrVars,
                   strlen, bufVars, sinkVars, finished>>

OthersTake ==
    /\ PoolBusy /\ pc = "out" /\ free /\ ~have
    /\ free' = FALSE
    /\ UNCHANGED <<netVars, taken, pc, ret, st, pos, counter, hdrVars, strlen,
                   bufVars, have, sunk, finished>>

OthersFree ==
    /\ pc = "out" /\ ~free /\ ~have
    /\ free' = TRUE
    /\ UNCHANGED <<netVars, taken, pc, ret, st, pos, counter, hdrVars, strlen,
                   bufVars, have, sunk, finished>>

-----------------------------------------------------------------------------
(* libmqtt_readpkt is called when readytoread holds; a packet that ended is *)
(* cleared first.                                                           *)
Readable == arrived > taken \/ closed

Call ==
    /\ pc = "out" /\ Readable
    /\ pc' = "in" /\ ret' = 0
    /\ IF st \in EndStates
       THEN /\ st' = "IDLE" /\ pos' = 0 /\ counter' = 0
            /\ type' = 0 /\ flags' = 0 /\ length' = 0 /\ mult' = 0 /\ strlen' = 0
            /\ head' = 0 /\ tail' = 0
       ELSE UNCHANGED <<st, pos, counter, hdrVars, strlen, bufVars>>
    /\ UNCHANGED <<netVars, taken, sinkVars, finished>>

Looping == pc = "in" /\ ret >= 0 /\ st \notin EndStates

(* The read of a single byte fails.  PUBLISH_TOPICLEN alone drops the       *)
(* error, so there the loop goes round.                                     *)
NoByte == IF closed THEN EREMOTEDISCONNECTED ELSE EWOULDBLOCK

Starved ==
    /\ Looping /\ arrived = taken
    /\ st \notin {"IDLE", "PUBLISH_PAYLOAD"}
    /\ st \in PublishStates => type = PUBLISH
    /\ ret' = IF st = "PUBLISH_TOPICLEN" THEN 0 ELSE NoByte
    /\ UNCHANGED <<netVars, taken, pc, st, pos, counter, hdrVars, strlen,
                   bufVars, sinkVars, finished>>

(* One byte is read in a state of S: libmqtt_readpkt_read.                  *)
Takes(S) ==
    /\ Looping /\ st \in S /\ arrived > taken
    /\ st \in PublishStates => type = PUBLISH
    /\ taken' = taken + 1
    /\ pos' = pos + 1
    /\ ret' = 1
    /\ UNCHANGED <<netVars, pc, bufVars, sinkVars, finished>>
NewByte == stream.bytes[taken + 1]
Count   == (counter + 1) % CounterWidth

MoveTo(new) == st' = Reached(new, pos + 1, length) /\ counter' = 0
Stay        == counter' = Count /\ UNCHANGED st

Idle ==
    /\ Looping /\ st = "IDLE"
    /\ st' = "TYPE" /\ counter' = 0 /\ ret' = 0
    /\ UNCHANGED <<netVars, taken, pc, pos, hdrVars, strlen, bufVars, sinkVars,
                   finished>>

(* Mutant: the type byte is not counted in the length.                      *)
ReadTypeShort ==
    /\ Takes({"TYPE"})
    /\ type' = NewByte \div 16 /\ flags' = NewByte % 16
    /\ length' = 0 /\ mult' = 1
    /\ st' = "LEN" /\ counter' = 0
    /\ UNCHANGED strlen

ReadType ==
    /\ Takes({"TYPE"})
    /\ type' = NewByte \div 16
    /\ IF type' \in CONNECT..DISCONNECT
       THEN flags' = NewByte % 16 /\ length' = 1 /\ mult' = 1 /\ st' = "LEN"
       ELSE UNCHANGED <<flags, length, mult>> /\ st' = "ERROR"
    /\ counter' = 0
    /\ UNCHANGED strlen

ReadLen ==
    /\ Takes({"LEN"})
    /\ length' = length + 1 + (NewByte % 128) * mult
    /\ mult' = mult * 128
    /\ IF NewByte < 128
       THEN /\ st' = Reached(AfterLen(type, length', pos + 1), pos + 1, length')
            /\ counter' = 0
       ELSE Stay
    /\ UNCHANGED <<type, flags, strlen>>

ReadU8 ==
    /\ Takes(DOMAIN U8Next)
    /\ MoveTo(U8Next[st])
    /\ UNCHANGED <<hdrVars, strlen>>

ReadU16 ==
    /\ Takes(DOMAIN U16Next)
    /\ IF st \in LengthStates THEN strlen' = (strlen * 256 + NewByte) % Word
                              ELSE UNCHANGED strlen
    /\ IF Count = 2 THEN MoveTo(U16Next[st]) ELSE Stay
    /\ UNCHANGED hdrVars

(* A string ends where the counter, a byte, equals its length, 16 bits.     *)
ReadString ==
    /\ Takes(DOMAIN StringNext)
    /\ IF Count = strlen
       THEN \E new \in StringNext[st] :
               /\ st = "PUBLISH_TOPIC" =>
                    (new = "PUBLISH_MSGID" <=> (flags \div 2) % 4 # 0)
               /\ MoveTo(new)
       ELSE Stay
    /\ UNCHANGED <<hdrVars, strlen>>

(* assert(type == PUBLISH) at the top of publishstates.                     *)
AssertFails ==
    /\ Looping /\ st \in PublishStates /\ type # PUBLISH
    /\ pc' = "dead"
    /\ UNCHANGED <<netVars, taken, ret, st, pos, counter, hdrVars, strlen,
                   bufVars, sinkVars, finished>>

(* PUBLISH_PAYLOAD: fill pkt->buffer from the socket, then flush it to the  *)
(* payload buffer.  pos counts what was flushed.  A fill that fails comes   *)
(* out before the flush.                                                    *)
Remaining == (length - pos) - (head - tail)
FillWanted == Remaining > 0 /\ PktRoom > head
Filled == IF FillWanted THEN Min({PktRoom - head, Remaining, arrived - taken}) ELSE 0
Lent    == have \/ free
Flushed == IF Lent THEN Min({SinkRoom - sunk, head + Filled - tail}) ELSE 0

PayloadStarved ==
    /\ Looping /\ st = "PUBLISH_PAYLOAD" /\ type = PUBLISH
    /\ FillWanted /\ arrived = taken
    /\ ret' = NoByte
    /\ UNCHANGED <<netVars, taken, pc, st, pos, counter, hdrVars, strlen,
                   bufVars, sinkVars, finished>>

(* Mutant: pos counts what was read from the socket.                        *)
PosAfterFill(p, filled, flushed) == p + filled
PosAfter(p, filled, flushed) == p + flushed

Payload ==
    /\ Looping /\ st = "PUBLISH_PAYLOAD" /\ type = PUBLISH
    /\ FillWanted => arrived > taken
    /\ taken' = taken + Filled
    /\ IF tail + Flushed = head + Filled
       THEN head' = 0 /\ tail' = 0
       ELSE head' = head + Filled /\ tail' = tail + Flushed
    /\ have' = Lent /\ sunk' = sunk + Flushed /\ free' = (free /\ ~have')
    /\ ret' = IF Lent THEN Flushed ELSE EWOULDBLOCK
    /\ pos' = PosAfter(pos, Filled, Flushed)
    /\ st' = Reached("PUBLISH_PAYLOAD", pos', length) /\ counter' = 0
    /\ UNCHANGED <<netVars, pc, hdrVars, strlen, finished>>

(* The loop is left.  A fatal error is the ERROR state; a finished packet   *)
(* is handled, which gives the payload buffer back.                         *)
Return ==
    /\ pc = "in" /\ ~(ret >= 0 /\ st \notin EndStates)
    /\ pc' = "out"
    /\ st' = IF ret <= EFATAL THEN "ERROR" ELSE st
    /\ IF st = "FINISHED"
       THEN /\ finished' = Append(finished, [end |-> taken, payload |-> sunk])
            /\ free' = (free \/ have) /\ have' = FALSE /\ sunk' = 0
       ELSE UNCHANGED <<sinkVars, finished>>
    /\ counter' = IF ret <= EFATAL THEN 0 ELSE counter
    /\ UNCHANGED <<netVars, taken, ret, pos, hdrVars, strlen, bufVars>>

-----------------------------------------------------------------------------
Turn == \/ Idle \/ Starved \/ ReadType \/ ReadLen \/ ReadU8 \/ ReadU16
        \/ ReadString \/ AssertFails \/ PayloadStarved \/ Payload \/ Return

Next == Arrive \/ Close \/ OthersTake \/ OthersFree \/ Call \/ Turn

Spec == Init /\ [][Next]_vars

(* The poll calls again as long as the socket is readable and a call goes   *)
(* on by itself; other clients do give the pool's buffer back.  The peer    *)
(* need not send.                                                           *)
FairSpec == Spec /\ WF_vars(Call) /\ WF_vars(Turn) /\ WF_vars(OthersFree)

-----------------------------------------------------------------------------
(* Properties.                                                              *)

Typed ==
    /\ stream \in Streams /\ arrived \in 0..Len(stream.bytes)
    /\ closed \in BOOLEAN /\ taken \in 0..arrived
    /\ pc \in {"in", "out", "dead"} /\ ret \in Int
    /\ st \in States /\ pos \in Nat /\ counter \in 0..(CounterWidth - 1)
    /\ type \in 0..15 /\ flags \in 0..15 /\ length \in Nat /\ mult \in Nat
    /\ strlen \in 0..(Word - 1)
    /\ head \in 0..PktRoom /\ tail \in 0..head
    /\ free \in BOOLEAN /\ have \in BOOLEAN /\ sunk \in 0..SinkRoom

(* Every variable has its type, and inside a packet the bytes read from it  *)
(* are those passed on and those held in pkt->buffer, never beyond its end. *)
TypeOK ==
    /\ Typed
    /\ st \in InnerStates => pos + (head - tail) <= length

(* However the bytes of several packets arrive, the reader ends each where  *)
(* the peer ended it: no byte of one packet is read as part of the next.    *)
Framing ==
    \A i \in DOMAIN finished : /\ i \in DOMAIN stream.ends
                               /\ finished[i].end = stream.ends[i]

(* A publish is handled with its whole payload in the payload buffer, and   *)
(* nothing else in it, though it waited for a buffer or came in pieces.     *)
PayloadWhole ==
    \A i \in DOMAIN finished : finished[i].payload = stream.payloads[i]

(* Once all bytes have arrived every packet gets handled.                   *)
AllHandled ==
    arrived = Len(stream.bytes) ~> Len(finished) = Len(stream.ends)

-----------------------------------------------------------------------------
(* Inductive invariants: what the properties above rest on.                 *)

(* The packet that is being read, or that comes next.                       *)
Current  == Len(finished) + 1
Start    == stream.starts[Current]
End      == stream.ends[Current]
(* Nothing will ever arrive again.                                          *)
Cut == closed /\ arrived = taken

(* The packets that were handled are the first of the stream.               *)
HandledInv ==
    /\ finished \in Seq([end : Nat, payload : Nat])
    /\ \A i \in DOMAIN finished :
          /\ i \in DOMAIN stream.ends
          /\ finished[i] = [end |-> stream.ends[i], payload |-> stream.payloads[i]]

(* Between packets, or in the bytes before one that begin none.             *)
Between ==
    /\ sunk = 0
    /\ \/ Current \in DOMAIN stream.ends /\ taken \in EndBefore(stream, Current)..(Start - 1)
       \/ Current = Len(stream.ends) + 1 /\ taken = Len(stream.bytes)

FirstByte == type = stream.bytes[Start] \div 16 /\ flags = stream.bytes[Start] % 16

(* In the length: what it is so far.                                        *)
InLength ==
    /\ Current \in DOMAIN stream.ends /\ FirstByte
    /\ pos \in 1..4 /\ taken = Start + pos - 1 /\ taken < End
    /\ stream.fields[taken + 1] = [name |-> "LEN", nth |-> pos]
    /\ length = pos + LenValue(stream, Start, pos - 1)
    /\ mult = <<1, 128, 16384, 2097152>>[pos]
    /\ head = 0 /\ tail = 0 /\ sunk = 0

(* In a field: the reader is where the packet is, byte for byte.            *)
AtField ==
    /\ head = 0 /\ tail = 0 /\ sunk = 0 /\ taken < End
    /\ stream.fields[taken + 1] = [name |-> st, nth |-> counter + 1]
    /\ st \in Wide => counter < 2
    /\ st \in LengthStates /\ counter = 1 => strlen % 256 = stream.bytes[taken]
    /\ st \in Text => /\ counter < strlen /\ strlen < CounterWidth
                      /\ strlen = Num(stream, taken - counter)

InBody ==
    /\ Current \in DOMAIN stream.ends /\ FirstByte
    /\ length = End - Start + 1 /\ pos < length
    /\ taken \in (Start + 1)..End /\ pos + (head - tail) = taken - Start + 1
    /\ IF st # "PUBLISH_PAYLOAD" THEN AtField
       ELSE type = PUBLISH => sunk = pos - (length - stream.payloads[Current])

AtEnd == Current \in DOMAIN stream.ends /\ taken = End /\ sunk = stream.payloads[Current] /\ ret >= 0

PlaceInv ==
    /\ st = "LEN" => InLength
    /\ st \in InnerStates => InBody
    /\ st = "FINISHED" /\ pc # "out" => AtEnd
    /\ st \in {"IDLE", "TYPE", "ERROR"} \/ (st = "FINISHED" /\ pc = "out") => Cut \/ Between

(* At every byte the reader is where the packet is.                         *)
ReadInv ==
    /\ HandledInv /\ PlaceInv
    /\ ret <= EFATAL => Cut
    /\ st \in {"IDLE", "TYPE"} => pos = 0 /\ head = 0 /\ tail = 0

=============================================================================
