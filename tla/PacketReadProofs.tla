-------------------------- MODULE PacketReadProofs --------------------------
(***************************************************************************)
(* Proofs about PacketRead, for any streams of whole packets, any sizes of  *)
(* the buffers and any way the bytes arrive: the reader ends each packet    *)
(* where it ends, with its whole payload.                                   *)
(***************************************************************************)
EXTENDS PacketRead, TLAPS

IInv == Typed /\ ReadInv

-----------------------------------------------------------------------------
(* The packets of a stream.                                                 *)

(* The bounds of a packet.                                                  *)
LEMMA PacketBounds ==
    ASSUME NEW m \in Streams, NEW i \in DOMAIN m.ends
    PROVE  /\ i \in Nat \ {0} /\ i <= Len(m.ends) /\ Len(m.ends) \in Nat
           /\ Len(m.bytes) \in Nat
           /\ m.starts[i] \in Nat /\ m.ends[i] \in Nat /\ EndBefore(m, i) \in Nat
           /\ EndBefore(m, i) < m.starts[i] /\ m.starts[i] < m.ends[i]
           /\ m.ends[i] <= Len(m.bytes)
           /\ m.payloads[i] \in Nat
           /\ PacketForm(m, i)
<1>1. /\ m.bytes \in Seq(Byte)
      /\ m.starts \in Seq(1..Len(m.bytes)) /\ m.ends \in Seq(1..Len(m.bytes))
      /\ Len(m.starts) = Len(m.ends)
      /\ m.payloads \in [DOMAIN m.ends -> Nat]
      /\ PacketForm(m, i)
  BY StreamsAssumption
<1> DEFINE b == m.bytes
           ss == m.starts
           ee == m.ends
<1>2. /\ Len(b) \in Nat /\ Len(ee) \in Nat
      /\ DOMAIN ee = 1..Len(ee) /\ DOMAIN ss = 1..Len(ss)
      /\ \A j \in DOMAIN ee : ee[j] \in 1..Len(b)
      /\ \A j \in DOMAIN ss : ss[j] \in 1..Len(b)
  <2>1. b \in Seq(Byte) /\ ss \in Seq(1..Len(b)) /\ ee \in Seq(1..Len(b)) BY <1>1
  <2> HIDE DEF b, ss, ee
  <2> QED BY <2>1
<1>3. /\ i \in Nat \ {0} /\ i <= Len(ee) /\ i \in DOMAIN ss /\ ee[i] \in 1..Len(b)
      /\ ss[i] \in 1..Len(b)
  <2>1. DOMAIN ss = DOMAIN ee BY <1>1, <1>2
  <2>2. i \in 1..Len(ee) BY <1>2
  <2> HIDE DEF b, ss, ee
  <2> QED BY <1>2, <2>1, <2>2
<1>4. EndBefore(m, i) \in Nat
  <2>1. CASE i = 1 BY <2>1 DEF EndBefore
  <2>2. CASE i # 1
    <3>1. i - 1 \in DOMAIN ee BY <1>2, <1>3, <2>2
    <3>2. ee[i - 1] \in Nat BY <1>2, <3>1
    <3> QED BY <2>2, <3>2 DEF EndBefore
  <2> QED BY <2>1, <2>2
<1>5. EndBefore(m, i) < m.starts[i] /\ m.starts[i] < m.ends[i]
  BY <1>1 DEF PacketForm
<1> QED BY <1>1, <1>2, <1>3, <1>4, <1>5

(* The stream ends with its last packet; the bytes are bytes.               *)
LEMMA StreamBounds ==
    ASSUME NEW m \in Streams
    PROVE  /\ Len(m.ends) \in Nat /\ Len(m.bytes) \in Nat
           /\ DOMAIN m.ends = 1..Len(m.ends)
           /\ EndBefore(m, Len(m.ends) + 1) = Len(m.bytes)
           /\ \A k \in 1..Len(m.bytes) : m.bytes[k] \in 0..255
<1>1. /\ m.bytes \in Seq(Byte) /\ m.ends \in Seq(1..Len(m.bytes))
      /\ Len(m.bytes) = EndBefore(m, Len(m.ends) + 1)
  BY StreamsAssumption
<1> DEFINE b == m.bytes
           ee == m.ends
<1>2. /\ Len(b) \in Nat /\ Len(ee) \in Nat /\ DOMAIN ee = 1..Len(ee)
      /\ \A k \in 1..Len(b) : b[k] \in 0..255
  <2>1. b \in Seq(Byte) /\ ee \in Seq(1..Len(b)) BY <1>1
  <2> HIDE DEF b, ee
  <2>2. /\ Len(b) \in Nat /\ Len(ee) \in Nat /\ DOMAIN ee = 1..Len(ee) /\ DOMAIN b = 1..Len(b)
        /\ \A k \in 1..Len(b) : b[k] \in Byte
    BY <2>1
  <2> QED BY <2>2 DEF Byte
<1> QED BY <1>1, <1>2

(* Where one packet ends the next may begin.                                *)
LEMMA NextBefore ==
    ASSUME NEW m \in Streams, NEW i \in DOMAIN m.ends
    PROVE  /\ EndBefore(m, i + 1) = m.ends[i]
           /\ i + 1 \in DOMAIN m.ends \/ i + 1 = Len(m.ends) + 1
<1>1. i \in Nat \ {0} /\ i <= Len(m.ends) /\ Len(m.ends) \in Nat BY PacketBounds
<1>2. DOMAIN m.ends = 1..Len(m.ends) BY StreamBounds
<1> QED BY <1>1, <1>2 DEF EndBefore

(* A byte after the first has a field of its packet, and what follows in    *)
(* the packet is a field too.                                               *)
LEMMA FieldsOfPacket ==
    ASSUME NEW m \in Streams, NEW i \in DOMAIN m.ends, NEW k \in Int,
           m.starts[i] < k, k <= m.ends[i]
    PROVE  /\ FieldForm(m, m.starts[i], m.ends[i], k)
           /\ m.fields[k].name \in InnerStates \cup {"LEN"}
           /\ m.bytes[m.starts[i]] \div 16 = PUBLISH
              /\ m.fields[k] = [name |-> "PUBLISH_PAYLOAD", nth |-> 1]
                => m.payloads[i] = m.ends[i] - k + 1
           /\ k < m.ends[i] /\ FieldEnds(m, k) =>
                LET f == FieldAfter(m.fields[k].name, m.bytes[m.starts[i]])
                IN  m.fields[k + 1] = [name |-> f, nth |-> 1] /\ f \in InnerStates \cup {"LEN"}
<1>1. PacketForm(m, i) /\ m.starts[i] \in Nat /\ m.ends[i] \in Nat BY PacketBounds
<1>2. \A j \in (m.starts[i] + 1)..m.ends[i] :
         /\ FieldForm(m, m.starts[i], m.ends[i], j)
         /\ m.bytes[m.starts[i]] \div 16 = PUBLISH
            /\ m.fields[j] = [name |-> "PUBLISH_PAYLOAD", nth |-> 1]
              => m.payloads[i] = m.ends[i] - j + 1
  BY <1>1 DEF PacketForm
<1>3. k \in (m.starts[i] + 1)..m.ends[i] BY <1>1
<1>4. \A j \in (m.starts[i] + 1)..m.ends[i] : m.fields[j].name \in InnerStates \cup {"LEN"}
  BY <1>2 DEF FieldForm
<1>5. ASSUME k < m.ends[i], FieldEnds(m, k)
      PROVE  LET f == FieldAfter(m.fields[k].name, m.bytes[m.starts[i]])
             IN  m.fields[k + 1] = [name |-> f, nth |-> 1] /\ f \in InnerStates \cup {"LEN"}
  <2> DEFINE f == FieldAfter(m.fields[k].name, m.bytes[m.starts[i]])
  <2>1. m.fields[k + 1] = [name |-> f, nth |-> 1] BY <1>2, <1>3, <1>5 DEF FieldForm
  <2>2. k + 1 \in (m.starts[i] + 1)..m.ends[i] BY <1>1, <1>5
  <2>3. m.fields[k + 1].name \in InnerStates \cup {"LEN"} BY <1>4, <2>2
  <2> HIDE DEF f
  <2>4. m.fields[k + 1].name = f BY <2>1
  <2> QED BY <2>1, <2>3, <2>4 DEF f
<1> QED BY <1>2, <1>3, <1>4, <1>5

-----------------------------------------------------------------------------
(* The reader's tables ask for the fields in the order of the packets.      *)

(* The states that read two bytes, a string and one byte.                   *)
LEMMA FieldClasses ==
    /\ DOMAIN U16Next = Wide /\ DOMAIN StringNext = Text
    /\ LengthStates \subseteq Wide
    /\ \A f \in DOMAIN U8Next : f \notin Wide /\ f \notin Text /\ f # "LEN" /\ f # "PUBLISH_PAYLOAD"
    /\ \A f \in Wide : f \notin Text /\ f # "LEN" /\ f # "PUBLISH_PAYLOAD"
    /\ \A f \in Text : f # "LEN" /\ f # "PUBLISH_PAYLOAD"
    /\ InnerStates = DOMAIN U8Next \cup Wide \cup Text \cup {"PUBLISH_PAYLOAD"}
    /\ \A f \in InnerStates : f \notin {"IDLE", "TYPE", "LEN", "FINISHED", "ERROR"}
  BY DEF U16Next, Wide, StringNext, Text, LengthStates, U8Next, InnerStates

(* After a field of one byte the reader's table asks for the field that     *)
(* MQTT has next.                                                           *)
LEMMA OneByteAgrees ==
    ASSUME NEW f \in DOMAIN U8Next, NEW b
    PROVE  /\ U8Next[f] \in InnerStates \cup {"FINISHED"}
           /\ FieldAfter(f, b) \in InnerStates \cup {"LEN"} => U8Next[f] = FieldAfter(f, b)
           /\ FieldAfter(f, b) \notin Text
  BY DEF U8Next, FieldAfter, Order, InnerStates, U16Next, StringNext, Text

(* The same after a field of two bytes.                                     *)
LEMMA TwoBytesAgree ==
    ASSUME NEW f \in Wide, NEW b
    PROVE  /\ U16Next[f] \in InnerStates \cup {"FINISHED"}
           /\ FieldAfter(f, b) \in InnerStates \cup {"LEN"} => U16Next[f] = FieldAfter(f, b)
           /\ FieldAfter(f, b) \in Text => f \in LengthStates
  BY DEF U8Next, FieldAfter, Order, InnerStates, U16Next, StringNext, Text, Wide, LengthStates

(* The same after a string.                                                 *)
LEMMA StringAgrees ==
    ASSUME NEW f \in Text, NEW b \in 0..255, NEW new \in StringNext[f],
           f = "PUBLISH_TOPIC" => (new = "PUBLISH_MSGID" <=> ((b % 16) \div 2) % 4 # 0)
    PROVE  /\ new \in InnerStates
           /\ FieldAfter(f, b) \in InnerStates \cup {"LEN"} => new = FieldAfter(f, b)
           /\ FieldAfter(f, b) \notin Text
<1>1. ((b % 16) \div 2) % 4 = (b \div 2) % 4 OBVIOUS
<1>2. new \in InnerStates BY DEF StringNext, Text, InnerStates, U8Next, U16Next
<1>3. CASE f = "PUBLISH_TOPIC"
  <2>1. new \in {"PUBLISH_MSGID", "PUBLISH_PAYLOAD"} BY <1>3 DEF StringNext
  <2>2. FieldAfter(f, b) = IF (b \div 2) % 4 = 0 THEN "PUBLISH_PAYLOAD" ELSE "PUBLISH_MSGID"
    BY <1>3, SMT DEF FieldAfter, Order
  <2> QED BY <1>1, <1>2, <1>3, <2>1, <2>2 DEF Text
<1>4. CASE f # "PUBLISH_TOPIC"
  BY <1>2, <1>4 DEF StringNext, FieldAfter, Order, Text
<1> QED BY <1>3, <1>4

(* The same after the remaining length, by the packet's type.               *)
LEMMA LengthAgrees ==
    ASSUME NEW t \in CONNECT..DISCONNECT, NEW len, NEW p
    PROVE  /\ FirstField(t) \in InnerStates \cup {"LEN"} =>
                AfterLen(t, len, p) = FirstField(t) /\ FirstField(t) \in InnerStates
           /\ FirstField(t) \notin Text /\ FirstField(t) # "PUBLISH_PAYLOAD"
           /\ AfterLen(t, len, p) \in InnerStates \/ AfterLen(t, len, p) = IF len = p THEN "FINISHED" ELSE "ERROR"
<1>1. t \in {1, 2, 3, 4, 5, 6, 7, 8, 9, 10, 11, 12, 13, 14} BY DEF CONNECT, DISCONNECT
<1> USE DEF CONNECT, CONNACK, PUBLISH, PUBACK, PUBREC, PUBREL, PUBCOMP, SUBSCRIBE, SUBACK,
            UNSUBSCRIBE, UNSUBACK
<1>2. /\ t \in {1, 2, 3, 4, 5, 6, 7, 8, 9, 10, 11} =>
            AfterLen(t, len, p) = FirstField(t) /\ FirstField(t) # "none"
      /\ t \in {12, 13, 14} => /\ AfterLen(t, len, p) = IF len = p THEN "FINISHED" ELSE "ERROR"
                              /\ FirstField(t) = "none"
  <2>1. /\ t = 1 => FirstField(t) = "CONNECT_PROTOLEN" /\ AfterLen(t, len, p) = "CONNECT_PROTOLEN"
        /\ t = 2 => FirstField(t) = "CONNACK_FLAGS" /\ AfterLen(t, len, p) = "CONNACK_FLAGS"
        /\ t = 3 => FirstField(t) = "PUBLISH_TOPICLEN" /\ AfterLen(t, len, p) = "PUBLISH_TOPICLEN"
        /\ t = 8 => FirstField(t) = "SUBSCRIBE_MSGID" /\ AfterLen(t, len, p) = "SUBSCRIBE_MSGID"
        /\ t = 9 => FirstField(t) = "SUBACK_MSGID" /\ AfterLen(t, len, p) = "SUBACK_MSGID"
        /\ t = 10 => FirstField(t) = "UNSUBSCRIBE_MSGID" /\ AfterLen(t, len, p) = "UNSUBSCRIBE_MSGID"
    BY DEF FirstField, AfterLen
  <2>2. t \in {4, 5, 6, 7, 11} => FirstField(t) = "MSGID" /\ AfterLen(t, len, p) = "MSGID"
    <3>1. ASSUME t \in {4, 5, 6, 7, 11} PROVE t \in 4..7 \cup {11} /\ t \notin {1, 2, 3, 8, 9, 10}
      BY <3>1
    <3> QED BY <3>1 DEF FirstField, AfterLen
  <2>3. t \in {12, 13, 14} => /\ FirstField(t) = "none"
                              /\ AfterLen(t, len, p) = IF len = p THEN "FINISHED" ELSE "ERROR"
    <3>1. ASSUME t \in {12, 13, 14}
          PROVE  t \notin 4..7 \cup {11} /\ t \notin {1, 2, 3, 8, 9, 10} /\ t \notin {4, 5, 6, 7, 11}
      BY <3>1
    <3> QED BY <3>1 DEF FirstField, AfterLen
  <2> QED BY <1>1, <2>1, <2>2, <2>3
<1>3. FirstField(t) \in {"none", "CONNECT_PROTOLEN", "CONNACK_FLAGS", "PUBLISH_TOPICLEN",
                        "SUBSCRIBE_MSGID", "SUBACK_MSGID", "UNSUBSCRIBE_MSGID", "MSGID"}
  BY DEF FirstField
<1>4. FirstField(t) \notin Text /\ FirstField(t) # "PUBLISH_PAYLOAD" /\ "none" \notin InnerStates \cup {"LEN"}
      /\ (FirstField(t) # "none" => FirstField(t) \in InnerStates)
  BY <1>3 DEF InnerStates, U8Next, U16Next, StringNext, Text
<1> QED BY <1>1, <1>2, <1>4

-----------------------------------------------------------------------------
(* Where the reader is.                                                     *)

(* The sizes of the buffers and of the counter are positive.                *)
LEMMA Sizes ==
    /\ CounterWidth \in Nat /\ CounterWidth > 2
    /\ PktRoom \in Nat /\ PktRoom > 0 /\ SinkRoom \in Nat /\ SinkRoom > 0
  BY RoomAssumption

(* A string's length is a natural number.                                   *)
LEMMA StringSize == Typed => strlen \in Nat
<1> SUFFICES ASSUME Typed PROVE strlen \in Nat
  OBVIOUS
<1>1. strlen \in 0..(Word - 1) BY DEF Typed
<1>2. Word \in Nat BY DEF Word
<1> QED BY <1>1, <1>2

(* What is counted in bytes is a natural number, and nothing is taken that  *)
(* has not arrived.                                                         *)
LEMMA Counts ==
    ASSUME Typed
    PROVE  /\ stream \in Streams /\ Len(stream.bytes) \in Nat /\ Len(stream.ends) \in Nat
           /\ arrived \in Nat /\ arrived <= Len(stream.bytes)
           /\ taken \in Nat /\ taken <= arrived
           /\ pos \in Nat /\ length \in Nat /\ counter \in Nat /\ counter < CounterWidth
           /\ head \in Nat /\ tail \in Nat /\ tail <= head /\ head <= PktRoom
           /\ sunk \in Nat /\ sunk <= SinkRoom
           /\ DOMAIN stream.ends = 1..Len(stream.ends)
           /\ arrived > taken => NewByte \in 0..255
<1>1. stream \in Streams BY DEF Typed
<1>2. /\ Len(stream.bytes) \in Nat /\ Len(stream.ends) \in Nat
      /\ DOMAIN stream.ends = 1..Len(stream.ends)
      /\ \A k \in 1..Len(stream.bytes) : stream.bytes[k] \in 0..255
  BY <1>1, StreamBounds
<1>3. arrived \in 0..Len(stream.bytes) /\ taken \in 0..arrived BY DEF Typed
<1>4. arrived > taken => taken + 1 \in 1..Len(stream.bytes) BY <1>2, <1>3
<1>5. /\ pos \in Nat /\ length \in Nat /\ counter \in 0..(CounterWidth - 1)
      /\ head \in 0..PktRoom /\ tail \in 0..head /\ sunk \in 0..SinkRoom
  BY DEF Typed
<1>6. arrived > taken => NewByte \in 0..255 BY <1>2, <1>4 DEF NewByte
<1> QED BY <1>1, <1>2, <1>3, <1>5, <1>6, Sizes

(* The packet under way lies between the end of the one before it and its   *)
(* own.                                                                     *)
LEMMA Here ==
    ASSUME Typed, Current \in DOMAIN stream.ends
    PROVE  /\ Current \in Nat /\ Start \in Nat /\ End \in Nat
           /\ EndBefore(stream, Current) \in Nat
           /\ EndBefore(stream, Current) < Start /\ Start < End /\ End <= Len(stream.bytes)
           /\ stream.payloads[Current] \in Nat
           /\ stream.bytes[Start] \in 0..255
           /\ PacketForm(stream, Current)
<1>1. stream \in Streams BY DEF Typed
<1>2. /\ Current \in Nat /\ stream.starts[Current] \in Nat /\ stream.ends[Current] \in Nat
      /\ EndBefore(stream, Current) \in Nat /\ stream.payloads[Current] \in Nat
      /\ EndBefore(stream, Current) < stream.starts[Current]
      /\ stream.starts[Current] < stream.ends[Current]
      /\ stream.ends[Current] <= Len(stream.bytes)
      /\ Len(stream.bytes) \in Nat
      /\ PacketForm(stream, Current)
  BY <1>1, PacketBounds
<1>3. stream.starts[Current] \in 1..Len(stream.bytes) BY <1>2
<1>4. stream.bytes[stream.starts[Current]] \in 0..255 BY <1>1, <1>3, StreamBounds
<1> QED BY <1>2, <1>4 DEF Start, End

(* As long as no packet is handled, the current one is the same.            *)
LEMMA SamePacket ==
    ASSUME UNCHANGED <<stream, finished>>
    PROVE  /\ Current' = Current /\ Start' = Start /\ End' = End
           /\ EndBefore(stream, Current)' = EndBefore(stream, Current)
           /\ HandledInv => HandledInv'
  BY DEF Current, Start, End, HandledInv, EndBefore

(* The least of two numbers and of three.                                   *)
LEMMA LeastOf ==
    ASSUME NEW a \in Int, NEW b \in Int, NEW c \in Int
    PROVE  /\ Min({a, b}) \in Int /\ Min({a, b}) <= a /\ Min({a, b}) <= b /\ Min({a, b}) \in {a, b}
           /\ Min({a, b, c}) \in Int /\ Min({a, b, c}) <= a /\ Min({a, b, c}) <= b
           /\ Min({a, b, c}) <= c /\ Min({a, b, c}) \in {a, b, c}
<1>1. \E x \in {a, b} : \A y \in {a, b} : x <= y
  <2>1. CASE a <= b BY <2>1
  <2>2. CASE ~(a <= b) BY <2>2
  <2> QED BY <2>1, <2>2
<1>2. \E x \in {a, b, c} : \A y \in {a, b, c} : x <= y
  <2>1. CASE a <= b /\ a <= c BY <2>1
  <2>2. CASE b <= a /\ b <= c BY <2>2
  <2>3. CASE c <= a /\ c <= b BY <2>3
  <2> QED BY <2>1, <2>2, <2>3
<1>3. Min({a, b}) \in {a, b} /\ \A y \in {a, b} : Min({a, b}) <= y BY <1>1 DEF Min
<1>4. Min({a, b, c}) \in {a, b, c} /\ \A y \in {a, b, c} : Min({a, b, c}) <= y BY <1>2 DEF Min
<1> QED BY <1>3, <1>4

(* What a turn of the payload's fill and flush moves.                       *)
LEMMA Moved ==
    ASSUME Typed, InBody
    PROVE  /\ Filled \in Nat /\ Filled <= arrived - taken /\ Filled <= End - taken
           /\ head + Filled <= PktRoom
           /\ Flushed \in Nat /\ Flushed <= SinkRoom - sunk /\ Flushed <= head + Filled - tail
           /\ ~Lent => Flushed = 0
<1>1. Current \in DOMAIN stream.ends BY DEF InBody
<1>2. /\ Start \in Nat /\ End \in Nat /\ Start < End
      /\ arrived \in Nat /\ taken \in Nat /\ taken <= arrived
      /\ pos \in Nat /\ length \in Nat /\ head \in Nat /\ tail \in Nat /\ tail <= head
      /\ head <= PktRoom /\ PktRoom \in Nat /\ SinkRoom \in Nat /\ sunk \in Nat /\ sunk <= SinkRoom
  BY <1>1, Here, Counts, Sizes
<1>3. length = End - Start + 1 /\ pos + (head - tail) = taken - Start + 1 /\ taken <= End
  <2>1. taken \in (Start + 1)..End /\ length = End - Start + 1
        /\ pos + (head - tail) = taken - Start + 1
    BY DEF InBody
  <2> QED BY <1>2, <2>1
<1>4. Remaining = End - taken BY <1>2, <1>3 DEF Remaining
<1>5. /\ Filled \in Nat /\ Filled <= arrived - taken /\ Filled <= End - taken
      /\ head + Filled <= PktRoom
  <2>1. CASE FillWanted
    <3> DEFINE x == PktRoom - head
               z == arrived - taken
    <3>1. x \in Nat /\ Remaining \in Nat /\ z \in Nat BY <1>2, <1>3, <1>4
    <3>2. Filled = Min({x, Remaining, z}) BY <2>1 DEF Filled
    <3>3. Filled <= x /\ Filled <= Remaining /\ Filled <= z /\ Filled \in {x, Remaining, z}
      <4> HIDE DEF x, z
      <4>1. x \in Int /\ Remaining \in Int /\ z \in Int BY <3>1
      <4>2. /\ Min({x, Remaining, z}) <= x /\ Min({x, Remaining, z}) <= Remaining
            /\ Min({x, Remaining, z}) <= z /\ Min({x, Remaining, z}) \in {x, Remaining, z}
        BY <4>1, LeastOf
      <4> QED BY <3>2, <4>2
    <3> QED BY <1>2, <1>4, <3>1, <3>3
  <2>2. CASE ~FillWanted
    <3>1. Filled = 0 BY <2>2 DEF Filled
    <3> QED BY <1>2, <1>3, <3>1
  <2> QED BY <2>1, <2>2
<1>6. /\ Flushed \in Nat /\ Flushed <= SinkRoom - sunk /\ Flushed <= head + Filled - tail
      /\ ~Lent => Flushed = 0
  <2>1. CASE Lent
    <3> DEFINE x == SinkRoom - sunk
               y == head + Filled - tail
    <3>1. x \in Nat /\ y \in Nat BY <1>2, <1>5
    <3>2. Flushed = Min({x, y}) BY <2>1 DEF Flushed
    <3>3. Flushed <= x /\ Flushed <= y /\ Flushed \in {x, y}
      <4> HIDE DEF x, y
      <4>1. x \in Int /\ y \in Int BY <3>1
      <4>2. Min({x, y}) <= x /\ Min({x, y}) <= y /\ Min({x, y}) \in {x, y} BY <4>1, LeastOf
      <4> QED BY <3>2, <4>2
    <3> QED BY <2>1, <3>1, <3>3
  <2>2. CASE ~Lent
    <3>1. Flushed = 0 BY <2>2 DEF Flushed
    <3> QED BY <1>2, <1>5, <3>1
  <2> QED BY <2>1, <2>2
<1> QED BY <1>5, <1>6

-----------------------------------------------------------------------------
(* The fields of the body.                                                  *)

(* The byte that comes next: its field is the state's, and ends where the   *)
(* reader ends it.                                                          *)
LEMMA NextByte ==
    ASSUME IInv, st \in InnerStates, st # "PUBLISH_PAYLOAD"
    PROVE  /\ Current \in DOMAIN stream.ends /\ InBody /\ AtField
           /\ Start < taken + 1 /\ taken < End
           /\ stream.fields[taken + 1] = [name |-> st, nth |-> counter + 1]
           /\ st \in DOMAIN U8Next => FieldEnds(stream, taken + 1)
           /\ st \in Wide => (FieldEnds(stream, taken + 1) <=> counter + 1 = 2)
           /\ st \in Text => (FieldEnds(stream, taken + 1) <=> counter + 1 = strlen)
           /\ st \in LengthStates /\ FieldEnds(stream, taken + 1) /\ taken + 1 < End
                => Num(stream, taken + 1) \in 1..(CounterWidth - 1)
           /\ FieldEnds(stream, taken + 1) /\ taken + 1 < End =>
                LET f == FieldAfter(st, stream.bytes[Start])
                IN  /\ stream.fields[taken + 2] = [name |-> f, nth |-> 1]
                    /\ f \in InnerStates \cup {"LEN"}
           /\ ~FieldEnds(stream, taken + 1) =>
                taken + 1 < End /\ stream.fields[taken + 2] = [name |-> st, nth |-> counter + 2]
<1> DEFINE k == taken + 1
           f == stream.fields[k]
<1>1. InBody /\ AtField BY DEF IInv, ReadInv, PlaceInv, InBody
<1>2. Current \in DOMAIN stream.ends /\ taken < End
      /\ f = [name |-> st, nth |-> counter + 1]
  BY <1>1 DEF InBody, AtField
<1>3. Typed BY DEF IInv
<1>4. /\ stream \in Streams /\ Start \in Nat /\ End \in Nat /\ taken \in Nat /\ counter \in Nat
  BY <1>2, <1>3, Counts, Here
<1>5. taken \in (Start + 1)..End BY <1>1 DEF InBody
<1>6. Start < k /\ k <= End /\ k \in Int /\ k + 1 = taken + 2 BY <1>2, <1>4, <1>5
<1>7. f.name = st /\ f.nth = counter + 1 BY <1>2
<1>8. /\ FieldForm(stream, Start, End, k)
      /\ k < End /\ FieldEnds(stream, k) =>
           LET g == FieldAfter(st, stream.bytes[Start])
           IN  stream.fields[k + 1] = [name |-> g, nth |-> 1] /\ g \in InnerStates \cup {"LEN"}
  <2> DEFINE i == Current
  <2>1. i \in DOMAIN stream.ends /\ stream.starts[i] < k /\ k <= stream.ends[i]
    BY <1>2, <1>6 DEF Start, End
  <2>2. /\ FieldForm(stream, stream.starts[i], stream.ends[i], k)
        /\ k < stream.ends[i] /\ FieldEnds(stream, k) =>
             LET g == FieldAfter(stream.fields[k].name, stream.bytes[stream.starts[i]])
             IN  stream.fields[k + 1] = [name |-> g, nth |-> 1] /\ g \in InnerStates \cup {"LEN"}
    <3> HIDE DEF i, k
    <3>1. k \in Int BY <1>6
    <3> QED BY <1>4, <2>1, <3>1, FieldsOfPacket
  <2> QED BY <1>7, <2>2 DEF Start, End
<1>9. FieldEnds(stream, k) <=>
        CASE st = "LEN" -> stream.bytes[k] < 128
          [] st \in Wide -> counter + 1 = 2
          [] st \in Text -> counter + 1 = Num(stream, k - (counter + 1))
          [] OTHER -> st # "PUBLISH_PAYLOAD"
  BY <1>7 DEF FieldEnds
<1>10. st \in DOMAIN U8Next => FieldEnds(stream, k)
  BY <1>9, FieldClasses
<1>11. st \in Wide => (FieldEnds(stream, k) <=> counter + 1 = 2)
  BY <1>9, FieldClasses
<1>12. st \in Text => (FieldEnds(stream, k) <=> counter + 1 = strlen)
  <2>1. ASSUME st \in Text PROVE strlen = Num(stream, k - (counter + 1))
    <3>1. strlen = Num(stream, taken - counter) BY <1>1, <2>1 DEF AtField
    <3>2. k - (counter + 1) = taken - counter BY <1>4
    <3> QED BY <3>1, <3>2
  <2>2. ASSUME st \in Text
        PROVE  FieldEnds(stream, k) <=> counter + 1 = Num(stream, k - (counter + 1))
    BY <1>9, <2>2, FieldClasses
  <2> QED BY <2>1, <2>2
<1>13. st \in LengthStates /\ FieldEnds(stream, k) /\ k < End => Num(stream, k) \in 1..(CounterWidth - 1)
  BY <1>7, <1>8 DEF FieldForm
<1>14. ASSUME ~FieldEnds(stream, k)
       PROVE  k < End /\ stream.fields[k + 1] = [name |-> st, nth |-> counter + 2]
  <2>1. k < End /\ stream.fields[k + 1] = [name |-> st, nth |-> f.nth + 1]
    BY <1>7, <1>8, <1>14 DEF FieldForm
  <2>2. f.nth + 1 = counter + 2 BY <1>4, <1>7
  <2> QED BY <2>1, <2>2
<1> QED BY <1>1, <1>2, <1>6, <1>8, <1>10, <1>11, <1>12, <1>13, <1>14

(* What every reading of a byte in a field does.                            *)
TakesByte ==
    /\ pc = "in" /\ UNCHANGED <<netVars, pc, bufVars, sinkVars, finished, hdrVars>>
    /\ taken' = taken + 1 /\ pos' = pos + 1 /\ ret' = 1

(* The last byte of a field brings the field after it, or the end.          *)
LEMMA FieldDone ==
    ASSUME IInv, st \in InnerStates, st # "PUBLISH_PAYLOAD", TakesByte,
           NEW new \in InnerStates \cup {"FINISHED"}, MoveTo(new),
           FieldEnds(stream, taken + 1),
           FieldAfter(st, stream.bytes[Start]) \in InnerStates \cup {"LEN"}
             => new = FieldAfter(st, stream.bytes[Start]),
           taken + 1 < End /\ new \in Text =>
               /\ strlen' = Num(stream, taken + 1) /\ Num(stream, taken + 1) \in 1..(CounterWidth - 1)
    PROVE  PlaceInv'
<1>1. /\ Current \in DOMAIN stream.ends /\ InBody /\ AtField /\ Start < taken + 1 /\ taken < End
      /\ stream.fields[taken + 1] = [name |-> st, nth |-> counter + 1]
      /\ taken + 1 < End =>
           LET f == FieldAfter(st, stream.bytes[Start])
           IN  /\ stream.fields[taken + 2] = [name |-> f, nth |-> 1]
               /\ f \in InnerStates \cup {"LEN"}
  BY NextByte
<1>2. Typed BY DEF IInv
<1>3. /\ stream \in Streams /\ Start \in Nat /\ End \in Nat /\ taken \in Nat
      /\ pos \in Nat /\ length \in Nat /\ head = 0 /\ tail = 0 /\ sunk = 0
      /\ length = End - Start + 1 /\ pos + (head - tail) = taken - Start + 1
      /\ PacketForm(stream, Current) /\ stream.payloads[Current] \in Nat
  BY <1>1, <1>2, Counts, Here DEF InBody, AtField
<1>4. pos + 1 = (taken + 1) - Start + 1 BY <1>3
<1>5. /\ stream' = stream /\ finished' = finished /\ pc' = pc /\ type' = type /\ flags' = flags
      /\ length' = length /\ head' = head /\ tail' = tail /\ sunk' = sunk
      /\ taken' = taken + 1 /\ pos' = pos + 1 /\ ret' = 1
  BY DEF TakesByte, netVars, bufVars, sinkVars, hdrVars
<1>6. Current' = Current /\ Start' = Start /\ End' = End BY <1>5, SamePacket
<1>7. CASE taken + 1 = End
  <2>1. pos + 1 = length BY <1>3, <1>4, <1>7
  <2>2. st' = "FINISHED" BY <2>1 DEF MoveTo, Reached
  <2>3. stream.payloads[Current] = 0
    <3>1. stream.fields[End].name # "PUBLISH_PAYLOAD" BY <1>1, <1>7
    <3> QED BY <1>3, <3>1 DEF PacketForm, End
  <2>4. AtEnd' BY <1>1, <1>3, <1>5, <1>6, <1>7, <2>3 DEF AtEnd
  <2>5. pc' # "out" BY <1>5 DEF TakesByte
  <2> QED BY <2>2, <2>4, <2>5, FieldClasses DEF PlaceInv
<1>8. CASE taken + 1 # End
  <2>1. taken + 1 < End /\ pos + 1 # length /\ pos + 1 < length BY <1>1, <1>3, <1>4, <1>8
  <2> DEFINE f == FieldAfter(st, stream.bytes[Start])
  <2>2. new = f /\ f \in InnerStates /\ stream.fields[taken + 2] = [name |-> new, nth |-> 1]
    <3> HIDE DEF f
    <3>1. "LEN" \notin InnerStates /\ "LEN" # "FINISHED" BY FieldClasses
    <3>2. f \in InnerStates \cup {"LEN"} /\ stream.fields[taken + 2] = [name |-> f, nth |-> 1]
      BY <1>1, <2>1 DEF f
    <3>3. new = f BY <3>2 DEF f
    <3> QED BY <3>1, <3>2, <3>3
  <2>3. st' = new /\ counter' = 0 BY <2>1, <2>2 DEF MoveTo, Reached
  <2>4. (FirstByte)' BY <1>1, <1>5, <1>6 DEF InBody, FirstByte
  <2>5. /\ (Current \in DOMAIN stream.ends)'
        /\ (length = End - Start + 1 /\ pos < length)'
        /\ (taken \in (Start + 1)..End /\ pos + (head - tail) = taken - Start + 1)'
    BY <1>1, <1>3, <1>4, <1>5, <1>6, <2>1
  <2>6. CASE new = "PUBLISH_PAYLOAD"
    <3>1. ASSUME type = PUBLISH PROVE sunk = (pos + 1) - (length - stream.payloads[Current])
      <4>1. stream.bytes[Start] \div 16 = PUBLISH BY <1>1, <3>1 DEF InBody, FirstByte
      <4>2. stream.payloads[Current] = End - (taken + 2) + 1
        <5> DEFINE k == taken + 2
                   i == Current
        <5>1. /\ k \in Int /\ i \in DOMAIN stream.ends
              /\ stream.starts[i] < k /\ k <= stream.ends[i]
          BY <1>1, <1>3, <2>1 DEF Start, End
        <5>2. stream.bytes[stream.starts[i]] \div 16 = PUBLISH
              /\ stream.fields[k] = [name |-> "PUBLISH_PAYLOAD", nth |-> 1]
          BY <2>2, <2>6, <4>1 DEF Start
        <5>3. stream.payloads[i] = stream.ends[i] - k + 1
          <6> HIDE DEF k, i
          <6> QED BY <1>3, <5>1, <5>2, FieldsOfPacket
        <5> QED BY <5>3 DEF End
      <4> QED BY <1>3, <1>4, <4>2
    <3>2. (type = PUBLISH => sunk = pos - (length - stream.payloads[Current]))'
      BY <1>5, <1>6, <3>1
    <3>3. InBody' BY <2>3, <2>4, <2>5, <2>6, <3>2 DEF InBody
    <3> QED BY <2>2, <2>3, <3>3, FieldClasses DEF PlaceInv
  <2>7. CASE new # "PUBLISH_PAYLOAD"
    <3>1. taken' + 1 = taken + 2 /\ taken' < End' BY <1>3, <1>5, <1>6, <2>1
    <3>2. stream'.fields[taken' + 1] = [name |-> st', nth |-> counter' + 1]
      BY <1>5, <2>2, <2>3, <3>1
    <3>3. st' \in Text => /\ counter' < strlen' /\ strlen' < CounterWidth
                          /\ strlen' = Num(stream', taken' - counter')
      <4>1. ASSUME new \in Text
            PROVE  strlen' = Num(stream, taken + 1) /\ Num(stream, taken + 1) \in 1..(CounterWidth - 1)
        BY <2>1, <4>1
      <4>2. taken' - counter' = taken + 1 BY <1>3, <1>5, <2>3
      <4>3. stream' = stream BY <1>5
      <4> QED BY <2>3, <4>1, <4>2, <4>3, Sizes
    <3>4. AtField' BY <1>3, <1>5, <2>3, <3>1, <3>2, <3>3 DEF AtField
    <3>5. InBody' BY <2>3, <2>4, <2>5, <2>7, <3>4 DEF InBody
    <3> QED BY <2>2, <2>3, <3>5, FieldClasses DEF PlaceInv
  <2> QED BY <2>6, <2>7
<1> QED BY <1>7, <1>8

(* A byte within a field.                                                   *)
LEMMA FieldGoesOn ==
    ASSUME IInv, st \in InnerStates, st # "PUBLISH_PAYLOAD", TakesByte, Stay,
           ~FieldEnds(stream, taken + 1),
           st \in Text => strlen' = strlen,
           st \in LengthStates => strlen' = (strlen * 256 + NewByte) % Word,
           NewByte \in 0..255, strlen \in Nat
    PROVE  PlaceInv'
<1>1. /\ Current \in DOMAIN stream.ends /\ InBody /\ AtField /\ Start < taken + 1
      /\ taken + 1 < End /\ stream.fields[taken + 2] = [name |-> st, nth |-> counter + 2]
      /\ st \in Wide => counter + 1 # 2
      /\ st \in Text => counter + 1 # strlen
      /\ st \notin DOMAIN U8Next
  BY NextByte
<1>2. Typed BY DEF IInv
<1>3. /\ stream \in Streams /\ Start \in Nat /\ End \in Nat /\ taken \in Nat /\ counter \in Nat
      /\ pos \in Nat /\ length \in Nat /\ head = 0 /\ tail = 0 /\ sunk = 0
      /\ length = End - Start + 1 /\ pos + (head - tail) = taken - Start + 1
  BY <1>1, <1>2, Counts, Here DEF InBody, AtField
<1>4. /\ stream' = stream /\ finished' = finished /\ pc' = pc /\ type' = type /\ flags' = flags
      /\ length' = length /\ head' = head /\ tail' = tail /\ sunk' = sunk
      /\ taken' = taken + 1 /\ pos' = pos + 1 /\ ret' = 1 /\ st' = st
  BY DEF TakesByte, netVars, bufVars, sinkVars, hdrVars, Stay
<1>5. Current' = Current /\ Start' = Start /\ End' = End BY <1>4, SamePacket
<1>6. counter + 1 < CounterWidth /\ (st \in Wide => counter = 0) /\ (st \in Text => counter + 1 < strlen)
  <2>1. st \in Wide \/ st \in Text BY <1>1, FieldClasses
  <2>2. st \in Wide => counter < 2 BY <1>1 DEF AtField
  <2>3. st \in Text => counter < strlen /\ strlen < CounterWidth BY <1>1 DEF AtField
  <2> QED BY <1>1, <1>3, <2>1, <2>2, <2>3, Sizes
<1>7. counter' = counter + 1
  <2>1. CounterWidth \in Nat BY Sizes
  <2>2. (counter + 1) % CounterWidth = counter + 1 BY <1>3, <1>6, <2>1
  <2> QED BY <2>2 DEF Stay, Count
<1>8. (FirstByte)' BY <1>1, <1>4, <1>5 DEF InBody, FirstByte
<1>9. /\ (Current \in DOMAIN stream.ends)'
      /\ (length = End - Start + 1 /\ pos < length)'
      /\ (taken \in (Start + 1)..End /\ pos + (head - tail) = taken - Start + 1)'
  BY <1>1, <1>3, <1>4, <1>5
<1>10. stream'.fields[taken' + 1] = [name |-> st', nth |-> counter' + 1]
  BY <1>1, <1>3, <1>4, <1>7
<1>11. st' \in Wide => counter' < 2 BY <1>4, <1>6, <1>7
<1>12. st' \in LengthStates /\ counter' = 1 => strlen' % 256 = stream'.bytes[taken']
  <2>1. ASSUME st \in LengthStates PROVE strlen' % 256 = NewByte
    <3>1. ((strlen * 256 + NewByte) % 65536) % 256 = NewByte OBVIOUS
    <3> QED BY <2>1, <3>1 DEF Word
  <2> QED BY <1>4, <2>1 DEF NewByte
<1>13. st' \in Text => /\ counter' < strlen' /\ strlen' < CounterWidth
                       /\ strlen' = Num(stream', taken' - counter')
  <2>1. ASSUME st \in Text PROVE strlen' = strlen /\ strlen < CounterWidth /\ strlen = Num(stream, taken - counter)
    BY <1>1, <2>1 DEF AtField
  <2>2. taken' - counter' = taken - counter BY <1>3, <1>4, <1>7
  <2> QED BY <1>4, <1>6, <1>7, <2>1, <2>2
<1>14. AtField' BY <1>1, <1>3, <1>4, <1>5, <1>10, <1>11, <1>12, <1>13 DEF AtField
<1>15. InBody' BY <1>4, <1>8, <1>9, <1>14 DEF InBody
<1> QED BY <1>4, <1>15, FieldClasses DEF PlaceInv

(* What Takes leaves alone.                                                 *)
LEMMA TakesIs ==
    ASSUME NEW S, Takes(S), UNCHANGED hdrVars
    PROVE  TakesByte /\ st \in S /\ arrived > taken
  BY DEF Takes, TakesByte, Looping

(* A byte of a one-byte field leaves the reader where the packet is.        *)
LEMMA U8Places ==
    ASSUME IInv, ReadU8
    PROVE  PlaceInv'
<1>1. /\ TakesByte /\ st \in DOMAIN U8Next /\ MoveTo(U8Next[st])
  BY TakesIs DEF ReadU8
<1>2. st \in InnerStates /\ st # "PUBLISH_PAYLOAD" BY <1>1, FieldClasses
<1>3. FieldEnds(stream, taken + 1) BY <1>1, <1>2, NextByte
<1> DEFINE b == stream.bytes[Start]
<1>4. /\ U8Next[st] \in InnerStates \cup {"FINISHED"}
      /\ FieldAfter(st, b) \in InnerStates \cup {"LEN"} => U8Next[st] = FieldAfter(st, b)
      /\ FieldAfter(st, b) \notin Text
  BY <1>1, OneByteAgrees
<1>5. ASSUME taken + 1 < End PROVE U8Next[st] \notin Text
  <2>1. FieldAfter(st, b) \in InnerStates \cup {"LEN"} BY <1>2, <1>3, <1>5, NextByte
  <2> HIDE DEF b
  <2> QED BY <1>4, <2>1
<1> DEFINE new == U8Next[st]
<1> HIDE DEF new
<1>6. new \in InnerStates \cup {"FINISHED"} /\ MoveTo(new)
      /\ (FieldAfter(st, stream.bytes[Start]) \in InnerStates \cup {"LEN"}
            => new = FieldAfter(st, stream.bytes[Start]))
      /\ (taken + 1 < End => new \notin Text)
  BY <1>1, <1>4, <1>5 DEF new
<1> QED BY <1>1, <1>2, <1>3, <1>6, FieldDone

(* A byte of a two-byte field leaves the reader where the packet is.        *)
LEMMA U16Places ==
    ASSUME IInv, ReadU16
    PROVE  PlaceInv'
<1>1. /\ TakesByte /\ st \in Wide /\ arrived > taken
      /\ IF st \in LengthStates THEN strlen' = (strlen * 256 + NewByte) % Word
                                ELSE strlen' = strlen
      /\ IF Count = 2 THEN MoveTo(U16Next[st]) ELSE Stay
  BY TakesIs, FieldClasses DEF ReadU16
<1>2. st \in InnerStates /\ st # "PUBLISH_PAYLOAD" /\ st \notin Text BY <1>1, FieldClasses
<1>3. Typed BY DEF IInv
<1>4. NewByte \in 0..255 /\ strlen \in Nat /\ counter \in Nat
  <2>1. NewByte \in 0..255 /\ counter \in Nat BY <1>1, <1>3, Counts
  <2>2. strlen \in Nat BY <1>3, StringSize
  <2> QED BY <2>1, <2>2
<1>5. InBody /\ AtField /\ counter < 2 /\ (FieldEnds(stream, taken + 1) <=> counter + 1 = 2)
  BY <1>1, <1>2, NextByte DEF AtField
<1>6. Count = counter + 1
  <2>1. CounterWidth \in Nat /\ counter + 1 < CounterWidth BY <1>4, <1>5, Sizes
  <2> QED BY <1>4, <2>1 DEF Count
<1>7. CASE Count # 2
  <2>1. ~FieldEnds(stream, taken + 1) /\ Stay BY <1>1, <1>5, <1>6, <1>7
  <2> QED BY <1>1, <1>2, <1>4, <2>1, FieldGoesOn
<1>8. CASE Count = 2
  <2>1. FieldEnds(stream, taken + 1) /\ MoveTo(U16Next[st]) /\ counter = 1 BY <1>1, <1>4, <1>5, <1>6, <1>8
  <2> DEFINE b == stream.bytes[Start]
             new == U16Next[st]
  <2>2. /\ new \in InnerStates \cup {"FINISHED"}
        /\ FieldAfter(st, b) \in InnerStates \cup {"LEN"} => new = FieldAfter(st, b)
        /\ FieldAfter(st, b) \in Text => st \in LengthStates
    BY <1>1, TwoBytesAgree
  <2>3. ASSUME taken + 1 < End, new \in Text
        PROVE  /\ strlen' = Num(stream, taken + 1)
               /\ Num(stream, taken + 1) \in 1..(CounterWidth - 1)
    <3>1. FieldAfter(st, b) \in InnerStates \cup {"LEN"} BY <1>2, <2>1, <2>3, NextByte
    <3>2. st \in LengthStates
      <4> HIDE DEF b, new
      <4> QED BY <2>2, <2>3, <3>1
    <3>3. strlen' = (strlen * 256 + NewByte) % 65536 BY <1>1, <3>2 DEF Word
    <3>4. strlen % 256 = stream.bytes[taken] BY <1>5, <2>1, <3>2 DEF AtField
    <3>5. (strlen * 256 + NewByte) % 65536 = (strlen % 256) * 256 + NewByte BY <1>4
    <3>6. strlen' = Num(stream, taken + 1)
      <4>1. (taken + 1) - 1 = taken BY <1>3, Counts
      <4> QED BY <3>3, <3>4, <3>5, <4>1 DEF Num, NewByte
    <3>7. Num(stream, taken + 1) \in 1..(CounterWidth - 1) BY <1>2, <2>1, <2>3, <3>2, NextByte
    <3> QED BY <3>6, <3>7
  <2> HIDE DEF new
  <2>4. MoveTo(new) BY <2>1 DEF new
  <2> QED BY <1>1, <1>2, <2>1, <2>2, <2>3, <2>4, FieldDone
<1> QED BY <1>7, <1>8

(* A byte of a string leaves the reader where the packet is.                *)
LEMMA StringPlaces ==
    ASSUME IInv, ReadString
    PROVE  PlaceInv'
<1>1. /\ TakesByte /\ st \in Text /\ arrived > taken /\ strlen' = strlen
      /\ IF Count = strlen
         THEN \E new \in StringNext[st] :
                 /\ st = "PUBLISH_TOPIC" =>
                      (new = "PUBLISH_MSGID" <=> (flags \div 2) % 4 # 0)
                 /\ MoveTo(new)
         ELSE Stay
  BY TakesIs, FieldClasses DEF ReadString
<1>2. st \in InnerStates /\ st # "PUBLISH_PAYLOAD" /\ st \notin Wide /\ st \notin LengthStates
  BY <1>1, FieldClasses
<1>3. Typed BY DEF IInv
<1>4. NewByte \in 0..255 /\ strlen \in Nat /\ counter \in Nat
  <2>1. NewByte \in 0..255 /\ counter \in Nat BY <1>1, <1>3, Counts
  <2>2. strlen \in Nat BY <1>3, StringSize
  <2> QED BY <2>1, <2>2
<1>5. /\ InBody /\ AtField /\ counter < strlen /\ strlen < CounterWidth
      /\ FieldEnds(stream, taken + 1) <=> counter + 1 = strlen
      /\ Current \in DOMAIN stream.ends
  BY <1>1, <1>2, NextByte DEF AtField
<1>6. Count = counter + 1
  <2>1. CounterWidth \in Nat /\ counter + 1 < CounterWidth BY <1>4, <1>5, Sizes
  <2> QED BY <1>4, <2>1 DEF Count
<1>7. CASE Count # strlen
  <2>1. ~FieldEnds(stream, taken + 1) /\ Stay BY <1>1, <1>5, <1>6, <1>7
  <2> QED BY <1>1, <1>2, <1>4, <2>1, FieldGoesOn
<1>8. CASE Count = strlen
  <2>1. PICK new \in StringNext[st] :
          /\ st = "PUBLISH_TOPIC" => (new = "PUBLISH_MSGID" <=> (flags \div 2) % 4 # 0)
          /\ MoveTo(new)
    BY <1>1, <1>8
  <2>2. FieldEnds(stream, taken + 1) BY <1>5, <1>6, <1>8
  <2> DEFINE b == stream.bytes[Start]
  <2>3. b \in 0..255 /\ flags = b % 16 BY <1>3, <1>5, Here DEF InBody, FirstByte
  <2>4. /\ new \in InnerStates
        /\ FieldAfter(st, b) \in InnerStates \cup {"LEN"} => new = FieldAfter(st, b)
        /\ FieldAfter(st, b) \notin Text
    <3> HIDE DEF b
    <3>1. st = "PUBLISH_TOPIC" => (new = "PUBLISH_MSGID" <=> ((b % 16) \div 2) % 4 # 0)
      BY <2>1, <2>3
    <3> QED BY <1>1, <2>1, <2>3, <3>1, StringAgrees
  <2>5. ASSUME taken + 1 < End PROVE new \notin Text
    <3>1. FieldAfter(st, b) \in InnerStates \cup {"LEN"} BY <1>2, <2>2, <2>5, NextByte
    <3> HIDE DEF b
    <3> QED BY <2>4, <3>1
  <2> QED BY <1>1, <1>2, <2>1, <2>2, <2>4, <2>5, FieldDone
<1> QED BY <1>7, <1>8

-----------------------------------------------------------------------------
(* The header.                                                              *)

(* The current packet is there when another byte comes.                     *)
LEMMA BeforePacket ==
    ASSUME IInv, Cut \/ Between, arrived > taken
    PROVE  /\ Current \in DOMAIN stream.ends /\ sunk = 0
           /\ taken \in EndBefore(stream, Current)..(Start - 1)
<1>1. Typed BY DEF IInv
<1>2. /\ arrived \in Nat /\ taken \in Nat /\ arrived <= Len(stream.bytes)
      /\ Len(stream.bytes) \in Nat
  BY <1>1, Counts
<1>3. ~Cut BY <1>2 DEF Cut
<1>4. ~(taken = Len(stream.bytes)) BY <1>2
<1> QED BY <1>3, <1>4 DEF Between

(* The first byte of a packet leaves the reader where the packet is.        *)
LEMMA TypePlaces ==
    ASSUME IInv, ReadType
    PROVE  PlaceInv'
<1>1. /\ pc = "in" /\ st = "TYPE" /\ arrived > taken /\ taken' = taken + 1 /\ pos' = pos + 1
      /\ stream' = stream /\ finished' = finished /\ head' = head /\ tail' = tail
      /\ sunk' = sunk /\ closed' = closed /\ arrived' = arrived
      /\ type' = NewByte \div 16
      /\ IF type' \in CONNECT..DISCONNECT
         THEN flags' = NewByte % 16 /\ length' = 1 /\ mult' = 1 /\ st' = "LEN"
         ELSE st' = "ERROR"
  BY DEF ReadType, Takes, Looping, netVars, bufVars, sinkVars
<1>2. Cut \/ Between
  <2>1. PlaceInv BY DEF IInv, ReadInv
  <2>2. st \in {"IDLE", "TYPE", "ERROR"} BY <1>1
  <2> QED BY <2>1, <2>2, Zenon DEF PlaceInv
<1>3. /\ Current \in DOMAIN stream.ends /\ sunk = 0
      /\ taken \in EndBefore(stream, Current)..(Start - 1) /\ Typed
      /\ pos = 0 /\ head = 0 /\ tail = 0
  <2>1. Cut \/ Between BY <1>2
  <2>2. pos = 0 /\ head = 0 /\ tail = 0 /\ Typed BY <1>1 DEF IInv, ReadInv
  <2> QED BY <1>1, <2>1, <2>2, BeforePacket
<1>4. /\ stream \in Streams /\ Current \in Nat /\ Start \in Nat /\ End \in Nat
      /\ EndBefore(stream, Current) \in Nat /\ Start < End /\ taken \in Nat
      /\ PacketForm(stream, Current)
  BY <1>3, Here, Counts
<1>5. /\ Current' = Current /\ Start' = Start /\ End' = End
      /\ EndBefore(stream, Current)' = EndBefore(stream, Current)
  BY <1>1, SamePacket
<1>6. CASE taken + 1 = Start
  <2>1. NewByte = stream.bytes[Start] BY <1>6 DEF NewByte
  <2>2. NewByte \div 16 \in CONNECT..DISCONNECT BY <1>4, <2>1 DEF PacketForm, Start
  <2>3. st' = "LEN" /\ length' = 1 /\ mult' = 1 /\ flags' = NewByte % 16 BY <1>1, <2>2
  <2>4. (FirstByte)' BY <1>1, <1>5, <2>1, <2>3 DEF FirstByte
  <2>5. stream.fields[Start + 1] = [name |-> "LEN", nth |-> 1] BY <1>4 DEF PacketForm, Start
  <2>6. pos' = 1 /\ taken' = Start BY <1>1, <1>3, <1>6
  <2>7. LenValue(stream, Start, 0) = 0 BY DEF LenValue
  <2>8. /\ pos' \in 1..4 /\ taken' = Start' + pos' - 1 /\ taken' < End'
        /\ stream'.fields[taken' + 1] = [name |-> "LEN", nth |-> pos']
        /\ mult' = <<1, 128, 16384, 2097152>>[pos']
    BY <1>1, <1>4, <1>5, <2>3, <2>5, <2>6
  <2>9. length' = pos' + LenValue(stream', Start', pos' - 1)
    <3>1. pos' - 1 = 0 /\ stream' = stream /\ Start' = Start BY <1>1, <1>5, <2>6
    <3> QED BY <2>3, <2>6, <2>7, <3>1
  <2>10. InLength' BY <1>1, <1>3, <1>5, <2>4, <2>8, <2>9 DEF InLength
  <2> QED BY <2>3, <2>10, FieldClasses DEF PlaceInv
<1>7. CASE taken + 1 # Start
  <2>1. taken + 1 \in (EndBefore(stream, Current) + 1)..(Start - 1)
    BY <1>3, <1>4, <1>7
  <2>2. NewByte \div 16 \notin CONNECT..DISCONNECT
    BY <1>4, <2>1 DEF PacketForm, Start, NewByte
  <2>3. st' = "ERROR" BY <1>1, <2>2
  <2>4. taken' \in EndBefore(stream, Current)'..(Start' - 1) BY <1>1, <1>4, <1>5, <2>1
  <2>5. Between' BY <1>1, <1>3, <1>5, <2>4 DEF Between
  <2> QED BY <2>3, <2>5, FieldClasses DEF PlaceInv
<1> QED BY <1>6, <1>7

(* One more byte of the length.                                             *)
LEMMA LengthGrows ==
    ASSUME NEW m, NEW s, NEW p \in 1..4, \A j \in 1..p : Digit(m, s + j) \in Nat
    PROVE  /\ LenValue(m, s, p)
                = LenValue(m, s, p - 1) + Digit(m, s + p) * <<1, 128, 16384, 2097152>>[p]
           /\ LenValue(m, s, p) \in Nat /\ LenValue(m, s, p - 1) \in Nat
<1>1. CASE p = 1 BY <1>1 DEF LenValue
<1>2. CASE p = 2 BY <1>2 DEF LenValue
<1>3. CASE p = 3 BY <1>3 DEF LenValue
<1>4. CASE p = 4 BY <1>4 DEF LenValue
<1> QED BY <1>1, <1>2, <1>3, <1>4

(* A digit of the remaining length leaves the reader where the packet is.   *)
LEMMA LenPlaces ==
    ASSUME IInv, ReadLen
    PROVE  PlaceInv'
<1> DEFINE k == taken + 1
           n == pos
           s == Start
<1>1. /\ pc = "in" /\ st = "LEN" /\ arrived > taken /\ taken' = taken + 1 /\ pos' = pos + 1
      /\ ret' = 1 /\ pc' = pc
      /\ stream' = stream /\ finished' = finished /\ head' = head /\ tail' = tail
      /\ sunk' = sunk /\ type' = type /\ flags' = flags
      /\ length' = length + 1 + (NewByte % 128) * mult
      /\ mult' = mult * 128
      /\ IF NewByte < 128
         THEN /\ st' = Reached(AfterLen(type, length', pos + 1), pos + 1, length')
              /\ counter' = 0
         ELSE st' = st
  BY DEF ReadLen, Takes, Looping, netVars, bufVars, sinkVars, Stay
<1>2. Typed /\ InLength BY <1>1 DEF IInv, ReadInv, PlaceInv
<1>3. /\ Current \in DOMAIN stream.ends /\ FirstByte
      /\ pos \in 1..4 /\ taken = Start + pos - 1 /\ taken < End
      /\ stream.fields[k] = [name |-> "LEN", nth |-> pos]
      /\ length = pos + LenValue(stream, Start, pos - 1)
      /\ mult = <<1, 128, 16384, 2097152>>[pos]
      /\ head = 0 /\ tail = 0 /\ sunk = 0
  BY <1>2 DEF InLength
<1>4. /\ stream \in Streams /\ Current \in Nat /\ Start \in Nat /\ End \in Nat
      /\ Start < End /\ taken \in Nat /\ NewByte \in 0..255 /\ Len(stream.bytes) \in Nat
      /\ PacketForm(stream, Current) /\ stream.bytes[Start] \in 0..255
      /\ stream.payloads[Current] \in Nat /\ length \in Nat
  <2>1. NewByte \in 0..255 BY <1>1, <1>2, Counts
  <2> QED BY <1>2, <1>3, <2>1, Here, Counts
<1>5. Current' = Current /\ Start' = Start /\ End' = End
  BY <1>1, SamePacket
<1>6. s < k /\ k <= End /\ k \in Int /\ k - s = n /\ k = s + n BY <1>3, <1>4
<1>7. /\ FieldForm(stream, s, End, k)
      /\ k < End /\ FieldEnds(stream, k) =>
           LET f == FieldAfter("LEN", stream.bytes[s])
           IN  stream.fields[k + 1] = [name |-> f, nth |-> 1] /\ f \in InnerStates \cup {"LEN"}
  <2> DEFINE i == Current
  <2>1. i \in DOMAIN stream.ends /\ stream.starts[i] < k /\ k <= stream.ends[i]
    BY <1>3, <1>6 DEF Start, End
  <2>2. /\ FieldForm(stream, stream.starts[i], stream.ends[i], k)
        /\ k < stream.ends[i] /\ FieldEnds(stream, k) =>
             LET g == FieldAfter(stream.fields[k].name, stream.bytes[stream.starts[i]])
             IN  stream.fields[k + 1] = [name |-> g, nth |-> 1] /\ g \in InnerStates \cup {"LEN"}
    <3> HIDE DEF i, k
    <3>1. k \in Int BY <1>6
    <3> QED BY <1>4, <2>1, <3>1, FieldsOfPacket
  <2>3. stream.fields[k].name = "LEN" BY <1>3
  <2> QED BY <2>2, <2>3 DEF Start, End
<1>8. stream.fields[k].name = "LEN" /\ stream.fields[k].nth = n BY <1>3
<1>9. FieldEnds(stream, k) <=> NewByte < 128
  <2> DEFINE b == stream.bytes[k]
             g == stream.fields[k]
  <2>1. FieldEnds(stream, k) <=>
          CASE g.name = "LEN" -> b < 128
            [] g.name \in Wide -> g.nth = 2
            [] g.name \in Text -> g.nth = Num(stream, k - g.nth)
            [] OTHER -> g.name # "PUBLISH_PAYLOAD"
    BY DEF FieldEnds
  <2>2. NewByte = b /\ g.name = "LEN" BY <1>8 DEF NewByte
  <2> HIDE DEF b, g, k
  <2> QED BY <2>1, <2>2, FieldClasses
<1>10. FieldEnds(stream, k) => End = k + LenValue(stream, s, n)
  BY <1>7, <1>8 DEF FieldForm
<1> DEFINE v == LenValue(stream, s, n - 1)
           w == LenValue(stream, s, n)
<1>11. length' = (n + 1) + w /\ w \in Nat
  <2>1. \A j \in 1..n : Digit(stream, s + j) \in Nat
    <3> TAKE j \in 1..n
    <3> DEFINE last == End
               bytes == Len(stream.bytes)
    <3>1. last <= bytes BY <1>2, <1>3, Here
    <3>2. /\ s \in Nat /\ last \in Nat /\ bytes \in Nat /\ n \in 1..4
          /\ s < k /\ k <= last /\ k = s + n
      BY <1>3, <1>4, <1>6
    <3>3. s + j \in 1..bytes
      <4> HIDE DEF s, n, k, bytes, last
      <4> QED BY <3>1, <3>2
    <3>4. s + j \in 1..Len(stream.bytes) BY <3>3
    <3>5. stream.bytes[s + j] \in 0..255 BY <1>4, <3>4, StreamBounds
    <3> QED BY <3>5 DEF Digit
  <2>2. w = v + Digit(stream, s + n) * <<1, 128, 16384, 2097152>>[n] /\ v \in Nat /\ w \in Nat
    <3>1. n \in 1..4 BY <1>3
    <3> HIDE DEF n, s
    <3> QED BY <2>1, <3>1, LengthGrows
  <2>3. Digit(stream, s + n) = NewByte % 128 BY <1>6 DEF Digit, NewByte
  <2>4. length = n + v BY <1>3
  <2>5. w = v + (NewByte % 128) * mult BY <1>3, <2>2, <2>3
  <2>6. n \in Nat BY <1>3
  <2> DEFINE x == (NewByte % 128) * mult
  <2>7. x \in Nat
    <3>1. NewByte % 128 \in Nat BY <1>4
    <3>2. mult \in {1, 128, 16384, 2097152} BY <1>3
    <3> QED BY <3>1, <3>2
  <2>8. length' = length + 1 + x /\ w = v + x BY <1>1, <2>5
  <2> HIDE DEF x, v, w, n
  <2> QED BY <2>2, <2>4, <2>6, <2>7, <2>8
<1>12. CASE NewByte < 128
  <2> DEFINE t == stream.bytes[s] \div 16
  <2>1. FieldEnds(stream, k) /\ End = k + w BY <1>9, <1>10, <1>12
  <2>2. length' = End - Start + 1 /\ pos + 1 = k - Start + 1
    <3> HIDE DEF w
    <3> QED BY <1>3, <1>4, <1>6, <1>11, <2>1
  <2>3. t \in CONNECT..DISCONNECT BY <1>4 DEF PacketForm, Start
  <2>4. /\ FirstField(t) \in InnerStates \cup {"LEN"} =>
              AfterLen(t, length', pos + 1) = FirstField(t) /\ FirstField(t) \in InnerStates
        /\ FirstField(t) \notin Text /\ FirstField(t) # "PUBLISH_PAYLOAD"
        /\ \/ AfterLen(t, length', pos + 1) \in InnerStates
           \/ AfterLen(t, length', pos + 1) = IF length' = pos + 1 THEN "FINISHED" ELSE "ERROR"
    <3> HIDE DEF t
    <3> QED BY <2>3, LengthAgrees
  <2>5. type = t BY <1>3 DEF FirstByte
  <2> DEFINE new == AfterLen(t, length', pos + 1)
  <2>6. st' = Reached(new, pos + 1, length') /\ counter' = 0 BY <1>1, <1>12, <2>5
  <2>7. CASE k = End
    <3>1. pos + 1 = length' BY <2>2, <2>7
    <3>2. st' = "FINISHED"
      <4> HIDE DEF t, new
      <4>1. new \in InnerStates \/ new = "FINISHED" BY <2>4, <3>1 DEF new
      <4> QED BY <2>6, <3>1, <4>1 DEF Reached
    <3>3. stream.payloads[Current] = 0
      <4>1. stream.fields[End].name # "PUBLISH_PAYLOAD" BY <1>8, <2>7
      <4> QED BY <1>4, <4>1 DEF PacketForm, End
    <3>4. AtEnd' BY <1>1, <1>3, <1>5, <2>7, <3>3 DEF AtEnd
    <3> QED BY <1>1, <3>2, <3>4, FieldClasses DEF PlaceInv
  <2>8. CASE k # End
    <3>1. k < End /\ pos + 1 # length' /\ pos + 1 < length' BY <1>3, <1>4, <1>6, <2>2, <2>8
    <3> DEFINE f == FirstField(t)
    <3>2. stream.fields[k + 1] = [name |-> f, nth |-> 1] /\ f \in InnerStates \cup {"LEN"}
      <4>1. FieldAfter("LEN", stream.bytes[s]) = f
        <5> DEFINE b == stream.bytes[s]
        <5> HIDE DEF b
        <5>1. FieldAfter("LEN", b) = FirstField(b \div 16)
          <6>1. "LEN" # "PUBLISH_TOPIC" /\ "LEN" \notin DOMAIN Order BY DEF Order
          <6> QED BY <6>1 DEF FieldAfter
        <5> QED BY <5>1 DEF b
      <4> QED BY <1>7, <2>1, <3>1, <4>1
    <3>3. st' = f /\ f \in InnerStates /\ f \notin Text /\ f # "PUBLISH_PAYLOAD"
      <4>1. new = f /\ f \in InnerStates /\ f \notin Text /\ f # "PUBLISH_PAYLOAD" BY <2>4, <3>2
      <4> HIDE DEF t, f, new
      <4> QED BY <2>6, <3>1, <4>1 DEF Reached
    <3>4. (FirstByte)' BY <1>1, <1>3, <1>5 DEF FirstByte
    <3>5. /\ (Current \in DOMAIN stream.ends)'
          /\ (length = End - Start + 1 /\ pos < length)'
          /\ (taken \in (Start + 1)..End /\ pos + (head - tail) = taken - Start + 1)'
      <4>1. head' = 0 /\ tail' = 0 /\ pos' = pos + 1 /\ taken' = k BY <1>1, <1>3
      <4>2. pos' + (head' - tail') = taken' - Start' + 1 BY <1>3, <1>4, <1>5, <2>2, <4>1
      <4>3. k \in (Start + 1)..End BY <1>4, <1>6
      <4> QED BY <1>1, <1>3, <1>5, <2>2, <3>1, <4>1, <4>2, <4>3
    <3>6. stream'.fields[taken' + 1] = [name |-> st', nth |-> counter' + 1]
      <4>1. taken' + 1 = k + 1 /\ stream' = stream /\ counter' + 1 = 1 BY <1>1, <2>6
      <4> HIDE DEF f
      <4> QED BY <3>2, <3>3, <4>1
    <3>7. AtField'
      <4>1. counter' = 0 /\ taken' < End' /\ head' = 0 /\ tail' = 0 /\ sunk' = 0
        BY <1>1, <1>3, <1>5, <2>6, <3>1
      <4>2. st' \notin Text BY <3>3
      <4> QED BY <3>6, <4>1, <4>2 DEF AtField
    <3>8. InBody' BY <3>3, <3>4, <3>5, <3>7 DEF InBody
    <3> QED BY <3>3, <3>8, FieldClasses DEF PlaceInv
  <2> QED BY <2>7, <2>8
<1>13. CASE ~(NewByte < 128)
  <2>1. k < End /\ stream.fields[k + 1] = [name |-> "LEN", nth |-> n + 1]
    <3> DEFINE f == stream.fields[k]
               g == stream.fields[k + 1]
    <3>1. ~FieldEnds(stream, k) BY <1>9, <1>13
    <3>2. \/ k < End /\ g = [name |-> f.name, nth |-> f.nth + 1]
          \/ k = End /\ f.name = "PUBLISH_PAYLOAD"
      BY <1>7, <3>1 DEF FieldForm
    <3>3. f.name = "LEN" /\ f.nth = n BY <1>8
    <3> HIDE DEF f, g, k
    <3>4. k < End /\ g = [name |-> "LEN", nth |-> n + 1] BY <3>2, <3>3
    <3> QED BY <3>4 DEF g
  <2>2. n + 1 <= 4
    <3> DEFINE i == Current
               j == k + 1
    <3>1. /\ i \in DOMAIN stream.ends /\ j \in Int
          /\ stream.starts[i] < j /\ j <= stream.ends[i]
      <4>1. j \in Int /\ Start < j /\ j <= End
        <5>1. k \in Int /\ s < k /\ k < End /\ s \in Nat /\ End \in Nat BY <1>4, <1>6, <2>1
        <5> HIDE DEF k
        <5> QED BY <5>1
      <4> HIDE DEF j
      <4> QED BY <1>3, <4>1 DEF Start, End
    <3>2. FieldForm(stream, stream.starts[i], stream.ends[i], j)
      <4> HIDE DEF i, j
      <4> QED BY <1>4, <3>1, FieldsOfPacket
    <3>3. stream.fields[j].name = "LEN" /\ stream.fields[j].nth = n + 1 BY <2>1
    <3> QED BY <3>2, <3>3 DEF FieldForm
  <2>3. /\ st' = "LEN" /\ pos' = n + 1 /\ pos' \in 1..4 /\ taken' = k /\ pos' - 1 = n
    BY <1>1, <1>3, <1>13, <2>2
  <2>4. mult' = <<1, 128, 16384, 2097152>>[pos']
    <3>1. n \in 1..3 BY <1>3, <2>2
    <3>2. mult' = <<1, 128, 16384, 2097152>>[n] * 128 BY <1>1, <1>3
    <3>3. CASE n = 1 BY <2>3, <3>2, <3>3
    <3>4. CASE n = 2 BY <2>3, <3>2, <3>4
    <3>5. CASE n = 3 BY <2>3, <3>2, <3>5
    <3> QED BY <3>1, <3>3, <3>4, <3>5
  <2>5. length' = pos' + LenValue(stream', Start', pos' - 1)
    <3>1. stream' = stream /\ Start' = s /\ pos' - 1 = n /\ pos' = n + 1 BY <1>1, <1>5, <2>3
    <3>2. LenValue(stream', Start', pos' - 1) = w BY <3>1
    <3> HIDE DEF w, s
    <3> QED BY <1>11, <3>1, <3>2
  <2>6. (FirstByte)' BY <1>1, <1>3, <1>5 DEF FirstByte
  <2>7. /\ taken' = Start' + pos' - 1 /\ taken' < End'
        /\ stream'.fields[taken' + 1] = [name |-> "LEN", nth |-> pos']
    BY <1>1, <1>3, <1>4, <1>5, <1>6, <2>1, <2>3
  <2>8. InLength' BY <1>1, <1>3, <1>5, <2>3, <2>4, <2>5, <2>6, <2>7 DEF InLength
  <2> QED BY <2>3, <2>8, FieldClasses DEF PlaceInv
<1> QED BY <1>12, <1>13

-----------------------------------------------------------------------------
(* The other turns.                                                         *)

(* Steps that leave the reader where it is.                                 *)
LEMMA StillPlaces ==
    ASSUME IInv,
           UNCHANGED <<stream, taken, st, pos, counter, hdrVars, strlen, bufVars, sunk, finished>>,
           Cut => Cut', st = "FINISHED" => UNCHANGED <<pc, ret>>
    PROVE  PlaceInv'
<1>1. PlaceInv BY DEF IInv, ReadInv
<1>2. /\ stream' = stream /\ taken' = taken /\ st' = st /\ pos' = pos /\ counter' = counter
      /\ type' = type /\ flags' = flags /\ length' = length /\ mult' = mult /\ strlen' = strlen
      /\ head' = head /\ tail' = tail /\ sunk' = sunk /\ finished' = finished
  BY DEF hdrVars, bufVars
<1>3. /\ Current' = Current /\ Start' = Start /\ End' = End
      /\ EndBefore(stream, Current)' = EndBefore(stream, Current)
  BY <1>2, SamePacket
<1>4. (FirstByte)' = FirstByte BY <1>2, <1>3 DEF FirstByte
<1>5. InLength => InLength' BY <1>2, <1>3, <1>4 DEF InLength
<1>6. AtField => AtField' BY <1>2, <1>3 DEF AtField
<1>7. InBody => InBody'
  <2>1. ASSUME InBody PROVE InBody'
    <3>1. /\ (Current \in DOMAIN stream.ends)' /\ (FirstByte)'
          /\ (length = End - Start + 1 /\ pos < length)'
          /\ (taken \in (Start + 1)..End /\ pos + (head - tail) = taken - Start + 1)'
      BY <1>2, <1>3, <1>4, <2>1 DEF InBody
    <3>2. st # "PUBLISH_PAYLOAD" => AtField' BY <1>6, <2>1 DEF InBody
    <3>3. st = "PUBLISH_PAYLOAD" /\ type = PUBLISH
            => sunk = pos - (length - stream.payloads[Current])
      BY <2>1 DEF InBody
    <3> QED BY <1>2, <1>3, <3>1, <3>2, <3>3 DEF InBody
  <2> QED BY <2>1
<1>8. st = "FINISHED" /\ AtEnd => AtEnd' BY <1>2, <1>3 DEF AtEnd
<1>9. Between => Between' BY <1>2, <1>3 DEF Between
<1>10. st = "FINISHED" => pc' = pc OBVIOUS
<1> QED BY <1>1, <1>2, <1>5, <1>7, <1>8, <1>9, <1>10 DEF PlaceInv

(* Giving up for want of bytes leaves the reader where the packet is.       *)
LEMMA StarvedPlaces ==
    ASSUME IInv, Starved \/ PayloadStarved
    PROVE  PlaceInv' /\ (ret' <= EFATAL => Cut') /\ (st' = st)
<1>1. /\ UNCHANGED <<stream, closed, arrived, taken, st, pos, counter, hdrVars, strlen, bufVars,
                     sunk, finished>>
      /\ st # "FINISHED" /\ arrived = taken
      /\ ret' = 0 \/ ret' = NoByte
  BY DEF Starved, PayloadStarved, Looping, EndStates, netVars, sinkVars
<1>2. Cut => Cut' BY <1>1 DEF Cut
<1>3. ret' <= EFATAL => Cut'
  BY <1>1 DEF NoByte, EWOULDBLOCK, EFATAL, EREMOTEDISCONNECTED, Cut
<1>4. PlaceInv' BY <1>1, <1>2, StillPlaces
<1> QED BY <1>1, <1>3, <1>4

(* Leaving IDLE leaves the reader where the packet is.                      *)
LEMMA IdlePlaces ==
    ASSUME IInv, Idle
    PROVE  PlaceInv'
<1>1. /\ st = "IDLE" /\ st' = "TYPE" /\ stream' = stream /\ taken' = taken /\ closed' = closed
      /\ arrived' = arrived /\ sunk' = sunk /\ finished' = finished
  BY DEF Idle, netVars, sinkVars
<1>2. Cut \/ Between
  <2>1. PlaceInv BY DEF IInv, ReadInv
  <2> QED BY <1>1, <2>1 DEF PlaceInv
<1>3. Cut' \/ Between'
  <2>1. /\ Current' = Current /\ Start' = Start
        /\ EndBefore(stream, Current)' = EndBefore(stream, Current)
    BY <1>1, SamePacket
  <2> QED BY <1>1, <1>2, <2>1 DEF Cut, Between
<1> QED BY <1>1, <1>3, FieldClasses DEF PlaceInv

(* Sums of integers, as the payload needs them.                             *)
LEMMA Behind ==
    ASSUME NEW p \in Int, NEW h \in Int, NEW t \in Int, NEW n \in Int, NEW s \in Int,
           t <= h, p + (h - t) = n - s + 1
    PROVE  p <= n - s + 1
  OBVIOUS

(* Not beyond the end of the packet is not beyond its length, and at the    *)
(* end in one is at the end in the other.                                   *)
LEMMA AtOrBefore ==
    ASSUME NEW p \in Int, NEW n \in Int, NEW e \in Int, NEW s \in Int, NEW l \in Int,
           p <= n - s + 1, n <= e, l = e - s + 1
    PROVE  p <= l /\ (p = l => n = e)
  OBVIOUS

(* The fill and the flush of a payload.                                     *)
LEMMA PayloadPlaces ==
    ASSUME IInv, Payload
    PROVE  /\ PlaceInv' /\ ret' \in Int /\ ret' > EFATAL
           /\ st' \in InnerStates \cup {"FINISHED"}
           /\ taken' \in 0..arrived /\ head' \in 0..PktRoom /\ tail' \in 0..head'
           /\ sunk' \in 0..SinkRoom /\ pos' \in Nat
<1>1. /\ pc = "in" /\ st = "PUBLISH_PAYLOAD" /\ type = PUBLISH
      /\ taken' = taken + Filled
      /\ IF tail + Flushed = head + Filled
         THEN head' = 0 /\ tail' = 0
         ELSE head' = head + Filled /\ tail' = tail + Flushed
      /\ sunk' = sunk + Flushed
      /\ ret' = IF Lent THEN Flushed ELSE EWOULDBLOCK
      /\ pos' = pos + Flushed
      /\ st' = Reached("PUBLISH_PAYLOAD", pos', length) /\ counter' = 0
      /\ stream' = stream /\ finished' = finished /\ pc' = pc /\ type' = type /\ flags' = flags
      /\ length' = length /\ arrived' = arrived
  BY DEF Payload, Looping, PosAfter, netVars, hdrVars
<1>2. Typed BY DEF IInv
<1>3. st \in InnerStates BY <1>1 DEF InnerStates
<1>4. InBody BY <1>3 DEF IInv, ReadInv, PlaceInv
<1>5. /\ Current \in DOMAIN stream.ends /\ FirstByte
      /\ length = End - Start + 1 /\ pos < length
      /\ taken \in (Start + 1)..End /\ pos + (head - tail) = taken - Start + 1
      /\ sunk = pos - (length - stream.payloads[Current])
  BY <1>1, <1>4 DEF InBody
<1>6. /\ Start \in Nat /\ End \in Nat /\ Start < End /\ stream.payloads[Current] \in Nat
      /\ arrived \in Nat /\ taken \in Nat /\ taken <= arrived
      /\ pos \in Nat /\ length \in Nat /\ head \in Nat /\ tail \in Nat /\ tail <= head
      /\ head <= PktRoom /\ PktRoom \in Nat /\ SinkRoom \in Nat /\ sunk \in Nat /\ sunk <= SinkRoom
  BY <1>2, <1>5, Here, Counts, Sizes
<1>7. /\ Filled \in Nat /\ Filled <= arrived - taken /\ Filled <= End - taken
      /\ head + Filled <= PktRoom
      /\ Flushed \in Nat /\ Flushed <= SinkRoom - sunk /\ Flushed <= head + Filled - tail
      /\ ~Lent => Flushed = 0
  BY <1>2, <1>4, Moved
<1> DEFINE a == Filled
           b == Flushed
<1>8. /\ taken' = taken + a /\ pos' = pos + b /\ sunk' = sunk + b
      /\ a \in Nat /\ a <= arrived - taken /\ a <= End - taken /\ head + a <= PktRoom
      /\ b \in Nat /\ b <= SinkRoom - sunk /\ b <= head + a - tail
      /\ IF tail + b = head + a THEN head' = 0 /\ tail' = 0
                                ELSE head' = head + a /\ tail' = tail + b
  BY <1>1, <1>7
<1> HIDE DEF a, b
<1>9. /\ taken' \in 0..arrived /\ head' \in 0..PktRoom /\ tail' \in 0..head'
      /\ sunk' \in 0..SinkRoom /\ pos' \in Nat
  BY <1>6, <1>8
<1>10. /\ pos' + (head' - tail') = taken' - Start + 1
       /\ taken' \in (Start + 1)..End
       /\ sunk' = pos' - (length - stream.payloads[Current])
       /\ pos' <= taken' - Start + 1 /\ taken' <= End
  <2>1. head' \in Nat /\ tail' \in Nat /\ tail' <= head' BY <1>6, <1>9
  <2>2. head' - tail' = (head + a) - (tail + b)
    <3>1. CASE tail + b = head + a BY <1>6, <1>8, <3>1
    <3>2. CASE tail + b # head + a BY <1>6, <1>8, <3>2
    <3> QED BY <3>1, <3>2
  <2>3. pos' + (head' - tail') = taken' - Start + 1
    <3>1. pos + (head - tail) = taken - Start + 1 BY <1>5
    <3>2. /\ pos' = pos + b /\ taken' = taken + a
          /\ pos \in Int /\ taken \in Int /\ a \in Int /\ b \in Int /\ Start \in Int
          /\ head \in Int /\ tail \in Int
      BY <1>6, <1>8
    <3> QED BY <2>2, <3>1, <3>2
  <2>4. taken' \in (Start + 1)..End BY <1>5, <1>6, <1>8
  <2>5. sunk' = pos' - (length - stream.payloads[Current]) BY <1>5, <1>6, <1>8
  <2>6. pos' <= taken' - Start + 1 /\ taken' <= End
    <3>1. /\ pos' \in Int /\ taken' \in Int /\ Start \in Int /\ End \in Int
          /\ head' \in Int /\ tail' \in Int /\ tail' <= head'
      BY <1>6, <1>9, <2>1, <2>4
    <3>2. taken' <= End BY <1>6, <2>4
    <3> QED BY <2>3, <3>1, <3>2, Behind
  <2> QED BY <2>3, <2>4, <2>5, <2>6
<1>11. ret' \in Int /\ ret' > EFATAL /\ (pos' # pos => ret' >= 0)
  <2>1. CASE Lent
    <3>1. ret' = b BY <1>1, <2>1 DEF b
    <3> QED BY <1>8, <3>1 DEF EFATAL
  <2>2. CASE ~Lent
    <3>1. ret' = -1 /\ b = 0 BY <1>1, <1>7, <2>2 DEF b, EWOULDBLOCK
    <3> QED BY <1>6, <1>8, <3>1 DEF EFATAL
  <2> QED BY <2>1, <2>2
<1>12. Current' = Current /\ Start' = Start /\ End' = End BY <1>1, SamePacket
<1>13. /\ pos' \in Int /\ taken' \in Int /\ Start \in Int /\ End \in Int /\ length \in Int
       /\ pos \in Int /\ stream.payloads[Current] \in Int
       /\ pos < length /\ pos' <= length /\ (pos' = length => taken' = End)
       /\ sunk' = pos' - (length - stream.payloads[Current])
  <2>1. pos' \in Int /\ Start \in Int /\ End \in Int /\ length \in Int
        /\ pos \in Int /\ stream.payloads[Current] \in Int
    BY <1>6, <1>9
  <2>2. taken' \in Int BY <2>1, <1>10
  <2> DEFINE p1 == pos'
             t1 == taken'
             e0 == End
             s0 == Start
  <2>3. /\ p1 \in Int /\ t1 \in Int /\ e0 \in Int /\ s0 \in Int /\ length \in Int
        /\ p1 <= t1 - s0 + 1 /\ t1 <= e0 /\ length = e0 - s0 + 1
    BY <1>5, <1>10, <2>1, <2>2
  <2> HIDE DEF p1, t1, e0, s0
  <2>4. p1 <= length /\ (p1 = length => t1 = e0) BY <2>3, AtOrBefore
  <2>5. pos' <= length /\ (pos' = length => taken' = End) BY <2>4 DEF p1, t1, e0, s0
  <2> QED BY <1>5, <1>10, <2>1, <2>2, <2>5
<1>14. CASE pos' = length
  <2>1. st' = "FINISHED" BY <1>1, <1>3, <1>14 DEF Reached
  <2>2. taken' = End /\ sunk' = stream.payloads[Current] /\ pos' # pos
    <3>1. taken' = End BY <1>13, <1>14
    <3>2. pos' # pos BY <1>13, <1>14
    <3>3. sunk' = stream.payloads[Current] BY <1>13, <1>14
    <3> QED BY <3>1, <3>2, <3>3
  <2>3. AtEnd' BY <1>1, <1>5, <1>11, <1>12, <2>2 DEF AtEnd
  <2>4. PlaceInv' BY <1>1, <2>1, <2>3, FieldClasses DEF PlaceInv
  <2> QED BY <1>9, <1>11, <2>1, <2>4
<1>15. CASE pos' # length
  <2>1. st' = "PUBLISH_PAYLOAD" BY <1>1, <1>15 DEF Reached
  <2>2. pos' < length BY <1>13, <1>15
  <2>3. (FirstByte)' BY <1>1, <1>5, <1>12 DEF FirstByte
  <2>4. /\ (Current \in DOMAIN stream.ends)'
        /\ (length = End - Start + 1 /\ pos < length)'
        /\ (taken \in (Start + 1)..End /\ pos + (head - tail) = taken - Start + 1)'
        /\ (sunk = pos - (length - stream.payloads[Current]))'
    BY <1>1, <1>5, <1>10, <1>12, <2>2
  <2>5. InBody' BY <2>1, <2>3, <2>4 DEF InBody
  <2>6. PlaceInv' BY <1>3, <2>1, <2>5, FieldClasses DEF PlaceInv
  <2> QED BY <1>1, <1>3, <1>9, <1>11, <2>1, <2>6
<1> QED BY <1>14, <1>15

-----------------------------------------------------------------------------
(* A call begins and ends.                                                  *)

(* Calling the reader leaves the reader where the packet is.                *)
LEMMA CallPlaces ==
    ASSUME IInv, Call
    PROVE  PlaceInv'
<1>1. /\ pc = "out" /\ pc' = "in" /\ ret' = 0 /\ stream' = stream /\ taken' = taken
      /\ arrived' = arrived /\ closed' = closed /\ sunk' = sunk /\ finished' = finished
  BY DEF Call, netVars, sinkVars
<1>2. CASE st \in EndStates
  <2>1. st' = "IDLE" BY <1>2 DEF Call
  <2>2. Cut \/ Between
    <3>1. PlaceInv BY DEF IInv, ReadInv
    <3> QED BY <1>1, <1>2, <3>1 DEF PlaceInv, EndStates
  <2>3. Cut' \/ Between'
    <3>1. /\ Current' = Current /\ Start' = Start
          /\ EndBefore(stream, Current)' = EndBefore(stream, Current)
      BY <1>1, SamePacket
    <3> QED BY <1>1, <2>2, <3>1 DEF Cut, Between
  <2> QED BY <2>1, <2>3, FieldClasses DEF PlaceInv
<1>3. CASE st \notin EndStates
  <2>1. UNCHANGED <<st, pos, counter, hdrVars, strlen, bufVars>> BY <1>3 DEF Call
  <2>2. st # "FINISHED" BY <1>3 DEF EndStates
  <2>3. Cut => Cut' BY <1>1 DEF Cut
  <2> QED BY <1>1, <2>1, <2>2, <2>3, StillPlaces
<1> QED BY <1>2, <1>3

(* Returning from the reader leaves the reader where the packet is. What it *)
(* has finished is handled.                                                 *)
LEMMA ReturnPlaces ==
    ASSUME IInv, Return
    PROVE  PlaceInv' /\ HandledInv'
<1>1. /\ pc = "in" /\ pc' = "out" /\ ret' = ret /\ stream' = stream /\ taken' = taken
      /\ arrived' = arrived /\ closed' = closed /\ pos' = pos /\ head' = head /\ tail' = tail
      /\ UNCHANGED <<hdrVars, strlen, bufVars>>
      /\ st' = (IF ret <= EFATAL THEN "ERROR" ELSE st)
      /\ counter' = (IF ret <= EFATAL THEN 0 ELSE counter)
      /\ IF st = "FINISHED"
         THEN finished' = Append(finished, [end |-> taken, payload |-> sunk]) /\ sunk' = 0
         ELSE sunk' = sunk /\ finished' = finished
  BY DEF Return, netVars, bufVars, sinkVars
<1>2. Typed /\ PlaceInv /\ HandledInv /\ (ret <= EFATAL => Cut) BY DEF IInv, ReadInv
<1>3. CASE st = "FINISHED"
  <2>1. AtEnd BY <1>1, <1>2, <1>3 DEF PlaceInv
  <2>2. Current \in DOMAIN stream.ends /\ taken = End /\ sunk = stream.payloads[Current] /\ ret >= 0
    BY <2>1 DEF AtEnd
  <2>3. st' = "FINISHED" /\ ret \in Int
    <3>1. ret \in Int BY <1>2 DEF Typed
    <3>2. ~(ret <= EFATAL) BY <2>2, <3>1 DEF EFATAL
    <3> QED BY <1>1, <1>3, <3>1, <3>2
  <2> DEFINE h == [end |-> taken, payload |-> sunk]
  <2>4. /\ finished \in Seq([end : Nat, payload : Nat]) /\ h \in [end : Nat, payload : Nat]
        /\ finished' = Append(finished, h) /\ Len(finished) \in Nat
    <3>1. taken \in Nat /\ sunk \in Nat BY <1>2, Counts
    <3> QED BY <1>1, <1>2, <1>3, <3>1 DEF HandledInv
  <2>5. /\ finished' \in Seq([end : Nat, payload : Nat]) /\ Len(finished') = Len(finished) + 1
        /\ \A i \in 1..Len(finished) : finished'[i] = finished[i]
        /\ finished'[Len(finished) + 1] = h
        /\ DOMAIN finished' = 1..(Len(finished) + 1) /\ DOMAIN finished = 1..Len(finished)
    <3> HIDE DEF h
    <3> QED BY <2>4
  <2>6. HandledInv'
    <3>1. ASSUME NEW i \in DOMAIN finished'
          PROVE  /\ i \in DOMAIN stream.ends
                 /\ finished'[i] = [end |-> stream.ends[i], payload |-> stream.payloads[i]]
      <4>1. CASE i = Len(finished) + 1
        <5>1. i = Current BY <4>1 DEF Current
        <5>2. finished'[i] = h BY <2>5, <4>1
        <5> QED BY <2>2, <5>1, <5>2 DEF End
      <4>2. CASE i # Len(finished) + 1
        <5>1. i \in 1..Len(finished) BY <2>4, <2>5, <4>2
        <5>2. i \in DOMAIN finished /\ finished'[i] = finished[i] BY <2>5, <5>1
        <5> QED BY <1>2, <5>2 DEF HandledInv
      <4> QED BY <4>1, <4>2
    <3> QED BY <1>1, <2>5, <3>1 DEF HandledInv
  <2>7. Between'
    <3> DEFINE i == Current
    <3>1. Current' = i + 1 BY <2>4, <2>5 DEF Current
    <3>2. /\ EndBefore(stream, i + 1) = stream.ends[i]
          /\ i + 1 \in DOMAIN stream.ends \/ i + 1 = Len(stream.ends) + 1
      BY <1>2, <2>2, NextBefore, Counts
    <3>3. sunk' = 0 /\ stream' = stream /\ taken' = stream.ends[i]
      BY <1>1, <1>3, <2>2 DEF End
    <3>4. stream \in Streams BY <1>2, Counts
    <3> HIDE DEF i
    <3>5. CASE i + 1 \in DOMAIN stream.ends
      <4> DEFINE j == i + 1
      <4>1. /\ stream.starts[j] \in Nat /\ EndBefore(stream, j) \in Nat
            /\ EndBefore(stream, j) < stream.starts[j]
        BY <3>4, <3>5, PacketBounds
      <4> HIDE DEF j
      <4>2. EndBefore(stream, j) = taken' /\ Current' = j /\ j \in DOMAIN stream.ends
        BY <3>1, <3>2, <3>3, <3>5 DEF j
      <4>3. taken' \in EndBefore(stream, j)..(stream.starts[j] - 1) BY <4>1, <4>2
      <4>4. (Current \in DOMAIN stream.ends /\ taken \in EndBefore(stream, Current)..(Start - 1))'
        BY <3>3, <4>2, <4>3 DEF Start
      <4> QED BY <3>3, <4>4 DEF Between
    <3>6. CASE i + 1 = Len(stream.ends) + 1
      <4>1. EndBefore(stream, Len(stream.ends) + 1) = Len(stream.bytes) BY <3>4, StreamBounds
      <4>2. taken' = Len(stream.bytes) BY <3>2, <3>3, <3>6, <4>1
      <4>3. (Current = Len(stream.ends) + 1 /\ taken = Len(stream.bytes))' BY <3>1, <3>3, <3>6, <4>2
      <4> QED BY <3>3, <4>3 DEF Between
    <3> QED BY <3>2, <3>5, <3>6
  <2>8. PlaceInv' BY <1>1, <2>3, <2>7, FieldClasses DEF PlaceInv
  <2> QED BY <2>6, <2>8
<1>4. CASE st # "FINISHED"
  <2>1. sunk' = sunk /\ finished' = finished BY <1>1, <1>4
  <2>2. HandledInv' BY <1>1, <1>2, <2>1, SamePacket
  <2>3. CASE ret <= EFATAL
    <3>1. st' = "ERROR" /\ Cut' BY <1>1, <1>2, <2>3 DEF Cut
    <3> QED BY <2>2, <3>1, FieldClasses DEF PlaceInv
  <2>4. CASE ~(ret <= EFATAL)
    <3>1. st' = st /\ counter' = counter /\ (Cut => Cut') BY <1>1, <2>4 DEF Cut
    <3>2. PlaceInv' BY <1>1, <1>4, <2>1, <3>1, StillPlaces
    <3> QED BY <2>2, <3>2
  <2> QED BY <2>3, <2>4
<1> QED BY <1>3, <1>4

-----------------------------------------------------------------------------
(* Every variable keeps its type, and the rest of the invariant holds.      *)

Reading == InnerStates \cup EndStates \cup {"LEN"}

(* Where changestate can lead.                                              *)
LEMMA Reaches ==
    ASSUME NEW new \in InnerStates \cup EndStates, NEW p, NEW len
    PROVE  Reached(new, p, len) \in InnerStates \cup EndStates
  BY DEF Reached, EndStates

(* The states in which a packet is under way are states of the reader.      *)
LEMMA ReadingStates ==
    /\ Reading \subseteq States
    /\ \A s \in Reading : s \notin {"IDLE", "TYPE"}
    /\ {"IDLE", "TYPE", "ERROR", "FINISHED"} \subseteq States
  BY FieldClasses DEF Reading, States, EndStates

(* A remainder is below the divisor.                                        *)
LEMMA Remainder ==
    ASSUME NEW a \in Nat, NEW b \in Nat, b > 0
    PROVE  a % b \in 0..(b - 1)
  OBVIOUS

(* The counter keeps its width.                                             *)
LEMMA CountTyped ==
    ASSUME Typed
    PROVE  Count \in 0..(CounterWidth - 1) /\ 0 \in 0..(CounterWidth - 1)
<1>1. counter + 1 \in Nat /\ CounterWidth \in Nat /\ CounterWidth > 2 BY Counts, Sizes
<1>2. (counter + 1) % CounterWidth \in 0..(CounterWidth - 1) BY <1>1, Remainder
<1> QED BY <1>1, <1>2 DEF Count

(* Strings are counted in a word.                                           *)
LEMMA WordSize == Word \in Nat /\ Word > 0 /\ 0 \in 0..(Word - 1)
  BY DEF Word

(* A turn that takes a byte and leaves the reader in its place keeps the    *)
(* inductive invariant.                                                     *)
LEMMA TakesKeeps ==
    ASSUME IInv, NEW S, Takes(S), PlaceInv', st' \in Reading,
           counter' \in 0..(CounterWidth - 1),
           type' \in 0..15, flags' \in 0..15, length' \in Nat, mult' \in Nat,
           strlen' \in 0..(Word - 1)
    PROVE  IInv'
<1>1. /\ arrived > taken /\ taken' = taken + 1 /\ pos' = pos + 1 /\ ret' = 1
      /\ stream' = stream /\ arrived' = arrived /\ closed' = closed /\ pc' = pc
      /\ head' = head /\ tail' = tail /\ free' = free /\ have' = have /\ sunk' = sunk
      /\ finished' = finished
  BY DEF Takes, netVars, bufVars, sinkVars
<1>2. Typed /\ HandledInv BY DEF IInv, ReadInv
<1>3. arrived \in Nat /\ taken \in Nat /\ pos \in Nat BY <1>2, Counts
<1>4. taken' \in 0..arrived /\ pos' \in Nat BY <1>1, <1>3
<1>5. st' \in States /\ ret' \in Int BY <1>1, ReadingStates
<1>6. Typed' BY <1>1, <1>2, <1>4, <1>5 DEF Typed
<1>7. HandledInv' BY <1>1, <1>2, SamePacket
<1> QED BY <1>1, <1>6, <1>7, ReadingStates DEF IInv, ReadInv, EFATAL

(* A field of the body leaves the header as it is.                          *)
LEMMA FieldKeeps ==
    ASSUME IInv, NEW S, Takes(S), S \subseteq InnerStates, PlaceInv', UNCHANGED hdrVars,
           strlen' \in 0..(Word - 1),
           \/ \E new \in InnerStates \cup EndStates : MoveTo(new)
           \/ Stay
    PROVE  IInv'
<1>1. Typed BY DEF IInv
<1>2. st' \in Reading /\ counter' \in 0..(CounterWidth - 1)
  <2>1. ASSUME NEW new \in InnerStates \cup EndStates, MoveTo(new)
        PROVE  st' \in Reading /\ counter' \in 0..(CounterWidth - 1)
    BY <1>1, <2>1, Reaches, CountTyped DEF MoveTo, Reading
  <2>2. ASSUME Stay PROVE st' \in Reading /\ counter' \in 0..(CounterWidth - 1)
    BY <1>1, <2>2, CountTyped DEF Stay, Takes, Reading
  <2> QED BY <2>1, <2>2
<1>3. type' \in 0..15 /\ flags' \in 0..15 /\ length' \in Nat /\ mult' \in Nat
  BY <1>1 DEF Typed, hdrVars
<1> QED BY <1>2, <1>3, TakesKeeps

(* A byte of a one-byte field keeps the inductive invariant.                *)
LEMMA U8Keeps ==
    ASSUME IInv, ReadU8
    PROVE  IInv'
<1>1. /\ Takes(DOMAIN U8Next) /\ MoveTo(U8Next[st]) /\ UNCHANGED <<hdrVars, strlen>>
      /\ st \in DOMAIN U8Next
  BY DEF ReadU8, Takes
<1>2. DOMAIN U8Next \subseteq InnerStates BY DEF InnerStates
<1>3. U8Next[st] \in InnerStates \cup EndStates BY <1>1, OneByteAgrees DEF EndStates
<1>4. strlen' \in 0..(Word - 1) BY <1>1 DEF IInv, Typed
<1>5. \E new \in InnerStates \cup EndStates : MoveTo(new) BY <1>1, <1>3
<1> QED BY <1>1, <1>2, <1>4, <1>5, U8Places, FieldKeeps

(* A byte of a two-byte field keeps the inductive invariant.                *)
LEMMA U16Keeps ==
    ASSUME IInv, ReadU16
    PROVE  IInv'
<1>1. /\ Takes(DOMAIN U16Next) /\ UNCHANGED hdrVars /\ st \in DOMAIN U16Next
      /\ MoveTo(U16Next[st]) \/ Stay
      /\ strlen' = (strlen * 256 + NewByte) % Word \/ strlen' = strlen
      /\ arrived > taken
  BY DEF ReadU16, Takes
<1>2. Typed BY DEF IInv
<1>3. DOMAIN U16Next \subseteq InnerStates BY DEF InnerStates
<1>4. U16Next[st] \in InnerStates \cup EndStates BY <1>1, TwoBytesAgree, FieldClasses DEF EndStates
<1>5. strlen' \in 0..(Word - 1)
  <2>1. strlen \in 0..(Word - 1) BY <1>2 DEF Typed
  <2>2. NewByte \in 0..255 BY <1>1, <1>2, Counts
  <2>3. strlen * 256 + NewByte \in Nat BY <2>1, <2>2, WordSize
  <2>4. (strlen * 256 + NewByte) % Word \in 0..(Word - 1) BY <2>3, Remainder, WordSize
  <2> QED BY <1>1, <2>1, <2>4
<1>6. (\E new \in InnerStates \cup EndStates : MoveTo(new)) \/ Stay BY <1>1, <1>4
<1> QED BY <1>1, <1>3, <1>5, <1>6, U16Places, FieldKeeps

(* A byte of a string keeps the inductive invariant.                        *)
LEMMA StringKeeps ==
    ASSUME IInv, ReadString
    PROVE  IInv'
<1>1. /\ Takes(DOMAIN StringNext) /\ UNCHANGED hdrVars /\ strlen' = strlen
      /\ st \in DOMAIN StringNext
      /\ (\E new \in StringNext[st] : MoveTo(new)) \/ Stay
  BY DEF ReadString, Takes
<1>2. DOMAIN StringNext \subseteq InnerStates BY DEF InnerStates
<1>3. StringNext[st] \subseteq InnerStates
  BY <1>1 DEF StringNext, InnerStates, U8Next, U16Next
<1>4. strlen' \in 0..(Word - 1) BY <1>1 DEF IInv, Typed
<1>5. (\E new \in InnerStates \cup EndStates : MoveTo(new)) \/ Stay BY <1>1, <1>3
<1> QED BY <1>1, <1>2, <1>4, <1>5, StringPlaces, FieldKeeps

(* The first byte of a packet keeps the inductive invariant.                *)
LEMMA TypeKeeps ==
    ASSUME IInv, ReadType
    PROVE  IInv'
<1>1. /\ Takes({"TYPE"}) /\ arrived > taken /\ counter' = 0 /\ strlen' = strlen
      /\ type' = NewByte \div 16
      /\ \/ flags' = NewByte % 16 /\ length' = 1 /\ mult' = 1 /\ st' = "LEN"
         \/ flags' = flags /\ length' = length /\ mult' = mult /\ st' = "ERROR"
  BY DEF ReadType, Takes
<1>2. Typed BY DEF IInv
<1>3. NewByte \in 0..255 BY <1>1, <1>2, Counts
<1>4. NewByte \div 16 \in 0..15 /\ NewByte % 16 \in 0..15 BY <1>3
<1>5. counter' \in 0..(CounterWidth - 1) BY <1>1, <1>2, CountTyped
<1>6. /\ type' \in 0..15 /\ flags' \in 0..15 /\ length' \in Nat /\ mult' \in Nat
      /\ strlen' \in 0..(Word - 1)
  <2>1. /\ flags \in 0..15 /\ length \in Nat /\ mult \in Nat /\ strlen \in 0..(Word - 1)
    BY <1>2 DEF Typed
  <2>2. strlen' \in 0..(Word - 1) BY <1>1, <2>1
  <2>3. type' \in 0..15 BY <1>1, <1>4
  <2>4. flags' \in 0..15 /\ length' \in Nat /\ mult' \in Nat BY <1>1, <1>4, <2>1
  <2> QED BY <2>2, <2>3, <2>4
<1>7. st' \in Reading BY <1>1 DEF Reading, EndStates
<1> QED BY <1>1, <1>5, <1>6, <1>7, TypePlaces, TakesKeeps

(* A digit of the remaining length keeps the inductive invariant.           *)
LEMMA LenKeeps ==
    ASSUME IInv, ReadLen
    PROVE  IInv'
<1>1. /\ Takes({"LEN"}) /\ st = "LEN" /\ arrived > taken
      /\ type' = type /\ flags' = flags /\ strlen' = strlen
      /\ length' = length + 1 + (NewByte % 128) * mult /\ mult' = mult * 128
      /\ \/ st' = Reached(AfterLen(type, length', pos + 1), pos + 1, length') /\ counter' = 0
         \/ Stay
  BY DEF ReadLen, Takes
<1>2. Typed BY DEF IInv
<1>3. length' \in Nat /\ mult' \in Nat
  <2>1. NewByte % 128 \in Nat
    <3>1. NewByte \in 0..255 BY <1>1, <1>2, Counts
    <3> QED BY <3>1
  <2>2. \A a \in Nat, b \in Nat : a * b \in Nat OBVIOUS
  <2>3. mult \in Nat /\ length \in Nat BY <1>2 DEF Typed
  <2>4. (NewByte % 128) * mult \in Nat BY <2>1, <2>2, <2>3
  <2> QED BY <1>1, <2>3, <2>4
<1>4. st' \in Reading /\ counter' \in 0..(CounterWidth - 1)
  <2>1. AfterLen(type, length', pos + 1) \in InnerStates \cup EndStates
    BY DEF AfterLen, InnerStates, U8Next, U16Next, EndStates
  <2>2. Reached(AfterLen(type, length', pos + 1), pos + 1, length') \in InnerStates \cup EndStates
    BY <2>1, Reaches
  <2> QED BY <1>1, <1>2, <2>2, CountTyped DEF Stay, Reading
<1>5. type' \in 0..15 /\ flags' \in 0..15 /\ strlen' \in 0..(Word - 1)
  BY <1>1, <1>2 DEF Typed
<1> QED BY <1>1, <1>3, <1>4, <1>5, LenPlaces, TakesKeeps

(* A turn inside a payload keeps the inductive invariant.                   *)
LEMMA PayloadKeeps ==
    ASSUME IInv, Payload
    PROVE  IInv'
<1>1. /\ stream' = stream /\ arrived' = arrived /\ closed' = closed /\ pc' = pc
      /\ type' = type /\ flags' = flags /\ length' = length /\ mult' = mult /\ strlen' = strlen
      /\ finished' = finished /\ counter' = 0 /\ have' = Lent /\ free' = (free /\ ~have')
  BY DEF Payload, netVars, hdrVars
<1>2. Typed /\ HandledInv BY DEF IInv, ReadInv
<1>3. /\ PlaceInv' /\ ret' \in Int /\ ret' > EFATAL
      /\ st' \in InnerStates \cup {"FINISHED"}
      /\ taken' \in 0..arrived /\ head' \in 0..PktRoom /\ tail' \in 0..head'
      /\ sunk' \in 0..SinkRoom /\ pos' \in Nat
  BY PayloadPlaces
<1>4. st' \in Reading BY <1>3 DEF Reading, EndStates
<1>5. have' \in BOOLEAN /\ free' \in BOOLEAN
  <2>1. have \in BOOLEAN /\ free \in BOOLEAN BY <1>2 DEF Typed
  <2>2. have' \in BOOLEAN BY <1>1, <2>1 DEF Lent
  <2> QED BY <1>1, <2>1, <2>2
<1>6. counter' \in 0..(CounterWidth - 1) BY <1>1, <1>2, CountTyped
<1>7. Typed' BY <1>1, <1>2, <1>3, <1>4, <1>5, <1>6, ReadingStates DEF Typed
<1>8. HandledInv' BY <1>1, <1>2, SamePacket
<1>9. ~(ret' <= EFATAL) BY <1>3 DEF EFATAL
<1> QED BY <1>3, <1>4, <1>7, <1>8, <1>9, ReadingStates DEF IInv, ReadInv

(* Giving up for want of bytes keeps the inductive invariant.               *)
LEMMA StarvedKeeps ==
    ASSUME IInv, Starved \/ PayloadStarved
    PROVE  IInv'
<1>1. /\ stream' = stream /\ arrived' = arrived /\ closed' = closed /\ taken' = taken /\ pc' = pc
      /\ st' = st /\ pos' = pos /\ counter' = counter
      /\ type' = type /\ flags' = flags /\ length' = length /\ mult' = mult /\ strlen' = strlen
      /\ head' = head /\ tail' = tail /\ free' = free /\ have' = have /\ sunk' = sunk
      /\ finished' = finished
      /\ ret' = 0 \/ ret' = NoByte
  BY DEF Starved, PayloadStarved, netVars, hdrVars, bufVars, sinkVars
<1>2. Typed /\ ReadInv BY DEF IInv
<1>3. ret' \in Int BY <1>1 DEF NoByte, EWOULDBLOCK, EREMOTEDISCONNECTED
<1>4. Typed' BY <1>1, <1>2, <1>3 DEF Typed
<1>5. HandledInv' BY <1>1, <1>2, SamePacket DEF ReadInv
<1>6. PlaceInv' /\ (ret' <= EFATAL => Cut') BY StarvedPlaces
<1> QED BY <1>1, <1>2, <1>4, <1>5, <1>6 DEF IInv, ReadInv

(* Leaving IDLE keeps the inductive invariant.                              *)
LEMMA IdleKeeps ==
    ASSUME IInv, Idle
    PROVE  IInv'
<1>1. /\ stream' = stream /\ arrived' = arrived /\ closed' = closed /\ taken' = taken /\ pc' = pc
      /\ st = "IDLE" /\ st' = "TYPE" /\ pos' = pos /\ counter' = 0 /\ ret' = 0
      /\ type' = type /\ flags' = flags /\ length' = length /\ mult' = mult /\ strlen' = strlen
      /\ head' = head /\ tail' = tail /\ free' = free /\ have' = have /\ sunk' = sunk
      /\ finished' = finished
  BY DEF Idle, netVars, hdrVars, bufVars, sinkVars
<1>2. Typed /\ ReadInv BY DEF IInv
<1>3. counter' \in 0..(CounterWidth - 1) BY <1>1, <1>2, CountTyped
<1>4. Typed' BY <1>1, <1>2, <1>3, ReadingStates DEF Typed
<1>5. HandledInv' BY <1>1, <1>2, SamePacket DEF ReadInv
<1>6. pos' = 0 /\ head' = 0 /\ tail' = 0 BY <1>1, <1>2 DEF ReadInv
<1> QED BY <1>1, <1>4, <1>5, <1>6, IdlePlaces DEF IInv, ReadInv, EFATAL

(* Calling the reader keeps the inductive invariant.                        *)
LEMMA CallKeeps ==
    ASSUME IInv, Call
    PROVE  IInv'
<1>1. /\ stream' = stream /\ arrived' = arrived /\ closed' = closed /\ taken' = taken
      /\ pc' = "in" /\ ret' = 0 /\ free' = free /\ have' = have /\ sunk' = sunk
      /\ finished' = finished
      /\ \/ /\ st' = "IDLE" /\ pos' = 0 /\ counter' = 0
            /\ type' = 0 /\ flags' = 0 /\ length' = 0 /\ mult' = 0 /\ strlen' = 0
            /\ head' = 0 /\ tail' = 0
         \/ /\ st' = st /\ pos' = pos /\ counter' = counter
            /\ type' = type /\ flags' = flags /\ length' = length /\ mult' = mult
            /\ strlen' = strlen /\ head' = head /\ tail' = tail
  BY DEF Call, netVars, hdrVars, bufVars, sinkVars
<1>2. Typed /\ ReadInv BY DEF IInv
<1>3. /\ st' \in States /\ pos' \in Nat /\ counter' \in 0..(CounterWidth - 1)
      /\ type' \in 0..15 /\ flags' \in 0..15 /\ length' \in Nat /\ mult' \in Nat
      /\ strlen' \in 0..(Word - 1) /\ head' \in 0..PktRoom /\ tail' \in 0..head'
  <2>1. /\ st \in States /\ pos \in Nat /\ counter \in 0..(CounterWidth - 1)
        /\ type \in 0..15 /\ flags \in 0..15 /\ length \in Nat /\ mult \in Nat
        /\ strlen \in 0..(Word - 1) /\ head \in 0..PktRoom /\ tail \in 0..head
    BY <1>2 DEF Typed
  <2>2. 0 \in 0..(CounterWidth - 1) /\ 0 \in 0..(Word - 1) /\ 0 \in 0..PktRoom
    BY <1>2, CountTyped, WordSize, Sizes
  <2>3. 0 \in 0..0 /\ 0 \in 0..15 OBVIOUS
  <2> QED BY <1>1, <2>1, <2>2, <2>3, ReadingStates
<1>4. Typed' BY <1>1, <1>2, <1>3 DEF Typed
<1>5. HandledInv' BY <1>1, <1>2, SamePacket DEF ReadInv
<1>6. st' \in {"IDLE", "TYPE"} => pos' = 0 /\ head' = 0 /\ tail' = 0
  BY <1>1, <1>2 DEF ReadInv
<1> QED BY <1>1, <1>4, <1>5, <1>6, CallPlaces DEF IInv, ReadInv, EFATAL

(* Returning from it keeps the inductive invariant.                         *)
LEMMA ReturnKeeps ==
    ASSUME IInv, Return
    PROVE  IInv'
<1>1. /\ stream' = stream /\ arrived' = arrived /\ closed' = closed /\ taken' = taken
      /\ pc' = "out" /\ ret' = ret /\ pos' = pos
      /\ type' = type /\ flags' = flags /\ length' = length /\ mult' = mult /\ strlen' = strlen
      /\ head' = head /\ tail' = tail
      /\ st' = "ERROR" \/ st' = st
      /\ counter' = 0 \/ counter' = counter
      /\ sunk' = 0 \/ sunk' = sunk
      /\ have' = FALSE \/ have' = have
      /\ free' = (free \/ have) \/ free' = free
  BY DEF Return, netVars, hdrVars, bufVars, sinkVars
<1>2. Typed /\ ReadInv BY DEF IInv
<1>3. /\ st' \in States /\ counter' \in 0..(CounterWidth - 1) /\ sunk' \in 0..SinkRoom
      /\ have' \in BOOLEAN
  <2>1. /\ st \in States /\ counter \in 0..(CounterWidth - 1) /\ sunk \in 0..SinkRoom
        /\ have \in BOOLEAN
    BY <1>2 DEF Typed
  <2>2. 0 \in 0..(CounterWidth - 1) /\ 0 \in 0..SinkRoom BY <1>2, CountTyped, Sizes
  <2> QED BY <1>1, <2>1, <2>2, ReadingStates
<1>4. free' \in BOOLEAN
  <2>1. free \in BOOLEAN /\ have \in BOOLEAN BY <1>2 DEF Typed
  <2> QED BY <1>1, <2>1
<1>5. Typed' BY <1>1, <1>2, <1>3, <1>4 DEF Typed
<1>6. PlaceInv' /\ HandledInv' BY ReturnPlaces
<1>7. ret' <= EFATAL => Cut' BY <1>1, <1>2 DEF ReadInv, Cut
<1>8. st' \in {"IDLE", "TYPE"} => pos' = 0 /\ head' = 0 /\ tail' = 0
  BY <1>1, <1>2 DEF ReadInv
<1> QED BY <1>5, <1>6, <1>7, <1>8 DEF IInv, ReadInv

(* The environment, and the assertion that stops the program.               *)
LEMMA OthersKeep ==
    ASSUME IInv, Arrive \/ Close \/ OthersTake \/ OthersFree \/ AssertFails
    PROVE  IInv'
<1>1. /\ stream' = stream /\ taken' = taken /\ ret' = ret /\ st' = st /\ pos' = pos
      /\ counter' = counter /\ type' = type /\ flags' = flags /\ length' = length /\ mult' = mult
      /\ strlen' = strlen /\ head' = head /\ tail' = tail /\ have' = have /\ sunk' = sunk
      /\ finished' = finished
  BY DEF Arrive, Close, OthersTake, OthersFree, AssertFails, netVars, hdrVars, bufVars, sinkVars
<1>2. /\ \/ arrived' = arrived
         \/ arrived' = arrived + 1 /\ arrived < Len(stream.bytes) /\ ~closed
      /\ closed' = closed \/ (closed' = TRUE /\ arrived' = arrived)
      /\ free' = free \/ free' = TRUE \/ free' = FALSE
      /\ pc' = pc \/ (pc' = "dead" /\ st # "FINISHED")
  <2>1. CASE Arrive
    <3>1. /\ arrived' = arrived + 1 /\ arrived < Len(stream.bytes) /\ ~closed
          /\ closed' = closed /\ free' = free /\ pc' = pc
      BY <2>1 DEF Arrive, sinkVars
    <3> QED BY <3>1
  <2>2. CASE Close
    <3>1. closed' = TRUE /\ arrived' = arrived /\ free' = free /\ pc' = pc
      BY <2>2 DEF Close, sinkVars
    <3> QED BY <3>1
  <2>3. CASE OthersTake
    <3>1. free' = FALSE /\ closed' = closed /\ arrived' = arrived /\ pc' = pc
      BY <2>3 DEF OthersTake, netVars
    <3> QED BY <3>1
  <2>4. CASE OthersFree
    <3>1. free' = TRUE /\ closed' = closed /\ arrived' = arrived /\ pc' = pc
      BY <2>4 DEF OthersFree, netVars
    <3> QED BY <3>1
  <2>5. CASE AssertFails BY <2>5 DEF AssertFails, Looping, EndStates, netVars, sinkVars
  <2> QED BY <2>1, <2>2, <2>3, <2>4, <2>5
<1>3. Typed /\ ReadInv BY DEF IInv
<1>4. arrived' \in 0..Len(stream.bytes) /\ taken \in 0..arrived'
  BY <1>2, <1>3, Counts
<1>5. /\ closed' \in BOOLEAN /\ free' \in BOOLEAN /\ pc' \in {"in", "out", "dead"}
  BY <1>2, <1>3 DEF Typed
<1>6. Typed' BY <1>1, <1>3, <1>4, <1>5 DEF Typed
<1>7. Cut => Cut' BY <1>1, <1>2 DEF Cut
<1>8. HandledInv' BY <1>1, <1>3, SamePacket DEF ReadInv
<1>9. PlaceInv'
  <2>1. UNCHANGED <<stream, taken, st, pos, counter, hdrVars, strlen, bufVars, sunk, finished>>
    BY <1>1 DEF hdrVars, bufVars
  <2>2. st = "FINISHED" => UNCHANGED <<pc, ret>> BY <1>1, <1>2
  <2> QED BY <1>7, <2>1, <2>2, StillPlaces
<1> QED BY <1>1, <1>3, <1>6, <1>7, <1>8, <1>9 DEF IInv, ReadInv

(* A step that changes nothing keeps the inductive invariant.               *)
LEMMA StutterKeeps ==
    ASSUME IInv, UNCHANGED vars
    PROVE  IInv'
<1>1. /\ stream' = stream /\ arrived' = arrived /\ closed' = closed /\ taken' = taken /\ pc' = pc
      /\ ret' = ret /\ st' = st /\ pos' = pos /\ counter' = counter
      /\ type' = type /\ flags' = flags /\ length' = length /\ mult' = mult /\ strlen' = strlen
      /\ head' = head /\ tail' = tail /\ free' = free /\ have' = have /\ sunk' = sunk
      /\ finished' = finished
  BY DEF vars, netVars, hdrVars, bufVars, sinkVars
<1>2. Typed /\ ReadInv BY DEF IInv
<1>3. Typed' BY <1>1, <1>2 DEF Typed
<1>4. Cut => Cut' BY <1>1 DEF Cut
<1>5. HandledInv' BY <1>1, <1>2, SamePacket DEF ReadInv
<1>6. PlaceInv'
  <2>1. UNCHANGED <<stream, taken, st, pos, counter, hdrVars, strlen, bufVars, sunk, finished>>
    BY <1>1 DEF hdrVars, bufVars
  <2> QED BY <1>1, <1>4, <2>1, StillPlaces
<1> QED BY <1>1, <1>2, <1>3, <1>4, <1>5, <1>6 DEF IInv, ReadInv

-----------------------------------------------------------------------------
(* The invariant.                                                           *)

(* The inductive invariant holds at the start.                              *)
LEMMA InvInit == Init => IInv
<1> SUFFICES ASSUME Init PROVE IInv
  OBVIOUS
<1>1. /\ stream \in Streams /\ arrived = 0 /\ closed = FALSE /\ taken = 0
      /\ pc = "out" /\ ret = 0 /\ st = "IDLE" /\ pos = 0 /\ counter = 0
      /\ type = 0 /\ flags = 0 /\ length = 0 /\ mult = 0 /\ strlen = 0
      /\ head = 0 /\ tail = 0 /\ free = TRUE /\ have = FALSE /\ sunk = 0 /\ finished = <<>>
  BY DEF Init
<1>2. /\ Len(stream.ends) \in Nat /\ Len(stream.bytes) \in Nat
      /\ DOMAIN stream.ends = 1..Len(stream.ends)
      /\ EndBefore(stream, Len(stream.ends) + 1) = Len(stream.bytes)
  BY <1>1, StreamBounds
<1>3. Typed
  <2>1. /\ arrived \in 0..Len(stream.bytes) /\ taken \in 0..arrived
        /\ counter \in 0..(CounterWidth - 1) /\ head \in 0..PktRoom /\ tail \in 0..head
        /\ sunk \in 0..SinkRoom
    BY <1>1, <1>2, Sizes
  <2>2. strlen \in 0..(Word - 1) BY <1>1, WordSize
  <2>3. /\ type \in 0..15 /\ flags \in 0..15 /\ ret \in Int /\ pos \in Nat
        /\ length \in Nat /\ mult \in Nat
    BY <1>1
  <2>4. /\ st \in States /\ pc \in {"in", "out", "dead"} /\ closed \in BOOLEAN
        /\ free \in BOOLEAN /\ have \in BOOLEAN
    BY <1>1, ReadingStates
  <2> QED BY <1>1, <2>1, <2>2, <2>3, <2>4 DEF Typed
<1>4. HandledInv BY <1>1 DEF HandledInv
<1>5. Between
  <2>1. Current = 1 /\ EndBefore(stream, 1) = 0 BY <1>1 DEF Current, EndBefore
  <2>2. CASE Len(stream.ends) = 0
    <3>1. Len(stream.bytes) = 0 BY <1>2, <2>1, <2>2
    <3> QED BY <1>1, <2>1, <2>2, <3>1 DEF Between
  <2>3. CASE Len(stream.ends) # 0
    <3>1. Current \in DOMAIN stream.ends BY <1>2, <2>1, <2>3
    <3>2. Start \in Nat /\ 0 < Start BY <1>3, <2>1, <3>1, Here
    <3>3. taken \in EndBefore(stream, Current)..(Start - 1) BY <1>1, <2>1, <3>2
    <3> QED BY <1>1, <3>1, <3>3 DEF Between
  <2> QED BY <2>2, <2>3
<1>6. PlaceInv BY <1>1, <1>5, FieldClasses DEF PlaceInv
<1> QED BY <1>1, <1>3, <1>4, <1>6 DEF IInv, ReadInv, EFATAL

(* Every step keeps it.                                                     *)
LEMMA InvStep == IInv /\ [Next]_vars => IInv'
<1> SUFFICES ASSUME IInv, [Next]_vars PROVE IInv'
  OBVIOUS
<1>1. CASE Arrive \/ Close \/ OthersTake \/ OthersFree \/ AssertFails BY <1>1, OthersKeep
<1>2. CASE Call BY <1>2, CallKeeps
<1>3. CASE Idle BY <1>3, IdleKeeps
<1>4. CASE Starved \/ PayloadStarved BY <1>4, StarvedKeeps
<1>5. CASE ReadType BY <1>5, TypeKeeps
<1>6. CASE ReadLen BY <1>6, LenKeeps
<1>7. CASE ReadU8 BY <1>7, U8Keeps
<1>8. CASE ReadU16 BY <1>8, U16Keeps
<1>9. CASE ReadString BY <1>9, StringKeeps
<1>10. CASE Payload BY <1>10, PayloadKeeps
<1>11. CASE Return BY <1>11, ReturnKeeps
<1>12. CASE UNCHANGED vars BY <1>12, StutterKeeps
<1> QED
  BY <1>1, <1>2, <1>3, <1>4, <1>5, <1>6, <1>7, <1>8, <1>9, <1>10, <1>11, <1>12 DEF Next, Turn

(* It holds in every reachable state.                                       *)
LEMMA InvHolds == Spec => []IInv
  BY InvInit, InvStep, PTL DEF Spec

(* Every variable has its type, and the bytes of a packet that were passed  *)
(* on and those held in pkt->buffer never go beyond the packet's end        *)
(* (libmqtt_readpkt, publishstates).                                        *)
THEOREM TypeCorrect == Spec => []TypeOK
<1>1. IInv => TypeOK
  <2> SUFFICES ASSUME IInv PROVE TypeOK
    OBVIOUS
  <2>1. Typed BY DEF IInv
  <2>2. ASSUME st \in InnerStates PROVE pos + (head - tail) <= length
    <3>1. InBody BY <2>2 DEF IInv, ReadInv, PlaceInv
    <3>2. /\ Current \in DOMAIN stream.ends /\ length = End - Start + 1
          /\ taken \in (Start + 1)..End /\ pos + (head - tail) = taken - Start + 1
      BY <3>1 DEF InBody
    <3>3. Start \in Int /\ End \in Int /\ taken \in Int BY <2>1, <3>2, Here, Counts
    <3> DEFINE n == pos + (head - tail)
    <3>4. n \in Int /\ length \in Int
      <4>1. pos \in Int /\ head \in Int /\ tail \in Int /\ length \in Int BY <2>1, Counts
      <4> QED BY <4>1
    <3>5. n <= taken - Start + 1 BY <3>2, <3>3, <3>4
    <3>6. taken <= End BY <3>2, <3>3
    <3> HIDE DEF n
    <3>7. n <= length BY <3>2, <3>3, <3>4, <3>5, <3>6, AtOrBefore
    <3> QED BY <3>7 DEF n
  <2> QED BY <2>1, <2>2 DEF TypeOK
<1> QED BY <1>1, InvHolds, PTL

(* At every byte the reader is where the packet is: its state is the field  *)
(* the byte belongs to, pos, counter and the string length are how far it   *)
(* has come, and what is on its way to the payload buffer adds up           *)
(* (libmqtt_readpkt and every state it goes through).                       *)
THEOREM ReaderInPlace == Spec => []ReadInv
<1>1. IInv => ReadInv BY DEF IInv
<1> QED BY <1>1, InvHolds, PTL

(* Whatever the packets and however their bytes arrive, the reader ends     *)
(* each packet at the byte where the peer ended it (libmqtt_readpkt and     *)
(* the states it walks through).                                            *)
THEOREM PacketsEndWhereSent == Spec => []Framing
<1>1. IInv => Framing BY DEF IInv, ReadInv, HandledInv, Framing
<1> QED BY <1>1, InvHolds, PTL

(* A publish is handled with its whole payload, also when it waited for a   *)
(* buffer of the pool, and no packet with the bytes of another              *)
(* (publishstates' fill and flush).                                         *)
THEOREM PayloadsWhole == Spec => []PayloadWhole
<1>1. IInv => PayloadWhole BY DEF IInv, ReadInv, HandledInv, PayloadWhole
<1> QED BY <1>1, InvHolds, PTL

=============================================================================
