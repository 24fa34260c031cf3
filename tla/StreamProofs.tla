---------------------------- MODULE StreamProofs ----------------------------
(***************************************************************************)
(* Proofs about Outbound, for any number of clients, any payloads and any   *)
(* answers of the sockets: a queued packet goes out once from its first     *)
(* byte to its last, and a socket that takes what it is given sees whole    *)
(* packets.                                                                 *)
(***************************************************************************)
EXTENDS OutboundProofs, SequenceTheorems

SInv == IInv /\ AckInv /\ StreamInv

-----------------------------------------------------------------------------
(* Bytes.                                                                   *)

(* Sequences of bytes, put together.                                        *)
LEMMA Joined ==
    ASSUME NEW s \in Seq(Int), NEW t \in Seq(Int)
    PROVE  /\ s \o t \in Seq(Int) /\ Len(s \o t) = Len(s) + Len(t)
           /\ \A i \in 1..Len(s) : (s \o t)[i] = s[i]
           /\ \A i \in 1..Len(t) : (s \o t)[Len(s) + i] = t[i]
<1>1. Len(s) \in Nat /\ Len(t) \in Nat BY LenProperties
<1>2. /\ s \o t \in Seq(Int) /\ Len(s \o t) = Len(s) + Len(t)
      /\ \A i \in 1..Len(s) + Len(t) : (s \o t)[i] = IF i <= Len(s) THEN s[i] ELSE t[i - Len(s)]
  BY ConcatProperties
<1>3. ASSUME NEW i \in 1..Len(s) PROVE (s \o t)[i] = s[i]
  <2>1. i \in 1..Len(s) + Len(t) /\ i <= Len(s) BY <1>1
  <2> QED BY <1>2, <2>1
<1>4. ASSUME NEW i \in 1..Len(t) PROVE (s \o t)[Len(s) + i] = t[i]
  <2>1. Len(s) + i \in 1..Len(s) + Len(t) /\ ~(Len(s) + i <= Len(s)) /\ (Len(s) + i) - Len(s) = i
    BY <1>1
  <2> QED BY <1>2, <2>1
<1> QED BY <1>2, <1>3, <1>4

(* Put together in any order of the work.                                   *)
LEMMA Regrouped ==
    ASSUME NEW s \in Seq(Int), NEW t \in Seq(Int), NEW u \in Seq(Int)
    PROVE  (s \o t) \o u = s \o (t \o u)
  BY ConcatAssociative

(* One byte and another.                                                    *)
LEMMA TwoBytes ==
    ASSUME NEW a \in Int, NEW b \in Int
    PROVE  <<a>> \o <<b>> = <<a, b>> /\ <<a>> \in Seq(Int) /\ <<a, b>> \in Seq(Int)
<1> DEFINE s == <<a>>
           t == <<b>>
           u == <<a, b>>
<1>1. /\ s \in Seq(Int) /\ t \in Seq(Int) /\ u \in Seq(Int)
      /\ Len(s) = 1 /\ Len(t) = 1 /\ Len(u) = 2
      /\ s[1] = a /\ t[1] = b /\ u[1] = a /\ u[2] = b
  OBVIOUS
<1> HIDE DEF s, t, u
<1>2. /\ s \o t \in Seq(Int) /\ Len(s \o t) = Len(s) + Len(t)
      /\ \A i \in 1..Len(s) : (s \o t)[i] = s[i]
      /\ \A i \in 1..Len(t) : (s \o t)[Len(s) + i] = t[i]
  BY <1>1, Joined, Zenon
<1>3. Len(s \o t) = Len(u) /\ \A i \in 1..Len(s \o t) : (s \o t)[i] = u[i]
  <2>1. (s \o t)[1] = u[1] /\ (s \o t)[2] = u[2] BY <1>1, <1>2
  <2> QED BY <1>1, <1>2, <2>1
<1>4. s \o t = u BY <1>1, <1>2, <1>3, SeqEqual
<1> QED BY <1>1, <1>4 DEF s, t, u

(* A number of two bytes.                                                   *)
LEMMA U16Seq ==
    ASSUME NEW n \in Nat
    PROVE  U16(n) \in Seq(Int) /\ Len(U16(n)) = 2
<1>1. n \div 256 \in Int /\ n % 256 \in Int OBVIOUS
<1> QED BY <1>1 DEF U16

(* A string after its length.                                               *)
LEMMA StrSeq ==
    ASSUME NEW s \in Seq(Int)
    PROVE  Str(s) \in Seq(Int) /\ Len(Str(s)) = 2 + Len(s)
<1>1. Len(s) \in Nat BY LenProperties
<1>2. U16(Len(s)) \in Seq(Int) /\ Len(U16(Len(s))) = 2 BY <1>1, U16Seq
<1>3. /\ U16(Len(s)) \o s \in Seq(Int)
      /\ Len(U16(Len(s)) \o s) = Len(U16(Len(s))) + Len(s)
  BY <1>2, Joined, Zenon
<1>4. Str(s) = U16(Len(s)) \o s BY Zenon DEF Str
<1> QED BY <1>2, <1>3, <1>4, Zenon

(* The encoded length is a sequence of bytes; a small one is one byte.      *)
LEMMA EncodeSeq ==
    ASSUME NEW len \in Nat
    PROVE  EncodeLength(len) \in Seq(Int) /\ (len < 128 => EncodeLength(len) = <<len>>)
<1> DEFINE more(n) == 128 + (n % 128)
           n2 == len \div 128
           n3 == n2 \div 128
           n4 == n3 \div 128
<1>1. n2 \in Nat /\ more(len) \in Int OBVIOUS
<1>2. n3 \in Nat /\ more(n2) \in Int
  <2> HIDE DEF n2
  <2> QED BY <1>1
<1>3. n4 \in Nat /\ more(n3) \in Int
  <2> HIDE DEF n3
  <2> QED BY <1>2
<1>4. EncodeLength(len) = IF n2 = 0 THEN <<len>>
                          ELSE IF n3 = 0 THEN <<more(len), n2>>
                          ELSE IF n4 = 0 THEN <<more(len), more(n2), n3>>
                          ELSE <<more(len), more(n2), more(n3), n4>>
  BY DEF EncodeLength
<1>5. len < 128 => n2 = 0 OBVIOUS
<1> HIDE DEF more, n2, n3, n4
<1> QED BY <1>1, <1>2, <1>3, <1>4, <1>5

(* A packet is a sequence of bytes.                                         *)
LEMMA PacketSeq ==
    ASSUME NEW type \in Int, NEW body \in Seq(Int)
    PROVE  Packet(type, body) \in Seq(Int)
<1>1. Len(body) \in Nat BY LenProperties
<1>2. EncodeLength(Len(body)) \in Seq(Int) BY <1>1, EncodeSeq
<1>3. <<type>> \in Seq(Int) OBVIOUS
<1>4. <<type>> \o EncodeLength(Len(body)) \in Seq(Int) BY <1>2, <1>3, Joined, Zenon
<1>5. (<<type>> \o EncodeLength(Len(body))) \o body \in Seq(Int) BY <1>4, Joined, Zenon
<1> QED BY <1>5, Zenon DEF Packet

(* The bytes of the packets that are queued.                                *)
LEMMA AckSeq ==
    ASSUME NEW p, <<p.type, p.length>> \in Acks
    PROVE  /\ AckBytes(p) \in Seq(Int) /\ Len(AckBytes(p)) = p.length
           /\ AckBytes(p)[1] = p.type /\ AckBytes(p)[2] = p.length - 2
           /\ p.length = 4 => AckBytes(p)[3] = U16(MsgId)[1] /\ AckBytes(p)[4] = U16(MsgId)[2]
           /\ p.length \in {2, 4} /\ p.type \in Int
<1>1. \A b \in Seq(Int), t \in Int : Len(b) < 128 => Packet(t, b) = <<t>> \o <<Len(b)>> \o b
  <2> TAKE b \in Seq(Int), t \in Int
  <2>1. Len(b) \in Nat BY LenProperties
  <2> QED BY <2>1, EncodeSeq DEF Packet
<1>2. CASE p.type = Unsuback /\ p.length = 4
  <2>1. MsgId \in Nat BY DEF MsgId
  <2>2. U16(MsgId) \in Seq(Int) /\ Len(U16(MsgId)) = 2 /\ Unsuback \in Int
    BY <2>1, U16Seq DEF Unsuback
  <2> DEFINE u == U16(MsgId)
             h == <<Unsuback, 2>>
  <2>3. AckBytes(p) = h \o u
    <3>1. AckBytes(p) = Packet(Unsuback, U16(MsgId)) BY <1>2, Zenon DEF AckBytes
    <3>2. Packet(Unsuback, U16(MsgId)) = <<Unsuback>> \o <<2>> \o U16(MsgId)
      <4>1. Len(U16(MsgId)) < 128 BY <2>2
      <4> QED BY <1>1, <2>2, <4>1, Zenon
    <3>3. <<Unsuback>> \o <<2>> = <<Unsuback, 2>> BY <2>2, TwoBytes
    <3> QED BY <3>1, <3>2, <3>3, Zenon
  <2>4. h \in Seq(Int) /\ Len(h) = 2 /\ h[1] = Unsuback /\ h[2] = 2 BY <2>2
  <2>5. u \in Seq(Int) /\ Len(u) = 2 BY <2>2, Zenon
  <2> HIDE DEF u, h
  <2>6. /\ h \o u \in Seq(Int) /\ Len(h \o u) = Len(h) + Len(u)
        /\ \A i \in 1..Len(h) : (h \o u)[i] = h[i]
        /\ \A i \in 1..Len(u) : (h \o u)[Len(h) + i] = u[i]
    BY <2>4, <2>5, Joined, Zenon
  <2>7. /\ Len(h \o u) = 4 /\ (h \o u)[1] = h[1] /\ (h \o u)[2] = h[2]
        /\ (h \o u)[3] = u[1] /\ (h \o u)[4] = u[2]
    BY <2>4, <2>5, <2>6
  <2> QED BY <1>2, <2>2, <2>3, <2>4, <2>6, <2>7 DEF u
<1>3. CASE p.type \in {Pingreq, Pingresp} /\ p.length = 2
  <2>1. p.type # Unsuback /\ p.type \in Int BY <1>3 DEF Unsuback, Pingreq, Pingresp
  <2>2. <<>> \in Seq(Int) /\ Len(<<>>) = 0 OBVIOUS
  <2>3. AckBytes(p) = Packet(p.type, <<>>) BY <2>1, Zenon DEF AckBytes
  <2>4. Packet(p.type, <<>>) = <<p.type>> \o <<0>> \o <<>>
    <3>1. Len(<<>>) < 128 BY <2>2
    <3> QED BY <1>1, <2>1, <2>2, <3>1, Zenon
  <2>5. <<p.type>> \o <<0>> = <<p.type, 0>> /\ <<p.type, 0>> \in Seq(Int) BY <2>1, TwoBytes
  <2>6. <<p.type, 0>> \o <<>> = <<p.type, 0>> BY <2>5, ConcatEmptySeq
  <2>7. AckBytes(p) = <<p.type, 0>> BY <2>3, <2>4, <2>5, <2>6, Zenon
  <2> QED BY <1>3, <2>1, <2>7
<1> QED BY <1>2, <1>3 DEF Acks

(* The first of what is left, and what is left after it.                    *)
LEMMA RestSplits ==
    ASSUME NEW g \in Seq(Int), NEW k \in Nat, k < Len(g), NEW s \in Seq(Int)
    PROVE  /\ g[k + 1] \in Int /\ SubSeq(g, k + 2, Len(g)) \in Seq(Int)
           /\ s \o SubSeq(g, k + 1, Len(g)) = Append(s, g[k + 1]) \o SubSeq(g, k + 2, Len(g))
           /\ Append(SubSeq(g, 1, k), g[k + 1]) = SubSeq(g, 1, k + 1)
           /\ Append(s, g[k + 1]) \in Seq(Int)
<1>1. Len(g) \in Nat BY LenProperties
<1>2. k + 1 \in 1..Len(g) /\ Len(g) \in k + 1..Len(g) /\ (k + 1) + 1 = k + 2 /\ (k + 1) - 1 = k
      /\ 1 \in 1..Len(g) /\ k + 1 \in 1..Len(g)
  BY <1>1
<1>3. SubSeq(g, k + 1, Len(g)) = <<g[k + 1]>> \o SubSeq(g, k + 2, Len(g))
  BY <1>2, SubSeqRecursiveFirst
<1>4. g[k + 1] \in Int BY <1>2, ElementOfSeq
<1>5. \A i \in k + 2..Len(g) : g[i] \in Int
  <2> TAKE i \in k + 2..Len(g)
  <2>1. i \in 1..Len(g) BY <1>1
  <2> QED BY <2>1, ElementOfSeq
<1>6. SubSeq(g, k + 2, Len(g)) \in Seq(Int) BY <1>1, <1>5, SubSeqProperties
<1>7. <<g[k + 1]>> \in Seq(Int) BY <1>4
<1>8. s \o SubSeq(g, k + 1, Len(g)) = (s \o <<g[k + 1]>>) \o SubSeq(g, k + 2, Len(g))
  <2> DEFINE b == <<g[k + 1]>>
             r == SubSeq(g, k + 2, Len(g))
  <2>1. b \in Seq(Int) /\ r \in Seq(Int) BY <1>6, <1>7
  <2> HIDE DEF b, r
  <2>2. (s \o b) \o r = s \o (b \o r) BY <2>1, Regrouped
  <2> QED BY <1>3, <2>2 DEF b, r
<1>9. Append(s, g[k + 1]) = s \o <<g[k + 1]>> BY <1>4, AppendIsConcat
<1>10. SubSeq(g, 1, k + 1) = SubSeq(g, 1, k) \o <<g[k + 1]>>
  BY <1>2, SubSeqRecursiveSecond
<1>11. SubSeq(g, 1, k) \in Seq(Int)
  <2>1. \A i \in 1..k : g[i] \in Int
    <3> TAKE i \in 1..k
    <3>1. i \in 1..Len(g) BY <1>1
    <3> QED BY <3>1, ElementOfSeq
  <2> QED BY <2>1, SubSeqProperties
<1>12. Append(SubSeq(g, 1, k), g[k + 1]) = SubSeq(g, 1, k + 1)
  BY <1>4, <1>10, <1>11, AppendIsConcat
<1>13. Append(s, g[k + 1]) \in Seq(Int) BY <1>4, AppendProperties
<1> QED BY <1>4, <1>6, <1>8, <1>9, <1>12, <1>13

(* What begins a sequence is a prefix of it.                                *)
LEMMA Begins ==
    ASSUME NEW s \in Seq(Int), NEW r \in Seq(Int)
    PROVE  IsPrefix(s, s \o r)
<1>1. s \o r \in Seq(Int) /\ Len(s \o r) = Len(s) + Len(r) /\ Len(s) \in Nat /\ Len(r) \in Nat
  BY ConcatProperties, LenProperties
<1>2. SubSeq(s, 1, Len(s)) = SubSeq(s \o r, 1, Len(s))
  <2>1. CASE Len(s) = 0
    BY <2>1, SubSeqEmpty
  <2>2. CASE Len(s) # 0
    <3>1. 1 \in 1..Len(s) /\ Len(s) \in 1..Len(s) BY <1>1, <2>2
    <3> QED BY <3>1, SubSeqOfConcat1
  <2> QED BY <2>1, <2>2
<1> QED BY <1>1, <1>2 DEF IsPrefix

-----------------------------------------------------------------------------
(* The queued packet.                                                       *)

(* A write of one byte keeps what the packet is; failing resets counter.    *)
LEMMA AfterKeeps ==
    ASSUME NEW p \in Packets, p.state \in DOMAIN NextState, NEW ret \in Int
    PROVE  LET r == After(p, ret) IN
           /\ r.type = p.type /\ r.length = p.length
           /\ r.state \in {"TYPE", "LEN", "MSGID", "FINISHED", "ERROR"}
           /\ r.state = "ERROR" => r.counter = 0
           /\ ret > EFATAL => r.state # "ERROR"
<1>1. \A x \in Packets, new \in PacketStates :
        LET c == ChangeState(x, new) IN
        /\ c.type = x.type /\ c.length = x.length /\ c.counter = 0 /\ c \in Packets
        /\ c.state = IF new = "MSGID" /\ x.pos = x.length THEN "FINISHED" ELSE new
  <2> TAKE x \in Packets, new \in PacketStates
  <2>1. "FINISHED" \in PacketStates /\ 0 \in 0..CounterWidth - 1
    BY OutboundAssumption DEF PacketStates
  <2> QED BY <2>1 DEF ChangeState, Packets
<1> DEFINE q == IF ret > 0
                THEN [p EXCEPT !.pos = p.pos + 1, !.counter = (p.counter + 1) % CounterWidth]
                ELSE p
<1>2. q \in Packets /\ q.type = p.type /\ q.length = p.length /\ q.state = p.state
  <2>1. /\ p.pos \in Nat /\ p.counter \in 0..CounterWidth - 1
        /\ CounterWidth \in Nat /\ CounterWidth > 2
    BY OutboundAssumption DEF Packets
  <2>2. p.pos + 1 \in Nat /\ (p.counter + 1) % CounterWidth \in 0..CounterWidth - 1
    BY <2>1
  <2>3. \A n \in Nat, c \in 0..CounterWidth - 1 :
          LET x == [p EXCEPT !.pos = n, !.counter = c] IN
          x \in Packets /\ x.type = p.type /\ x.length = p.length /\ x.state = p.state
    BY DEF Packets
  <2> QED BY <2>2, <2>3
<1> DEFINE done == IF p.state = "MSGID" THEN ret > 0 /\ q.counter = 2 ELSE q.counter = 1
           new == NextState[p.state]
           r == IF done THEN ChangeState(q, new) ELSE q
<1>3. /\ new \in {"LEN", "MSGID", "FINISHED"} /\ p.state \in {"TYPE", "LEN", "MSGID"}
      /\ {"LEN", "MSGID", "FINISHED", "ERROR"} \subseteq PacketStates
  BY DEF NextState, PacketStates
<1>4. /\ r \in Packets /\ r.type = p.type /\ r.length = p.length
      /\ r.state \in {"TYPE", "LEN", "MSGID", "FINISHED"}
  <2> HIDE DEF q, new
  <2>1. CASE done
    <3>1. new \in PacketStates BY <1>3
    <3> DEFINE c == ChangeState(q, new)
    <3>2. /\ c.type = q.type /\ c.length = q.length /\ c \in Packets
          /\ c.state = IF new = "MSGID" /\ q.pos = q.length THEN "FINISHED" ELSE new
      BY <1>1, <1>2, <3>1, Zenon
    <3>3. r = c BY <2>1
    <3> HIDE DEF c, r
    <3> QED BY <1>2, <1>3, <3>2, <3>3
  <2>2. CASE ~done
    <3>1. r = q BY <2>2
    <3> HIDE DEF r
    <3> QED BY <1>2, <1>3, <3>1
  <2> QED BY <2>1, <2>2
<1>5. After(p, ret) = IF ret <= EFATAL THEN ChangeState(r, "ERROR") ELSE r
  BY DEF After
<1>6. EFATAL \in Int BY DEF EFATAL
<1> HIDE DEF r
<1>7. CASE ret <= EFATAL
  <2> DEFINE c == ChangeState(r, "ERROR")
  <2>1. "ERROR" \in PacketStates BY <1>3
  <2>2. /\ c.type = r.type /\ c.length = r.length /\ c.counter = 0
        /\ c.state = IF "ERROR" = "MSGID" /\ r.pos = r.length THEN "FINISHED" ELSE "ERROR"
    BY <1>1, <1>4, <2>1, Zenon
  <2>3. After(p, ret) = c BY <1>5, <1>7
  <2> HIDE DEF c
  <2> QED BY <1>4, <1>6, <1>7, <2>2, <2>3
<1>8. CASE ret > EFATAL
  <2>1. After(p, ret) = r BY <1>5, <1>6, <1>8
  <2> QED BY <1>4, <2>1
<1> QED BY <1>6, <1>7, <1>8

(* The byte that is written is the next of the packet.                      *)
LEMMA ByteNext ==
    ASSUME NEW p \in Packets, <<p.type, p.length>> \in Acks, Placed(p),
           p.state \in DOMAIN NextState
    PROVE  /\ p.pos \in Nat /\ p.pos < p.length /\ Byte(p) = AckBytes(p)[p.pos + 1]
           /\ (p.pos = 0) = (p.state = "TYPE")
<1>1. /\ AckBytes(p)[1] = p.type /\ AckBytes(p)[2] = p.length - 2
      /\ p.length = 4 => AckBytes(p)[3] = U16(MsgId)[1] /\ AckBytes(p)[4] = U16(MsgId)[2]
      /\ p.length \in {2, 4}
  BY AckSeq
<1>2. CASE p.state = "TYPE" BY <1>1, <1>2 DEF Placed, Byte
<1>3. CASE p.state = "LEN" BY <1>1, <1>3 DEF Placed, Byte
<1>4. CASE p.state = "MSGID"
  <2>1. Byte(p) = U16(MsgId)[p.counter + 1] BY <1>4 DEF Byte
  <2>2. p.length = 4 /\ p.pos \in {2, 3} /\ p.counter = p.pos - 2 BY <1>4 DEF Placed
  <2>3. CASE p.pos = 2
    <3>1. p.counter + 1 = 1 /\ p.pos + 1 = 3 BY <2>2, <2>3
    <3> QED BY <1>1, <1>4, <2>1, <2>2, <2>3, <3>1
  <2>4. CASE p.pos = 3
    <3>1. p.counter + 1 = 2 /\ p.pos + 1 = 4 BY <2>2, <2>4
    <3> QED BY <1>1, <1>4, <2>1, <2>2, <2>4, <3>1
  <2> QED BY <2>2, <2>3, <2>4
<1> QED BY <1>2, <1>3, <1>4 DEF NextState

(* After a byte that was taken, the writer is at the next.                  *)
LEMMA AfterTaken ==
    ASSUME NEW p \in Packets, <<p.type, p.length>> \in Acks, Placed(p),
           p.state \in DOMAIN NextState
    PROVE  LET r == After(p, 1) IN
           r.pos = p.pos + 1 /\ r.state \in {"LEN", "MSGID", "FINISHED"} /\ Placed(r)
<1> DEFINE q == [p EXCEPT !.pos = p.pos + 1, !.counter = (p.counter + 1) % CounterWidth]
           done == IF p.state = "MSGID" THEN q.counter = 2 ELSE q.counter = 1
           r == IF done THEN ChangeState(q, NextState[p.state]) ELSE q
<1>1. After(p, 1) = r
  <2>1. 1 > 0 /\ ~(1 <= EFATAL) BY DEF EFATAL
  <2> QED BY <2>1 DEF After
<1>2. (0 + 1) % CounterWidth = 1 /\ (1 + 1) % CounterWidth = 2
  <2>1. CounterWidth \in Nat /\ CounterWidth > 2 BY OutboundAssumption
  <2> QED BY <2>1
<1>3. /\ q.pos = p.pos + 1 /\ q.counter = (p.counter + 1) % CounterWidth /\ q.state = p.state
      /\ q.length = p.length /\ p.pos \in Nat /\ q \in [state : PacketStates, type : Nat, length : Nat,
                                                       pos : Nat, counter : Int]
  <2>1. p.pos \in Nat /\ (p.counter + 1) % CounterWidth \in Int
    BY OutboundAssumption DEF Packets
  <2>2. \A n \in Nat, c \in Int :
          LET x == [p EXCEPT !.pos = n, !.counter = c] IN
          /\ x.pos = n /\ x.counter = c /\ x.state = p.state /\ x.length = p.length
          /\ x \in [state : PacketStates, type : Nat, length : Nat, pos : Nat, counter : Int]
    BY DEF Packets
  <2>3. p.pos + 1 \in Nat BY <2>1
  <2> DEFINE k == (p.counter + 1) % CounterWidth
  <2>4. k \in Int BY <2>1
  <2> HIDE DEF k
  <2>5. LET x == [p EXCEPT !.pos = p.pos + 1, !.counter = k] IN
        /\ x.pos = p.pos + 1 /\ x.counter = k /\ x.state = p.state /\ x.length = p.length
        /\ x \in [state : PacketStates, type : Nat, length : Nat, pos : Nat, counter : Int]
    BY <2>2, <2>3, <2>4, Zenon
  <2> QED BY <2>1, <2>5, Zenon DEF k
<1>4. p.length \in {2, 4} BY AckSeq
<1>5. \A new : LET c == ChangeState(q, new) IN
        /\ c.pos = q.pos /\ c.length = q.length /\ c.counter = 0
        /\ c.state = IF new = "MSGID" /\ q.pos = q.length THEN "FINISHED" ELSE new
  <2> HIDE DEF q
  <2> QED BY <1>3 DEF ChangeState
<1> HIDE DEF q
<1>6. CASE p.state = "TYPE"
  <2>1. p.pos = 0 /\ p.counter = 0 BY <1>6 DEF Placed
  <2>2. r = ChangeState(q, "LEN") BY <1>2, <1>3, <1>6, <2>1 DEF NextState
  <2>3. r.state = "LEN" /\ r.pos = 1 /\ r.counter = 0 BY <1>3, <1>5, <2>1, <2>2
  <2> HIDE DEF r
  <2> QED BY <1>1, <2>1, <2>3 DEF Placed
<1>7. CASE p.state = "LEN"
  <2>1. p.pos = 1 /\ p.counter = 0 BY <1>7 DEF Placed
  <2>2. r = ChangeState(q, "MSGID") BY <1>2, <1>3, <1>7, <2>1 DEF NextState
  <2>3. /\ r.pos = 2 /\ r.counter = 0 /\ r.length = p.length
        /\ r.state = IF p.length = 2 THEN "FINISHED" ELSE "MSGID"
    BY <1>3, <1>5, <2>1, <2>2
  <2> HIDE DEF r
  <2> QED BY <1>1, <1>4, <2>1, <2>3 DEF Placed
<1>8. CASE p.state = "MSGID"
  <2>1. p.pos \in {2, 3} /\ p.counter = p.pos - 2 /\ p.length = 4 BY <1>8 DEF Placed
  <2>2. CASE p.pos = 2
    <3>1. p.counter = 0 BY <2>1, <2>2
    <3>2. q.counter = 1 BY <1>2, <1>3, <3>1
    <3>3. r = q BY <1>8, <3>2, <1>3
    <3>4. r.state = "MSGID" /\ r.pos = 3 /\ r.counter = 1 /\ r.length = 4
      BY <1>3, <1>8, <2>1, <2>2, <3>2, <3>3
    <3> HIDE DEF r
    <3> QED BY <1>1, <2>2, <3>4 DEF Placed
  <2>3. CASE p.pos = 3
    <3>1. p.counter = 1 BY <2>1, <2>3
    <3>2. q.counter = 2 BY <1>2, <1>3, <3>1
    <3>3. r = ChangeState(q, "FINISHED") BY <1>8, <3>2 DEF NextState
    <3>4. r.state = "FINISHED" /\ r.pos = 4 /\ r.length = 4
      BY <1>3, <1>5, <2>1, <2>3, <3>3
    <3> HIDE DEF r
    <3> QED BY <1>1, <2>3, <3>4 DEF Placed
  <2> QED BY <2>1, <2>2, <2>3
<1> QED BY <1>6, <1>7, <1>8 DEF NextState

(* After one that was not, it is where it was, or it has failed.            *)
LEMMA AfterRefused ==
    ASSUME NEW p \in Packets, Placed(p), p.state \in DOMAIN NextState, NEW ret \in Int, ret <= 0
    PROVE  After(p, ret) = p \/ After(p, ret).state = "ERROR"
<1>1. ~(p.state # "MSGID" /\ p.counter = 1) BY DEF Placed, NextState
<1>2. After(p, ret) = IF ret <= EFATAL THEN ChangeState(p, "ERROR") ELSE p
  BY <1>1 DEF After
<1>3. ChangeState(p, "ERROR").state = "ERROR" BY DEF ChangeState, Packets
<1> QED BY <1>2, <1>3

(* One outgoing packet changes, and the others stay.                        *)
LEMMA OnePacket ==
    ASSUME AckInv, NEW o \in Outlets, pkt \in [Outlets -> Packets], over \in [Outlets -> BOOLEAN],
           NEW p \in Packets, NEW w \in Seq(Int), NEW v \in BOOLEAN, Acked(p, w, v),
           pkt' = [pkt EXCEPT ![o] = p], written' = [written EXCEPT ![o] = w],
           over' = [over EXCEPT ![o] = v]
    PROVE  AckInv'
<1>1. written' \in [Outlets -> Seq(Int)] BY DEF AckInv
<1>2. ASSUME NEW q \in Outlets PROVE Acked(pkt'[q], written'[q], over'[q])
  <2>1. CASE q = o
    <3>1. pkt'[q] = p /\ written'[q] = w /\ over'[q] = v BY <2>1 DEF AckInv
    <3> QED BY <3>1
  <2>2. CASE q # o
    <3>1. pkt'[q] = pkt[q] /\ written'[q] = written[q] /\ over'[q] = over[q]
      BY <2>2 DEF AckInv
    <3> QED BY <3>1 DEF AckInv
  <2> QED BY <2>1, <2>2
<1>3. AckInv' = (/\ written' \in [Outlets -> Seq(Int)]
                 /\ \A q \in Outlets : Acked(pkt'[q], written'[q], over'[q]))
  BY DEF AckInv
<1> QED BY <1>1, <1>2, <1>3

(* An idle packet is as good as new.                                        *)
LEMMA IdleAcked == \A w : Acked(IdlePacket, w, FALSE) /\ IdlePacket \in Packets
<1>1. 0 \in 0..CounterWidth - 1 BY OutboundAssumption
<1> QED BY <1>1 DEF Acked, IdlePacket, Packets, PacketStates

(* The packet that is queued starts anew where nothing is gone of another.  *)
LEMMA QueueStep ==
    ASSUME IInv, AckInv, at \in Outlets, NEW type \in Nat, NEW length \in Nat,
           <<type, length>> \in Acks, Queue(at, type, length)
    PROVE  /\ AckInv'
           /\ \A o \in Outlets \ {at} : pkt'[o] = pkt[o] /\ over'[o] = over[o]
           /\ pkt'[at].state = "TYPE" /\ over'[at] = (over[at] \/ pkt[at].pos # 0)
<1> DEFINE p == pkt[at]
           r == [p EXCEPT !.state = "TYPE", !.type = type, !.length = length]
           v == over[at] \/ p.pos # 0
<1>1. /\ pkt \in [Outlets -> Packets] /\ over \in [Outlets -> BOOLEAN] /\ p \in Packets
      /\ pkt' = [pkt EXCEPT ![at] = r] /\ written' = [written EXCEPT ![at] = <<>>]
      /\ over' = [over EXCEPT ![at] = v] /\ v \in BOOLEAN
  BY DEF IInv, TypeOK, Queue
<1>2. /\ r \in Packets /\ r.state = "TYPE" /\ r.type = type /\ r.length = length
      /\ r.pos = p.pos /\ r.counter = p.counter
  BY <1>1 DEF Packets, PacketStates
<1>3. Acked(p, written[at], over[at]) BY DEF AckInv
<1>4. ~v => p.counter = 0 /\ p.pos = 0
  <2> SUFFICES ASSUME ~v PROVE p.counter = 0 /\ p.pos = 0 OBVIOUS
  <2>1. p.pos = 0 /\ ~over[at] OBVIOUS
  <2>2. CASE p.state \in {"IDLE", "ERROR"} BY <1>3, <2>1, <2>2 DEF Acked
  <2>3. CASE p.state \notin {"IDLE", "ERROR"}
    <3>1. Placed(p) /\ <<p.type, p.length>> \in Acks BY <1>3, <2>1, <2>3 DEF Acked
    <3>2. p.length # 0 BY <3>1 DEF Acks
    <3>3. p.state \in {"TYPE", "LEN", "MSGID", "FINISHED"} BY <1>1, <2>3 DEF Packets, PacketStates
    <3> QED BY <2>1, <3>1, <3>2, <3>3 DEF Placed
  <2> QED BY <2>2, <2>3
<1>5. Acked(r, <<>>, v)
  <2>1. ~v => Placed(r) BY <1>2, <1>4 DEF Placed
  <2>2. ~v => <<>> = SubSeq(AckBytes(r), 1, r.pos) BY <1>2, <1>4, SubSeqEmpty
  <2> HIDE DEF r, v
  <2> QED BY <1>2, <2>1, <2>2 DEF Acked
<1>6. <<>> \in Seq(Int) OBVIOUS
<1>7. AckInv'
  <2> HIDE DEF p, r, v
  <2> QED BY <1>1, <1>2, <1>5, <1>6, OnePacket
<1>8. pkt'[at] = r /\ over'[at] = v /\ \A o \in Outlets \ {at} : pkt'[o] = pkt[o] /\ over'[o] = over[o]
  <2> HIDE DEF r, v
  <2> QED BY <1>1
<1> QED BY <1>2, <1>7, <1>8

(* A turn of the writer, as far as the queued packet goes.                  *)
LEMMA WriteTurnAcked ==
    ASSUME IInv, AckInv, WriteTurn
    PROVE  AckInv'
<1> DEFINE p == pkt[at]
<1>1. /\ at \in Outlets /\ pkt \in [Outlets -> Packets] /\ over \in [Outlets -> BOOLEAN]
      /\ p \in Packets /\ p.state \in DOMAIN NextState /\ over[at] \in BOOLEAN
      /\ written \in [Outlets -> Seq(Int)]
  BY DEF IInv, TypeOK, PoolInv, WriteTurn, AckInv
<1>2. PICK ret \in {1} \cup Refusals :
        /\ pkt' = [pkt EXCEPT ![at] = After(p, ret)]
        /\ IF ret > 0 THEN written' = IF over[at] THEN written
                                      ELSE [written EXCEPT ![at] = Append(written[at], Byte(p))]
                      ELSE UNCHANGED written
  BY DEF WriteTurn
<1>3. ret \in Int /\ (ret > 0 => ret = 1) /\ over' = [over EXCEPT ![at] = over[at]]
  BY <1>1, <1>2, OutboundAssumption DEF EWOULDBLOCK, EFATAL, EREMOTEDISCONNECTED, WriteTurn
<1> DEFINE r == After(p, ret)
<1>4. /\ r \in Packets /\ r.type = p.type /\ r.length = p.length
      /\ r.state \in {"TYPE", "LEN", "MSGID", "FINISHED", "ERROR"}
      /\ r.state = "ERROR" => r.counter = 0
  BY <1>1, <1>3, AfterTypes, AfterKeeps
<1>5. Acked(p, written[at], over[at]) BY <1>1 DEF AckInv
<1>6. p.state \in {"TYPE", "LEN", "MSGID"} BY <1>1 DEF NextState
<1>7. <<p.type, p.length>> \in Acks BY <1>5, <1>6 DEF Acked
<1>8. AckBytes(r) = AckBytes(p) BY <1>4 DEF AckBytes
<1>9. ~over[at] => Placed(p) /\ written[at] = SubSeq(AckBytes(p), 1, p.pos)
  BY <1>5, <1>6 DEF Acked
<1> DEFINE w == IF ret > 0 /\ ~over[at] THEN Append(written[at], Byte(p)) ELSE written[at]
<1>10. written' = [written EXCEPT ![at] = w] BY <1>1, <1>2
<1>11. w \in Seq(Int) /\ (~over[at] /\ r.state # "ERROR" =>
                            Placed(r) /\ w = SubSeq(AckBytes(r), 1, r.pos))
  <2>1. CASE over[at] BY <1>1, <2>1
  <2>2. CASE ~over[at] /\ ret > 0
    <3>1. /\ p.pos \in Nat /\ p.pos < p.length /\ Byte(p) = AckBytes(p)[p.pos + 1]
          /\ AckBytes(p) \in Seq(Int) /\ Len(AckBytes(p)) = p.length
      BY <1>1, <1>7, <1>9, <2>2, ByteNext, AckSeq
    <3>2. r.pos = p.pos + 1 /\ Placed(r)
      BY <1>1, <1>3, <1>7, <1>9, <2>2, AfterTaken
    <3>3. Append(SubSeq(AckBytes(p), 1, p.pos), AckBytes(p)[p.pos + 1]) = SubSeq(AckBytes(p), 1, p.pos + 1)
      BY <3>1, EmptySeq, RestSplits
    <3>4. w = SubSeq(AckBytes(r), 1, r.pos)
      BY <1>8, <1>9, <2>2, <3>1, <3>2, <3>3
    <3>5. w \in Seq(Int)
      <4>1. AckBytes(p)[p.pos + 1] \in Int BY <3>1, EmptySeq, RestSplits
      <4>2. w = Append(written[at], AckBytes(p)[p.pos + 1]) BY <2>2, <3>1
      <4> QED BY <1>1, <4>1, <4>2, AppendProperties
    <3> QED BY <3>2, <3>4, <3>5
  <2>3. CASE ~over[at] /\ ~(ret > 0)
    <3>1. ret <= 0 BY <1>3, <2>3
    <3>2. r = p \/ r.state = "ERROR" BY <1>1, <1>3, <1>9, <2>3, <3>1, AfterRefused
    <3> QED BY <1>1, <1>9, <2>3, <3>2
  <2> QED BY <2>1, <2>2, <2>3
<1>12. Acked(r, w, over[at])
  <2> HIDE DEF r, w
  <2> QED BY <1>4, <1>7, <1>11 DEF Acked
<1> HIDE DEF p, r, w
<1> QED BY <1>1, <1>2, <1>3, <1>4, <1>10, <1>11, <1>12, OnePacket DEF r

(* Every step keeps what is known of the queued packets.                    *)
LEMMA AckStep ==
    ASSUME IInv, AckInv, [Next]_vars
    PROVE  AckInv'
<1> USE DEF pktVars
<1>1. /\ pkt \in [Outlets -> Packets] /\ over \in [Outlets -> BOOLEAN]
      /\ written \in [Outlets -> Seq(Int)] /\ Slots \subseteq Outlets /\ <<>> \in Seq(Int)
  <2>1. pkt \in [Outlets -> Packets] /\ over \in [Outlets -> BOOLEAN] BY DEF IInv, TypeOK
  <2>2. written \in [Outlets -> Seq(Int)] BY DEF AckInv
  <2>3. Slots \subseteq Outlets BY DEF Outlets
  <2>4. <<>> \in Seq(Int) OBVIOUS
  <2> QED BY <2>1, <2>2, <2>3, <2>4
<1>2. UNCHANGED pktVars => AckInv' BY DEF AckInv
<1>3. ASSUME NEW s \in Slots, Register(s) PROVE AckInv'
  <2>1. /\ pkt' = [pkt EXCEPT ![s] = IdlePacket] /\ written' = [written EXCEPT ![s] = <<>>]
        /\ over' = [over EXCEPT ![s] = FALSE] /\ s \in Outlets
    BY <1>1, <1>3 DEF Register
  <2> QED BY <1>1, <2>1, IdleAcked, OnePacket
<1>4. CASE WriteEnds
  <2>1. at \in Outlets BY <1>4 DEF IInv, PoolInv, WriteEnds
  <2>2. CASE pkt[at].state = "FINISHED"
    <3>1. /\ pkt' = [pkt EXCEPT ![at] = IdlePacket] /\ written' = [written EXCEPT ![at] = <<>>]
          /\ over' = [over EXCEPT ![at] = FALSE]
      BY <1>4, <2>2 DEF WriteEnds
    <3> QED BY <1>1, <2>1, <3>1, IdleAcked, OnePacket
  <2>3. CASE pkt[at].state # "FINISHED"
    BY <1>2, <1>4, <2>3 DEF WriteEnds
  <2> QED BY <2>2, <2>3
<1>5. CASE HandlePing \/ HandleUnsubscribe
  <2>1. at \in Outlets BY <1>5 DEF IInv, PoolInv, HandlePing, HandleUnsubscribe, Handles
  <2>2. /\ <<Pingreq, 2>> \in Acks /\ <<Pingresp, 2>> \in Acks /\ <<Unsuback, 4>> \in Acks
        /\ Pingreq \in Nat /\ Pingresp \in Nat /\ Unsuback \in Nat
    BY DEF Acks, Pingreq, Pingresp, Unsuback
  <2> QED BY <1>5, <2>1, <2>2, QueueStep DEF HandlePing, HandleUnsubscribe
<1>6. CASE NothingRead \/ HandleSubscribe \/ HandleDisconnect \/ HandleConnect \/ HandlePublish
            \/ RemoteConnects \/ RemoteSubscribes \/ (\E o \in Outlets : Poll(o)) \/ UNCHANGED vars
  BY <1>2, <1>6 DEF NothingRead, HandleSubscribe, HandleDisconnect, HandleConnect, HandlePublish,
       RemoteConnects, RemoteSubscribes, Poll, vars
<1>7. CASE FanOut
  BY <1>2, <1>7 DEF FanOut, RouterBegins, RemoteBegins, BeginCopy, Copy, CopyEnds, PortEnds,
       PublishEnds
<1> QED BY <1>3, <1>4, <1>5, <1>6, <1>7, WriteTurnAcked DEF Next

-----------------------------------------------------------------------------
(* The streams.                                                             *)

(* Outside a queued packet and outside a copy nothing is under way.         *)
LEMMA NothingUnderWay ==
    ASSUME IInv, pc # "write", pc # "fanout" \/ job.out = NULL
    PROVE  \A o \in Outlets : Rest(o) = <<>>
<1>1. NULL \notin Outlets BY OutboundAssumption
<1> QED BY <1>1 DEF Rest

(* Nor where a step leads outside them.                                     *)
LEMMA NothingThen ==
    ASSUME pc' # "write", pc' # "fanout" \/ job'.out = NULL
    PROVE  \A o \in Outlets : Rest(o)' = <<>>
<1>1. NULL \notin Outlets BY OutboundAssumption
<1> QED BY <1>1 DEF Rest

(* Steps that write nothing and have nothing under way.                     *)
LEMMA QuietStreams ==
    ASSUME IInv, StreamInv, UNCHANGED <<wireVars, over>>, pc # "write", pc' # "write",
           pc # "fanout" \/ job.out = NULL, pc' # "fanout" \/ job'.out = NULL,
           \A o \in Outlets : ~full[o] => pkt'[o].state \in {"IDLE", "TYPE"}
    PROVE  StreamInv'
<1>1. \A o \in Outlets : Rest(o) = <<>> /\ Rest(o)' = <<>>
  BY NothingUnderWay, NothingThen
<1> QED BY <1>1 DEF StreamInv, wireVars

(* A write on one socket, which adds what it begins and what it writes.     *)
LEMMA WriteStep ==
    ASSUME StreamInv, NEW o \in Outlets, NEW bytes \in Seq(Int), NEW begun \in Seq(Int),
           full \in [Outlets -> BOOLEAN], Write(o, bytes, begun), UNCHANGED <<pkt, over>>,
           pc # "write", pc' # "write", \A q \in Outlets : Rest(q) \in Seq(Int) /\ Rest(q)' \in Seq(Int),
           \A q \in Outlets \ {o} : Rest(q)' = Rest(q),
           Rest(o) \o begun = bytes \o Rest(o)'
    PROVE  StreamInv'
<1>1. stream \in [Outlets -> Seq(Int)] /\ meant \in [Outlets -> Seq(Int)] BY DEF StreamInv
<1>2. <<>> \in Seq(Int) OBVIOUS
<1> DEFINE s == stream[o] \o bytes
           m == meant[o] \o begun
<1>3. s \in Seq(Int) /\ m \in Seq(Int) BY <1>1, Joined
<1>4. ~full[o] => m = s \o Rest(o)'
  <2> SUFFICES ASSUME ~full[o] PROVE m = s \o Rest(o)' OBVIOUS
  <2>1. meant[o] = stream[o] \o Rest(o) BY DEF StreamInv
  <2>2. stream[o] \in Seq(Int) BY <1>1
  <2>3. (stream[o] \o Rest(o)) \o begun = stream[o] \o (Rest(o) \o begun) BY <2>2, Regrouped
  <2>4. (stream[o] \o bytes) \o Rest(o)' = stream[o] \o (bytes \o Rest(o)') BY <2>2, Regrouped
  <2> QED BY <2>1, <2>3, <2>4, Zenon
<1> HIDE DEF s, m
<1>5. \/ /\ stream' = IF full[o] THEN stream ELSE [stream EXCEPT ![o] = s]
         /\ meant' = IF full[o] THEN meant ELSE [meant EXCEPT ![o] = m]
         /\ full' = full
      \/ /\ stream' = [stream EXCEPT ![o] = <<>>] /\ meant' = [meant EXCEPT ![o] = <<>>]
         /\ full' = [full EXCEPT ![o] = TRUE]
  BY DEF Write, s, m
<1>6. stream' \in [Outlets -> Seq(Int)] /\ meant' \in [Outlets -> Seq(Int)]
  BY <1>1, <1>2, <1>3, <1>5
<1>7. ASSUME NEW q \in Outlets, ~full'[q]
      PROVE  /\ meant'[q] = stream'[q] \o Rest(q)'
             /\ ~over'[q] /\ pkt'[q].state # "ERROR" /\ pkt'[q].state \in {"IDLE", "TYPE"}
  <2>1. ~full[q] BY <1>5, <1>7
  <2>2. /\ meant[q] = stream[q] \o Rest(q) /\ ~over[q] /\ pkt[q].state # "ERROR"
        /\ pkt[q].state \in {"IDLE", "TYPE"}
    BY <2>1 DEF StreamInv
  <2>3. CASE q = o
    <3>1. stream'[q] = s /\ meant'[q] = m BY <1>1, <1>5, <1>7, <2>1, <2>3
    <3> QED BY <1>4, <2>1, <2>2, <2>3, <3>1
  <2>4. CASE q # o
    <3>1. stream'[q] = stream[q] /\ meant'[q] = meant[q] BY <1>1, <1>5, <2>4
    <3>2. Rest(q)' = Rest(q) BY <2>4
    <3> QED BY <2>2, <3>1, <3>2
  <2> QED BY <2>3, <2>4
<1> QED BY <1>6, <1>7 DEF StreamInv

(* A whole packet, written where nothing is under way.                      *)
LEMMA WholeWrite ==
    ASSUME IInv, StreamInv, NEW o \in Outlets, NEW bytes \in Seq(Int), Write(o, bytes, bytes),
           UNCHANGED <<pkt, over>>, pc # "write", pc' # "write",
           pc # "fanout" \/ job.out = NULL, pc' # "fanout" \/ job'.out = NULL
    PROVE  StreamInv'
<1>1. \A q \in Outlets : Rest(q) = <<>> /\ Rest(q)' = <<>>
  BY NothingUnderWay, NothingThen
<1>2. <<>> \in Seq(Int) OBVIOUS
<1>3. Rest(o) \o bytes = bytes \o Rest(o)' BY <1>1, ConcatEmptySeq
<1>4. full \in [Outlets -> BOOLEAN] BY DEF IInv, TypeOK
<1> QED BY <1>1, <1>2, <1>3, <1>4, WriteStep

(* The payload that is left, before and after a turn of the copy.           *)
LEMMA PayloadSplits ==
    ASSUME NEW n \in Nat, NEW m \in Nat, m <= n, NEW t \in Nat
    PROVE  /\ [i \in 1..n |-> t + i] = [i \in 1..m |-> t + i] \o [i \in 1..n - m |-> (t + m) + i]
           /\ [i \in 1..n |-> t + i] \in Seq(Int) /\ [i \in 1..m |-> t + i] \in Seq(Int)
           /\ [i \in 1..n - m |-> (t + m) + i] \in Seq(Int)
<1> DEFINE a == [i \in 1..n |-> t + i]
           b == [i \in 1..m |-> t + i]
           c == [i \in 1..n - m |-> (t + m) + i]
<1>1. /\ a \in Seq(Int) /\ b \in Seq(Int) /\ c \in Seq(Int) /\ Len(a) = n /\ Len(b) = m /\ Len(c) = n - m
      /\ \A i \in 1..n : a[i] = t + i
      /\ \A i \in 1..m : b[i] = t + i
      /\ \A i \in 1..n - m : c[i] = (t + m) + i
  OBVIOUS
<1> HIDE DEF a, b, c
<1>2. /\ b \o c \in Seq(Int) /\ Len(b \o c) = Len(b) + Len(c)
      /\ \A i \in 1..Len(b) : (b \o c)[i] = b[i]
      /\ \A i \in 1..Len(c) : (b \o c)[Len(b) + i] = c[i]
  BY <1>1, Joined, Zenon
<1> DEFINE d == b \o c
<1>3. /\ d \in Seq(Int) /\ Len(d) = n
      /\ \A i \in 1..m : d[i] = t + i
      /\ \A i \in 1..n - m : d[m + i] = (t + m) + i
  <2>1. /\ d \in Seq(Int) /\ Len(d) = m + (n - m)
        /\ \A i \in 1..m : d[i] = b[i]
        /\ \A i \in 1..n - m : d[m + i] = c[i]
    BY <1>1, <1>2, Zenon
  <2>2. m + (n - m) = n OBVIOUS
  <2> QED BY <1>1, <2>1, <2>2, Zenon
<1> HIDE DEF d
<1>4. \A i \in 1..Len(a) : a[i] = d[i]
  <2> SUFFICES ASSUME NEW i \in 1..n PROVE a[i] = d[i] BY <1>1
  <2>1. CASE i <= m
    <3>1. i \in 1..m BY <2>1
    <3> QED BY <1>1, <1>3, <3>1
  <2>2. CASE ~(i <= m)
    <3>1. i - m \in 1..n - m /\ m + (i - m) = i BY <2>2
    <3>2. d[m + (i - m)] = (t + m) + (i - m) BY <1>3, <3>1
    <3>3. d[i] = (t + m) + (i - m) BY <3>1, <3>2, Zenon
    <3>4. (t + m) + (i - m) = t + i OBVIOUS
    <3> QED BY <1>1, <3>3, <3>4, Zenon
  <2> QED BY <2>1, <2>2
<1>5. a = d BY <1>1, <1>3, <1>4, SeqEqual
<1> QED BY <1>1, <1>5 DEF a, b, c, d

(* A publish begins: what was announced is what is left to be written.      *)
LEMMA BeginCopyStreams ==
    ASSUME IInv, StreamInv, BeginCopy
    PROVE  StreamInv'
<1>1. PICK o \in job.to :
        /\ Write(o, PublishBytes(job.len), Packet(Publish, Str(Topic) \o Payload(job.len)))
        /\ job' = [job EXCEPT !.out = o, !.left = job.len]
  BY DEF BeginCopy
<1>2. /\ pc = "fanout" /\ pc' = "fanout" /\ job.out = NULL /\ UNCHANGED <<pkt, over>>
      /\ full \in [Outlets -> BOOLEAN] /\ job \in Jobs
  BY DEF BeginCopy, IInv, TypeOK, pktVars
<1>3. o \in Outlets /\ job.len \in Nat /\ job.tail = 0
  BY <1>2 DEF IInv, CopyInv, Jobs
<1>4. job'.out = o /\ job'.left = job.len /\ job'.tail = 0
  BY <1>1, <1>2, <1>3 DEF Jobs
<1> DEFINE h == Str(Topic)
           b == Payload(job.len)
           e == <<Publish>> \o EncodeLength(Len(Topic) + 2 + job.len)
<1>5. \A q \in Outlets : Rest(q) = <<>> BY <1>2, NothingUnderWay
<1>6. Rest(o)' = b
  <2>1. Rest(o)' = [i \in 1..job'.left |-> job'.tail + i] BY <1>2, <1>4 DEF Rest
  <2>2. [i \in 1..job.len |-> 0 + i] = [i \in 1..job.len |-> i] OBVIOUS
  <2> QED BY <1>4, <2>1, <2>2 DEF Payload
<1>7. \A q \in Outlets \ {o} : Rest(q)' = <<>> BY <1>2, <1>4 DEF Rest
<1>8. b \in Seq(Int) /\ Len(b) = job.len BY <1>3 DEF Payload
<1>9. h \in Seq(Int) /\ Len(h) = 2 + Len(Topic) /\ Len(Topic) \in Nat /\ Topic \in Seq(Int)
  <2>1. Topic \in Seq(Int) /\ Len(Topic) = 1 BY DEF Topic
  <2>2. Str(Topic) \in Seq(Int) /\ Len(Str(Topic)) = 2 + Len(Topic) BY <2>1, StrSeq, Zenon
  <2>3. Len(Topic) \in Nat BY <2>1
  <2> QED BY <2>1, <2>2, <2>3, Zenon
<1>10. e \in Seq(Int)
  <2>1. Len(Topic) + 2 + job.len \in Nat BY <1>3, <1>9
  <2>2. EncodeLength(Len(Topic) + 2 + job.len) \in Seq(Int) BY <2>1, EncodeSeq
  <2>3. <<Publish>> \in Seq(Int) BY DEF Publish
  <2> QED BY <2>2, <2>3, Joined, Zenon
<1>11. PublishBytes(job.len) = e \o h /\ e \o h \in Seq(Int)
  <2> DEFINE u == U16(Len(Topic))
  <2>1. u \in Seq(Int) BY <1>9, U16Seq
  <2>2. PublishBytes(job.len) = (e \o u) \o Topic BY Zenon DEF PublishBytes
  <2>3. h = u \o Topic BY Zenon DEF Str
  <2> HIDE DEF u, e, h
  <2>4. (e \o u) \o Topic = e \o (u \o Topic) BY <1>9, <1>10, <2>1, Regrouped
  <2>5. e \o h \in Seq(Int) BY <1>9, <1>10, Joined
  <2> QED BY <2>2, <2>3, <2>4, <2>5, Zenon
<1>12. Packet(Publish, h \o b) = (e \o h) \o b /\ Packet(Publish, h \o b) \in Seq(Int)
  <2>1. h \o b \in Seq(Int) /\ Len(h \o b) = Len(h) + Len(b) BY <1>8, <1>9, Joined, Zenon
  <2>2. Len(h) + Len(b) = Len(Topic) + 2 + job.len BY <1>3, <1>8, <1>9
  <2>3. Packet(Publish, h \o b) = e \o (h \o b) BY <2>1, <2>2, Zenon DEF Packet
  <2>4. Publish \in Int BY DEF Publish
  <2>5. Packet(Publish, h \o b) \in Seq(Int) BY <2>1, <2>4, PacketSeq
  <2> HIDE DEF e, h, b
  <2>6. (e \o h) \o b = e \o (h \o b) BY <1>8, <1>9, <1>10, Regrouped
  <2> QED BY <2>3, <2>5, <2>6, Zenon
<1> HIDE DEF e, h, b
<1>13. Rest(o) \o Packet(Publish, h \o b) = PublishBytes(job.len) \o Rest(o)'
  <2>1. Rest(o) = <<>> BY <1>3, <1>5
  <2>2. <<>> \o Packet(Publish, h \o b) = Packet(Publish, h \o b) BY <1>12, ConcatEmptySeq
  <2> QED BY <1>6, <1>11, <1>12, <2>1, <2>2, Zenon
<1>14. \A q \in Outlets : Rest(q) \in Seq(Int) /\ Rest(q)' \in Seq(Int)
  <2>1. <<>> \in Seq(Int) OBVIOUS
  <2> QED BY <1>5, <1>6, <1>7, <1>8, <2>1, Zenon
<1>15. \A q \in Outlets \ {o} : Rest(q)' = Rest(q) BY <1>5, <1>7, Zenon
<1>16. Write(o, PublishBytes(job.len), Packet(Publish, h \o b)) BY <1>1, Zenon DEF h, b
<1>17. PublishBytes(job.len) \in Seq(Int) BY <1>11, Zenon
<1> DEFINE x == PublishBytes(job.len)
           y == Packet(Publish, h \o b)
<1>18. x \in Seq(Int) /\ y \in Seq(Int) /\ Write(o, x, y) /\ Rest(o) \o y = x \o Rest(o)'
  BY <1>12, <1>13, <1>16, <1>17, Zenon
<1> HIDE DEF x, y
<1>19. pc # "write" /\ pc' # "write" BY <1>2
<1> QED BY <1>2, <1>3, <1>14, <1>15, <1>18, <1>19, WriteStep

(* The copy goes on: it reads what it wants, and that much less is left.    *)
LEMMA CopyStreams ==
    ASSUME IInv, StreamInv, Copy
    PROVE  StreamInv'
<1>0. PICK o \in Outlets : job.out = o
  <2>1. pc = "fanout" /\ job.out # NULL /\ job \in Jobs BY DEF Copy, IInv, TypeOK
  <2> QED BY <2>1 DEF Jobs
<1> DEFINE want == IF job.left < ChunkSize THEN job.left ELSE ChunkSize
           read == ReadFunc(want)
<1>1. /\ pc = "fanout" /\ pc' = "fanout" /\ o # NULL /\ UNCHANGED <<pkt, over>>
      /\ full \in [Outlets -> BOOLEAN] /\ job \in Jobs
      /\ Write(o, [i \in 1..read |-> job.tail + i] \o WithJunk(o, want - read), <<>>)
      /\ job' = [job EXCEPT !.tail = job.tail + read, !.left = job.left - read]
  BY <1>0 DEF Copy, IInv, TypeOK, pktVars
<1>2. o \in Outlets /\ job.left \in Nat /\ job.tail \in Nat
  BY <1>1 DEF Jobs
<1>3. job.left = Available
  <2>1. job.left + job.tail = job.len
    <3>1. job.out # NULL BY <1>0, <1>1
    <3> QED BY <1>1, <3>1 DEF IInv, CopyInv
  <2>2. job.port = "sys" \/ job.len = pool.head BY <1>1 DEF IInv, PoolInv
  <2>3. job.len \in Nat BY <1>1 DEF Jobs
  <2>4. Available = job.len - job.tail BY <2>2 DEF Available
  <2> QED BY <1>2, <2>1, <2>3, <2>4
<1>4. want \in Nat /\ want <= job.left
  <2>1. ChunkSize \in Nat BY OutboundAssumption
  <2> QED BY <1>2, <2>1
<1> HIDE DEF want
<1>5. read = want
  <2>1. read = IF Available < want THEN Available ELSE want BY Zenon DEF ReadFunc
  <2> HIDE DEF read
  <2> QED BY <1>2, <1>3, <1>4, <2>1
<1> DEFINE a == [i \in 1..job.left |-> job.tail + i]
           b == [i \in 1..want |-> job.tail + i]
           c == [i \in 1..job.left - want |-> (job.tail + want) + i]
<1>6. a = b \o c /\ a \in Seq(Int) /\ b \in Seq(Int) /\ c \in Seq(Int)
  BY <1>2, <1>4, PayloadSplits
<1>7. Write(o, b, <<>>)
  <2>1. want - want = 0 BY <1>4
  <2>2. WithJunk(o, 0) = <<>> BY DEF WithJunk
  <2>3. Write(o, b \o <<>>, <<>>) BY <1>1, <1>5, <2>1, <2>2, Zenon
  <2> HIDE DEF b
  <2>4. b \o <<>> = b BY <1>6, ConcatEmptySeq
  <2> QED BY <2>3, <2>4, Zenon
<1>8. job' = [job EXCEPT !.tail = job.tail + want, !.left = job.left - want]
  BY <1>1, <1>5, Zenon
<1>9. job'.out = o /\ job'.tail = job.tail + want /\ job'.left = job.left - want
  BY <1>0, <1>1, <1>8 DEF Jobs
<1>10. Rest(o) = a BY <1>0, <1>1 DEF Rest
<1>11. Rest(o)' = c
  <2>1. Rest(o)' = [i \in 1..job'.left |-> job'.tail + i]
    BY <1>1, <1>9 DEF Rest
  <2> QED BY <1>9, <2>1, Zenon
<1>12. \A q \in Outlets \ {o} : Rest(q) = <<>> /\ Rest(q)' = <<>> BY <1>0, <1>1, <1>9 DEF Rest
<1>13. <<>> \in Seq(Int) OBVIOUS
<1> HIDE DEF a, b, c
<1>14. a \o <<>> = b \o c BY <1>6, ConcatEmptySeq
<1>15. pc # "write" /\ pc' # "write" BY <1>1
<1>16. \A q \in Outlets : Rest(q) \in Seq(Int) /\ Rest(q)' \in Seq(Int)
  <2> TAKE q \in Outlets
  <2>1. CASE q = o BY <1>6, <1>10, <1>11, <2>1, Zenon
  <2>2. CASE q # o BY <1>12, <1>13, <2>2
  <2> QED BY <2>1, <2>2
<1>17. \A q \in Outlets \ {o} : Rest(q)' = Rest(q) BY <1>12, Zenon
<1>18. Rest(o) \o <<>> = b \o Rest(o)' BY <1>10, <1>11, <1>14, Zenon
<1>19. full \in [Outlets -> BOOLEAN] /\ UNCHANGED <<pkt, over>> /\ o \in Outlets BY <1>1, <1>2
<1> QED BY <1>6, <1>7, <1>13, <1>15, <1>16, <1>17, <1>18, <1>19, WriteStep

(* A byte of the queued packet: with the first of them the packet is begun. *)
LEMMA WriteTurnStreams ==
    ASSUME IInv, AckInv, StreamInv, WriteTurn
    PROVE  StreamInv'
<1> DEFINE p == pkt[at]
           g == AckBytes(p)
<1>1. /\ at \in Outlets /\ pkt \in [Outlets -> Packets] /\ p \in Packets
      /\ p.state \in DOMAIN NextState /\ pc = "write" /\ over' = over /\ at' = at /\ job' = job
      /\ full \in [Outlets -> BOOLEAN] /\ stream \in [Outlets -> Seq(Int)] /\ meant \in [Outlets -> Seq(Int)]
  BY DEF IInv, TypeOK, PoolInv, WriteTurn, StreamInv, copyVars
<1>2. PICK ret \in {1} \cup Refusals :
        /\ pkt' = [pkt EXCEPT ![at] = After(p, ret)]
        /\ IF ret > 0
           THEN /\ pc' = pc
                /\ IF full[at] THEN UNCHANGED wireVars
                   ELSE /\ stream' = [stream EXCEPT ![at] = Append(stream[at], Byte(p))]
                        /\ meant' = IF p.pos = 0 THEN [meant EXCEPT ![at] = meant[at] \o AckBytes(p)]
                                                 ELSE meant
                        /\ UNCHANGED full
           ELSE /\ pc' = "handle"
                /\ full' = [full EXCEPT ![at] = TRUE]
                /\ stream' = [stream EXCEPT ![at] = <<>>]
                /\ meant' = [meant EXCEPT ![at] = <<>>]
  BY DEF WriteTurn
<1>3. ret \in Int /\ (ret > 0 => ret = 1)
  BY OutboundAssumption DEF EWOULDBLOCK, EFATAL, EREMOTEDISCONNECTED
<1>4. job = NoJob /\ job.out = NULL /\ NULL \notin Outlets
  <2>1. job = NoJob BY <1>1 DEF IInv, PoolInv
  <2> QED BY <2>1, OutboundAssumption DEF NoJob
<1>5. \A q \in Outlets \ {at} : Rest(q) = <<>> /\ Rest(q)' = <<>> /\ pkt'[q] = pkt[q]
  BY <1>1, <1>2, <1>4 DEF Rest
<1>6. <<>> \in Seq(Int) OBVIOUS
<1>7. ASSUME NEW q \in Outlets \ {at}, ~full'[q], stream'[q] = stream[q], meant'[q] = meant[q],
             ~full[q]
      PROVE  /\ meant'[q] = stream'[q] \o Rest(q)'
             /\ ~over'[q] /\ pkt'[q].state # "ERROR" /\ pkt'[q].state \in {"IDLE", "TYPE"}
  BY <1>1, <1>5, <1>7 DEF StreamInv
<1>8. CASE ret > 0 /\ ~full[at]
  <2>1. ~over[at] /\ p.state # "ERROR" /\ meant[at] = stream[at] \o Rest(at)
    BY <1>1, <1>8 DEF StreamInv
  <2>2. p.state \notin {"IDLE", "ERROR"} BY <1>1 DEF NextState
  <2>3. Placed(p) /\ <<p.type, p.length>> \in Acks
    <3>1. Acked(p, written[at], over[at]) BY <1>1 DEF AckInv
    <3> QED BY <2>1, <2>2, <3>1 DEF Acked
  <2>4. /\ p.pos \in Nat /\ p.pos < p.length /\ Byte(p) = g[p.pos + 1]
        /\ g \in Seq(Int) /\ Len(g) = p.length /\ p.length \in {2, 4}
    BY <1>1, <2>3, ByteNext, AckSeq
  <2> DEFINE r == After(p, ret)
             s == Append(stream[at], Byte(p))
             m == IF p.pos = 0 THEN meant[at] \o g ELSE meant[at]
  <2>5. /\ r.pos = p.pos + 1 /\ r.type = p.type /\ r.length = p.length
        /\ r.state \in {"LEN", "MSGID", "FINISHED"} /\ pkt'[at] = r
    <3>1. ret = 1 BY <1>3, <1>8
    <3>2. pkt'[at] = r BY <1>1, <1>2
    <3> QED BY <1>1, <1>3, <2>3, <3>1, <3>2, AfterTaken, AfterKeeps
  <2>6. /\ stream' = [stream EXCEPT ![at] = s] /\ meant' = [meant EXCEPT ![at] = m] /\ full' = full
        /\ pc' = "write"
    BY <1>1, <1>2, <1>8
  <2>7. m = stream[at] \o SubSeq(g, p.pos + 1, Len(g))
    <3>1. CASE p.pos = 0
      <4>1. Rest(at) = <<>> BY <1>1, <1>4, <3>1 DEF Rest
      <4>2. stream[at] \in Seq(Int) BY <1>1
      <4>3. stream[at] \o <<>> = stream[at] BY <4>2, ConcatEmptySeq
      <4>4. meant[at] = stream[at] BY <2>1, <4>1, <4>3, Zenon
      <4>5. SubSeq(g, 1, Len(g)) = g BY <2>4, SubSeqFull
      <4>6. p.pos + 1 = 1 BY <3>1
      <4> QED BY <3>1, <4>4, <4>5, <4>6, Zenon
    <3>2. CASE p.pos # 0
      <4>1. p.pos > 0 BY <2>4, <3>2
      <4>2. Rest(at) = SubSeq(AckBytes(pkt[at]), pkt[at].pos + 1, pkt[at].length)
        BY <1>1, <4>1 DEF Rest
      <4> QED BY <2>1, <2>4, <3>2, <4>2, Zenon
    <3> QED BY <3>1, <3>2
  <2>8. Rest(at)' = SubSeq(g, p.pos + 2, Len(g))
    <3>1. AckBytes(r) = g BY <2>5 DEF AckBytes
    <3>2. r.pos > 0 /\ r.pos + 1 = p.pos + 2 BY <2>4, <2>5
    <3>3. Rest(at)' = SubSeq(AckBytes(pkt'[at]), pkt'[at].pos + 1, pkt'[at].length)
      <4>1. pkt'[at].pos > 0 BY <2>5, <3>2, Zenon
      <4>2. AckBytes(pkt[at])' = AckBytes(pkt'[at'])  BY <1>1 DEF AckBytes
      <4> QED BY <1>1, <2>6, <4>1, <4>2 DEF Rest
    <3> QED BY <2>4, <2>5, <3>1, <3>2, <3>3, Zenon
  <2>9. m = s \o Rest(at)' /\ s \in Seq(Int)
    <3>1. stream[at] \in Seq(Int) BY <1>1
    <3>2. /\ stream[at] \o SubSeq(g, p.pos + 1, Len(g))
               = Append(stream[at], g[p.pos + 1]) \o SubSeq(g, p.pos + 2, Len(g))
          /\ Append(stream[at], g[p.pos + 1]) \in Seq(Int)
      <4> HIDE DEF g
      <4> QED BY <2>4, <3>1, RestSplits
    <3> QED BY <2>4, <2>7, <2>8, <3>2, Zenon
  <2>10. m \in Seq(Int)
    <3>1. meant[at] \in Seq(Int) BY <1>1
    <3>2. meant[at] \o g \in Seq(Int) BY <2>4, <3>1, Joined, Zenon
    <3> QED BY <3>1, <3>2
  <2> HIDE DEF s, m, r, p
  <2>11. stream' \in [Outlets -> Seq(Int)] /\ meant' \in [Outlets -> Seq(Int)]
    BY <1>1, <2>6, <2>9, <2>10
  <2>12. ASSUME NEW q \in Outlets, ~full'[q]
         PROVE  /\ meant'[q] = stream'[q] \o Rest(q)'
                /\ ~over'[q] /\ pkt'[q].state # "ERROR"
                /\ (pc' = "write" /\ at' = q) \/ pkt'[q].state \in {"IDLE", "TYPE"}
    <3>1. CASE q = at
      <4>1. stream'[q] = s /\ meant'[q] = m BY <1>1, <2>6, <3>1
      <4>2. pkt'[q].state # "ERROR" BY <2>5, <3>1
      <4> QED BY <1>1, <2>1, <2>6, <2>9, <3>1, <4>1, <4>2
    <3>2. CASE q # at
      <4>1. stream'[q] = stream[q] /\ meant'[q] = meant[q] /\ ~full[q]
        BY <1>1, <2>6, <2>12, <3>2
      <4> QED BY <1>7, <2>12, <3>2, <4>1
    <3> QED BY <3>1, <3>2
  <2> QED BY <2>11, <2>12 DEF StreamInv
<1>9. CASE ret > 0 /\ full[at]
  <2>1. UNCHANGED <<stream, meant, full>> BY <1>2, <1>9 DEF wireVars
  <2>2. ASSUME NEW q \in Outlets, ~full'[q]
        PROVE  /\ meant'[q] = stream'[q] \o Rest(q)'
               /\ ~over'[q] /\ pkt'[q].state # "ERROR" /\ pkt'[q].state \in {"IDLE", "TYPE"}
    BY <1>7, <1>9, <2>1, <2>2
  <2> QED BY <1>1, <2>1, <2>2 DEF StreamInv
<1>10. CASE ~(ret > 0)
  <2>1. /\ stream' = [stream EXCEPT ![at] = <<>>] /\ meant' = [meant EXCEPT ![at] = <<>>]
        /\ full' = [full EXCEPT ![at] = TRUE]
    BY <1>2, <1>10
  <2>2. stream' \in [Outlets -> Seq(Int)] /\ meant' \in [Outlets -> Seq(Int)]
    BY <1>1, <1>6, <2>1
  <2>3. ASSUME NEW q \in Outlets, ~full'[q]
        PROVE  /\ meant'[q] = stream'[q] \o Rest(q)'
               /\ ~over'[q] /\ pkt'[q].state # "ERROR" /\ pkt'[q].state \in {"IDLE", "TYPE"}
    <3>1. q # at /\ ~full[q] /\ stream'[q] = stream[q] /\ meant'[q] = meant[q]
      BY <1>1, <2>1, <2>3
    <3> QED BY <1>7, <2>3, <3>1
  <2> QED BY <2>2, <2>3 DEF StreamInv
<1> QED BY <1>8, <1>9, <1>10

(* A new client's stream starts with nothing on it.                         *)
LEMMA RegisterStreams ==
    ASSUME IInv, StreamInv, NEW s \in Slots, Register(s)
    PROVE  StreamInv'
<1>1. /\ pc = "idle" /\ pc' = "idle" /\ s \in Outlets
      /\ stream' = [stream EXCEPT ![s] = <<>>] /\ meant' = [meant EXCEPT ![s] = <<>>]
      /\ full' = [full EXCEPT ![s] = FALSE] /\ over' = [over EXCEPT ![s] = FALSE]
      /\ pkt' = [pkt EXCEPT ![s] = IdlePacket]
  BY DEF Register, Outlets
<1>2. \A q \in Outlets : Rest(q) = <<>> /\ Rest(q)' = <<>>
  BY <1>1, NothingUnderWay, NothingThen
<1>3. /\ stream \in [Outlets -> Seq(Int)] /\ meant \in [Outlets -> Seq(Int)]
      /\ full \in [Outlets -> BOOLEAN] /\ over \in [Outlets -> BOOLEAN] /\ pkt \in [Outlets -> Packets]
  BY DEF StreamInv, IInv, TypeOK
<1>4. <<>> \in Seq(Int) /\ <<>> \o <<>> = <<>> OBVIOUS
<1>5. stream' \in [Outlets -> Seq(Int)] /\ meant' \in [Outlets -> Seq(Int)]
  BY <1>1, <1>3, <1>4
<1>6. ASSUME NEW q \in Outlets, ~full'[q]
      PROVE  /\ meant'[q] = stream'[q] \o Rest(q)'
             /\ ~over'[q] /\ pkt'[q].state # "ERROR" /\ pkt'[q].state \in {"IDLE", "TYPE"}
  <2>1. CASE q = s
    <3>1. stream'[q] = <<>> /\ meant'[q] = <<>> /\ ~over'[q] /\ pkt'[q] = IdlePacket
      BY <1>1, <1>3, <2>1
    <3> QED BY <1>2, <1>4, <3>1 DEF IdlePacket
  <2>2. CASE q # s
    <3>1. /\ stream'[q] = stream[q] /\ meant'[q] = meant[q] /\ over'[q] = over[q] /\ pkt'[q] = pkt[q]
          /\ ~full[q]
      BY <1>1, <1>3, <1>6, <2>2
    <3> QED BY <1>1, <1>2, <3>1 DEF StreamInv
  <2> QED BY <2>1, <2>2
<1> QED BY <1>5, <1>6 DEF StreamInv

(* A poll starts with nothing under way; the whole packets are forgotten.   *)
LEMMA PollStreams ==
    ASSUME IInv, AckInv, StreamInv, NEW o \in Outlets, Poll(o)
    PROVE  StreamInv'
<1>1. /\ pc = "idle" /\ pc' \in {"write", "handle"} /\ UNCHANGED <<pkt, over, full>> /\ at' = o
      /\ stream' = [p \in Outlets |-> IF stream[p] = meant[p] THEN <<>> ELSE stream[p]]
      /\ meant' = [p \in Outlets |-> IF stream[p] = meant[p] THEN <<>> ELSE meant[p]]
  BY DEF Poll, pktVars
<1>2. \A q \in Outlets : Rest(q) = <<>> BY <1>1, NothingUnderWay
<1>3. /\ stream \in [Outlets -> Seq(Int)] /\ meant \in [Outlets -> Seq(Int)]
      /\ over \in [Outlets -> BOOLEAN] /\ pkt \in [Outlets -> Packets]
  BY DEF StreamInv, IInv, TypeOK
<1>4. <<>> \in Seq(Int) /\ <<>> \o <<>> = <<>> OBVIOUS
<1>5. stream' \in [Outlets -> Seq(Int)] /\ meant' \in [Outlets -> Seq(Int)]
  BY <1>1, <1>3, <1>4
<1>6. ASSUME NEW q \in Outlets, ~full'[q]
      PROVE  /\ meant'[q] = stream'[q] \o Rest(q)'
             /\ ~over'[q] /\ pkt'[q].state # "ERROR" /\ pkt'[q].state \in {"IDLE", "TYPE"}
  <2>1. /\ meant[q] = stream[q] \o Rest(q) /\ ~over[q] /\ pkt[q].state # "ERROR"
        /\ pkt[q].state \in {"IDLE", "TYPE"}
    BY <1>1, <1>6 DEF StreamInv
  <2>2. meant[q] = stream[q]
    <3>1. stream[q] \in Seq(Int) BY <1>3
    <3>2. stream[q] \o <<>> = stream[q] BY <3>1, ConcatEmptySeq
    <3> QED BY <1>2, <2>1, <3>2, Zenon
  <2>3. stream'[q] = <<>> /\ meant'[q] = <<>> BY <1>1, <2>2
  <2>4. pkt[q].pos = 0
    <3>1. Acked(pkt[q], written[q], over[q]) BY DEF AckInv
    <3> QED BY <2>1, <3>1 DEF Acked, Placed
  <2>5. Rest(q)' = <<>>
    <3>1. pkt'[q].pos = 0 BY <1>1, <2>4
    <3>2. pc' # "fanout" /\ ~(pkt'[q].pos > 0) BY <1>1, <3>1
    <3> QED BY <3>2 DEF Rest
  <2> QED BY <1>1, <1>4, <2>1, <2>3, <2>5
<1> QED BY <1>5, <1>6 DEF StreamInv

(* The queued packet has gone out whole, there was none, or it has failed.  *)
LEMMA WriteEndsStreams ==
    ASSUME IInv, AckInv, StreamInv, WriteEnds
    PROVE  StreamInv'
<1>0. PICK o \in Outlets : at = o BY DEF IInv, PoolInv, WriteEnds
<1> DEFINE p == pkt[o]
<1>1. /\ pc = "write" /\ pc' = "handle" /\ p.state \notin DOMAIN NextState
      /\ IF p.state = "FINISHED"
         THEN pkt' = [pkt EXCEPT ![o] = IdlePacket] /\ over' = [over EXCEPT ![o] = FALSE]
         ELSE UNCHANGED <<pkt, over>>
      /\ UNCHANGED <<stream, meant, full, job>>
  BY <1>0 DEF WriteEnds, wireVars, copyVars
<1>2. /\ stream \in [Outlets -> Seq(Int)] /\ meant \in [Outlets -> Seq(Int)]
      /\ over \in [Outlets -> BOOLEAN] /\ pkt \in [Outlets -> Packets] /\ p \in Packets
  BY DEF StreamInv, IInv, TypeOK
<1>3. \A q \in Outlets : Rest(q)' = <<>> BY <1>1, NothingThen
<1>4. job.out = NULL /\ NULL \notin Outlets
  BY <1>1, OutboundAssumption DEF IInv, PoolInv, NoJob
<1>5. ASSUME NEW q \in Outlets, ~full'[q]
      PROVE  /\ meant'[q] = stream'[q] \o Rest(q)'
             /\ ~over'[q] /\ pkt'[q].state # "ERROR" /\ pkt'[q].state \in {"IDLE", "TYPE"}
  <2>1. /\ meant[q] = stream[q] \o Rest(q) /\ ~over[q] /\ pkt[q].state # "ERROR"
        /\ (q = o \/ pkt[q].state \in {"IDLE", "TYPE"})
    BY <1>0, <1>1, <1>5 DEF StreamInv
  <2>2. CASE q # o
    <3>1. Rest(q) = <<>> BY <1>0, <1>1, <1>4, <2>2 DEF Rest
    <3>2. pkt'[q] = pkt[q] /\ over'[q] = over[q] BY <1>1, <1>2, <2>2
    <3> QED BY <1>1, <1>3, <2>1, <2>2, <3>1, <3>2
  <2>3. CASE q = o
    <3>1. p.state \in {"IDLE", "FINISHED"}
      BY <1>1, <1>2, <2>1, <2>3 DEF Packets, PacketStates, NextState
    <3>2. Acked(p, written[o], over[o]) BY DEF AckInv
    <3>3. Rest(q) = <<>>
      <4>1. CASE p.state = "IDLE"
        <5>1. ~(p.pos > 0) BY <3>2, <4>1 DEF Acked
        <5> QED BY <1>0, <1>1, <1>4, <2>3, <5>1 DEF Rest
      <4>2. CASE p.state = "FINISHED"
        <5>1. p.pos = p.length /\ p.pos \in Nat /\ <<p.type, p.length>> \in Acks
          BY <1>2, <2>1, <2>3, <3>2, <4>2 DEF Acked, Placed, Packets
        <5>2. p.length \in {2, 4} BY <5>1, AckSeq
        <5>3. Rest(q) = SubSeq(AckBytes(p), p.pos + 1, p.length)
          BY <1>0, <1>1, <2>3, <5>1, <5>2 DEF Rest
        <5>4. p.pos + 1 \in Int /\ p.length \in Int /\ p.length < p.pos + 1 BY <5>1, <5>2
        <5>5. SubSeq(AckBytes(p), p.pos + 1, p.length) = <<>> BY <5>4, SubSeqEmpty
        <5> QED BY <5>3, <5>5, Zenon
      <4> QED BY <3>1, <4>1, <4>2
    <3>4. pkt'[q].state = "IDLE" /\ ~over'[q]
      BY <1>1, <1>2, <2>1, <2>3, <3>1 DEF IdlePacket
    <3> QED BY <1>1, <1>3, <2>1, <3>3, <3>4
  <2> QED BY <2>2, <2>3
<1> QED BY <1>1, <1>2, <1>5 DEF StreamInv

(* Handlers that write nothing, or queue their answer.                      *)
LEMMA HandlerStreams ==
    ASSUME IInv, AckInv, StreamInv,
           NothingRead \/ HandlePing \/ HandleUnsubscribe \/ HandleDisconnect \/ HandlePublish
    PROVE  StreamInv'
<1>1. /\ pc = "handle" /\ pc' \in {"idle", "router"} /\ UNCHANGED wireVars
  BY DEF NothingRead, HandlePing, HandleUnsubscribe, HandleDisconnect, HandlePublish, Handles
<1>2. \A o \in Outlets : ~full[o] => ~over[o] /\ pkt[o].state \in {"IDLE", "TYPE"} /\ pkt[o].pos = 0
  <2> SUFFICES ASSUME NEW o \in Outlets, ~full[o]
               PROVE  ~over[o] /\ pkt[o].state \in {"IDLE", "TYPE"} /\ pkt[o].pos = 0
    OBVIOUS
  <2>1. ~over[o] /\ pkt[o].state \in {"IDLE", "TYPE"} BY <1>1 DEF StreamInv
  <2>2. Acked(pkt[o], written[o], over[o]) BY DEF AckInv
  <2> QED BY <2>1, <2>2 DEF Acked, Placed
<1>3. \A o \in Outlets : Rest(o) = <<>> /\ Rest(o)' = <<>>
  BY <1>1, NothingUnderWay, NothingThen
<1>4. \A o \in Outlets : ~full[o] => ~over'[o] /\ pkt'[o].state \in {"IDLE", "TYPE"}
  <2>1. CASE NothingRead \/ HandleDisconnect \/ HandlePublish
    <3>1. UNCHANGED <<pkt, over>>
      BY <2>1 DEF NothingRead, HandleDisconnect, HandlePublish, pktVars
    <3> QED BY <1>2, <3>1
  <2>2. CASE HandlePing \/ HandleUnsubscribe
    <3>1. at \in Outlets BY <1>1 DEF IInv, PoolInv
    <3>2. /\ <<Pingreq, 2>> \in Acks /\ <<Pingresp, 2>> \in Acks /\ <<Unsuback, 4>> \in Acks
          /\ Pingreq \in Nat /\ Pingresp \in Nat /\ Unsuback \in Nat
      BY DEF Acks, Pingreq, Pingresp, Unsuback
    <3>3. PICK type \in Nat, length \in Nat : <<type, length>> \in Acks /\ Queue(at, type, length)
      BY <2>2, <3>2 DEF HandlePing, HandleUnsubscribe
    <3>4. /\ \A o \in Outlets \ {at} : pkt'[o] = pkt[o] /\ over'[o] = over[o]
          /\ pkt'[at].state = "TYPE" /\ over'[at] = (over[at] \/ pkt[at].pos # 0)
      BY <3>1, <3>3, QueueStep
    <3> QED BY <1>2, <3>1, <3>4
  <2> QED BY <2>1, <2>2
<1> QED BY <1>1, <1>3, <1>4 DEF StreamInv, wireVars

(* The packets that are written at once are whole: the length that each     *)
(* constructor adds up is that of what it writes.                           *)
LEMMA SubackWhole ==
    ASSUME NEW codes \in Seq(Int)
    PROVE  /\ SubackBytes(codes) = Packet(Suback, U16(MsgId) \o codes)
           /\ SubackBytes(codes) \in Seq(Int)
<1> DEFINE u == U16(MsgId)
           h == <<Suback>> \o EncodeLength(2 + Len(codes))
<1>1. u \in Seq(Int) /\ Len(u) = 2
  <2>1. MsgId \in Nat BY DEF MsgId
  <2> QED BY <2>1, U16Seq
<1>2. Len(codes) \in Nat BY LenProperties
<1>3. u \o codes \in Seq(Int) /\ Len(u \o codes) = 2 + Len(codes)
  <2> HIDE DEF u
  <2>1. Len(u \o codes) = Len(u) + Len(codes) /\ u \o codes \in Seq(Int)
    BY <1>1, Joined, Zenon
  <2> QED BY <1>1, <2>1, Zenon
<1>4. h \in Seq(Int)
  <2>1. 2 + Len(codes) \in Nat BY <1>2
  <2>2. EncodeLength(2 + Len(codes)) \in Seq(Int) BY <2>1, EncodeSeq
  <2>3. <<Suback>> \in Seq(Int) BY DEF Suback
  <2> QED BY <2>2, <2>3, Joined, Zenon
<1>5. SubackBytes(codes) = (h \o u) \o codes BY Zenon DEF SubackBytes
<1>6. Packet(Suback, u \o codes) = h \o (u \o codes) BY <1>3, Zenon DEF Packet
<1>7. Packet(Suback, u \o codes) \in Seq(Int)
  <2>1. Suback \in Int BY DEF Suback
  <2> QED BY <1>3, <2>1, PacketSeq
<1> HIDE DEF u, h
<1>8. (h \o u) \o codes = h \o (u \o codes) BY <1>1, <1>4, Regrouped
<1> QED BY <1>5, <1>6, <1>7, <1>8, Zenon DEF u

(* A CONNACK has two bytes of body.                                         *)
LEMMA ConnackWhole ==
    ConnackBytes = Packet(Connack, <<0, 0>>) /\ ConnackBytes \in Seq(Int)
<1>1. <<0, 0>> \in Seq(Int) /\ Len(<<0, 0>>) = 2 /\ Connack \in Int BY DEF Connack
<1>2. ConnackBytes = Packet(Connack, <<0, 0>>) BY <1>1, Zenon DEF ConnackBytes, Packet
<1> QED BY <1>1, <1>2, PacketSeq

(* A CONNECT has its varhead and the client id.                             *)
LEMMA ConnectWhole ==
    /\ ConnectBytes = Packet(Connect, ConnectHead \o Str(ClientId))
    /\ ConnectBytes \in Seq(Int)
<1> DEFINE a == ConnectHead
           u == U16(Len(ClientId))
           c == ClientId
           h == <<Connect>> \o EncodeLength(Len(a) + Len(c) + 2)
<1>1. c \in Seq(Int) /\ Len(c) \in Nat BY DEF ClientId
<1>2. u \in Seq(Int) /\ Len(u) = 2 BY <1>1, U16Seq
<1>3. Str(c) = u \o c BY Zenon DEF Str
<1>4. u \o c \in Seq(Int) /\ Len(u \o c) = 2 + Len(c) BY <1>1, <1>3, StrSeq, Zenon
<1>5. a \in Seq(Int) /\ Len(a) \in Nat
  <2>1. <<77, 81, 84, 84>> \in Seq(Int) /\ <<4, 2, 0, 0>> \in Seq(Int) OBVIOUS
  <2>2. Str(<<77, 81, 84, 84>>) \in Seq(Int) BY <2>1, StrSeq, Zenon
  <2>3. a \in Seq(Int) BY <2>1, <2>2, Joined, Zenon DEF ConnectHead
  <2> QED BY <2>3, LenProperties
<1>6. h \in Seq(Int)
  <2>1. Len(a) + Len(c) + 2 \in Nat BY <1>1, <1>5
  <2>2. EncodeLength(Len(a) + Len(c) + 2) \in Seq(Int) BY <2>1, EncodeSeq
  <2>3. <<Connect>> \in Seq(Int) BY DEF Connect
  <2> QED BY <2>2, <2>3, Joined, Zenon
<1>7. ConnectBytes = ((h \o a) \o u) \o c BY Zenon DEF ConnectBytes
<1> DEFINE b == u \o c
<1>8. a \o b \in Seq(Int) /\ Len(a \o b) = Len(a) + Len(b) BY <1>4, <1>5, Joined, Zenon
<1>9. Len(a) + Len(b) = Len(a) + Len(c) + 2 BY <1>1, <1>4, <1>5
<1>10. Packet(Connect, a \o b) = h \o (a \o b) BY <1>8, <1>9, Zenon DEF Packet
<1>11. Packet(Connect, a \o b) \in Seq(Int)
  <2>1. Connect \in Int BY DEF Connect
  <2> QED BY <1>8, <2>1, PacketSeq, Zenon
<1>12. ((h \o a) \o u) \o c = h \o (a \o b)
  <2> HIDE DEF h, a, u, c
  <2>1. h \o a \in Seq(Int) BY <1>5, <1>6, Joined, Zenon
  <2>2. ((h \o a) \o u) \o c = (h \o a) \o (u \o c) BY <1>1, <1>2, <2>1, Regrouped
  <2>3. (h \o a) \o (u \o c) = h \o (a \o (u \o c)) BY <1>4, <1>5, <1>6, Regrouped
  <2> QED BY <2>2, <2>3, Zenon
<1> QED BY <1>3, <1>7, <1>10, <1>11, <1>12, Zenon

(* A SUBSCRIBE has its message id, the topic and the QoS.                   *)
LEMMA SubscribeWhole ==
    /\ SubscribeBytes = Packet(Subscribe, U16(MsgId) \o Str(Topic) \o <<0>>)
    /\ SubscribeBytes \in Seq(Int)
<1> DEFINE m == U16(MsgId)
           u == U16(Len(Topic))
           t == Topic
           z == <<0>>
           h == <<Subscribe>> \o EncodeLength(2 + 2 + Len(t) + 1)
<1>1. t \in Seq(Int) /\ Len(t) \in Nat /\ z \in Seq(Int) /\ Len(z) = 1 BY DEF Topic
<1>2. m \in Seq(Int) /\ Len(m) = 2
  <2>1. MsgId \in Nat BY DEF MsgId
  <2> QED BY <2>1, U16Seq
<1>3. u \in Seq(Int) BY <1>1, U16Seq
<1>4. Str(t) = u \o t BY Zenon DEF Str
<1>5. u \o t \in Seq(Int) /\ Len(u \o t) = 2 + Len(t) BY <1>1, <1>4, StrSeq, Zenon
<1>6. h \in Seq(Int)
  <2>1. 2 + 2 + Len(t) + 1 \in Nat BY <1>1
  <2>2. EncodeLength(2 + 2 + Len(t) + 1) \in Seq(Int) BY <2>1, EncodeSeq
  <2>3. <<Subscribe>> \in Seq(Int) BY DEF Subscribe
  <2> QED BY <2>2, <2>3, Joined, Zenon
<1>7. SubscribeBytes = (((h \o m) \o u) \o t) \o z BY Zenon DEF SubscribeBytes
<1> DEFINE b == u \o t
           w == (m \o b) \o z
<1>8. m \o b \in Seq(Int) /\ Len(m \o b) = Len(m) + Len(b) BY <1>2, <1>5, Joined, Zenon
<1>9. w \in Seq(Int) /\ Len(w) = Len(m \o b) + Len(z) BY <1>1, <1>8, Joined, Zenon
<1>10. Len(w) = 2 + 2 + Len(t) + 1
  <2> HIDE DEF w, b, m, t, z
  <2> QED BY <1>1, <1>2, <1>5, <1>8, <1>9 DEF b
<1>11. Packet(Subscribe, w) = h \o w BY <1>10, Zenon DEF Packet
<1>12. Packet(Subscribe, w) \in Seq(Int)
  <2>1. Subscribe \in Int BY DEF Subscribe
  <2> QED BY <1>9, <2>1, PacketSeq, Zenon
<1>13. (((h \o m) \o u) \o t) \o z = h \o w
  <2> HIDE DEF h, m, u, t, z
  <2>1. h \o m \in Seq(Int) BY <1>2, <1>6, Joined, Zenon
  <2>2. ((h \o m) \o u) \o t = (h \o m) \o b BY <1>1, <1>3, <2>1, Regrouped
  <2> HIDE DEF b
  <2>3. b \in Seq(Int) BY <1>5 DEF b
  <2>4. (h \o m) \o b = h \o (m \o b) BY <1>2, <1>6, <2>3, Regrouped
  <2>5. (h \o (m \o b)) \o z = h \o ((m \o b) \o z) BY <1>1, <1>6, <1>8, Regrouped
  <2> QED BY <2>2, <2>4, <2>5, Zenon
<1> QED BY <1>4, <1>7, <1>11, <1>12, <1>13, Zenon

(* The steps that write a whole packet at once.                             *)
LEMMA WholeStreams ==
    ASSUME IInv, StreamInv,
           HandleSubscribe \/ HandleConnect \/ RemoteConnects \/ RemoteSubscribes
    PROVE  StreamInv'
<1>1. /\ pc \in {"handle", "idle"} /\ UNCHANGED <<pkt, over>>
      /\ pc' # "write" /\ (pc' # "fanout" \/ job'.out = NULL)
  <2>1. CASE HandleSubscribe \/ RemoteConnects \/ RemoteSubscribes
    BY <2>1 DEF HandleSubscribe, RemoteConnects, RemoteSubscribes, Handles, pktVars
  <2>2. CASE HandleConnect
    <3>1. pc = "handle" /\ UNCHANGED <<pkt, over>> /\ SysPublishes
      BY <2>2 DEF HandleConnect, Handles, pktVars
    <3>2. \A n, to : [NoJob EXCEPT !.port = "sys", !.to = to, !.len = n].out = NULL
      BY DEF NoJob
    <3> QED BY <3>1, <3>2 DEF SysPublishes
  <2> QED BY <2>1, <2>2
<1>2. Remote \in Outlets /\ Slots \subseteq Outlets BY DEF Outlets
<1>3. ASSUME NEW o \in Outlets, NEW b \in Seq(Int), Write(o, b, b) PROVE StreamInv'
  BY <1>1, <1>3, WholeWrite
<1>4. CASE HandleSubscribe
  <2>1. PICK codes \in {<<0>>, <<0, 128>>} :
          Write(at, SubackBytes(codes), Packet(Suback, U16(MsgId) \o codes))
    BY <1>4 DEF HandleSubscribe
  <2>2. codes \in Seq(Int) /\ at \in Outlets
    <3>1. <<0>> \in Seq(Int) /\ <<0, 128>> \in Seq(Int) OBVIOUS
    <3>2. codes \in Seq(Int) BY <3>1
    <3>3. at \in Outlets BY <1>2, <1>4 DEF HandleSubscribe
    <3> QED BY <3>2, <3>3
  <2>3. PICK o \in Outlets : at = o BY <2>2
  <2>4. PICK b \in Seq(Int) : b = SubackBytes(codes) BY <2>2, SubackWhole
  <2>5. Write(o, b, b) BY <2>1, <2>2, <2>3, <2>4, SubackWhole, Zenon
  <2> QED BY <1>3, <2>5
<1>5. CASE HandleConnect
  <2>1. CASE Write(at, ConnackBytes, Packet(Connack, <<0, 0>>))
    <3>1. PICK o \in Outlets : at = o BY <1>2, <1>5 DEF HandleConnect
    <3> QED BY <1>3, <2>1, <3>1, ConnackWhole, Zenon
  <2>2. CASE UNCHANGED wireVars
    <3>1. \A o \in Outlets : ~full[o] => pkt'[o].state \in {"IDLE", "TYPE"}
      BY <1>1 DEF StreamInv
    <3> QED BY <1>1, <2>2, <3>1, QuietStreams
  <2> QED BY <1>5, <2>1, <2>2 DEF HandleConnect
<1>6. CASE RemoteConnects
  BY <1>2, <1>3, <1>6, ConnectWhole, Zenon DEF RemoteConnects
<1>7. CASE RemoteSubscribes
  BY <1>2, <1>3, <1>7, SubscribeWhole, Zenon DEF RemoteSubscribes
<1> QED BY <1>4, <1>5, <1>6, <1>7

(* The ports' own steps: they write nothing, and the copy that ends has     *)
(* nothing left.                                                            *)
LEMMA PortStreams ==
    ASSUME IInv, StreamInv,
           RouterBegins \/ RemoteBegins \/ CopyEnds \/ PortEnds \/ PublishEnds
    PROVE  StreamInv'
<1>1. CASE RouterBegins \/ RemoteBegins
  <2>1. \A port, to : References(port, to) => job'.out = NULL BY DEF References, NoJob
  <2>2. /\ pc \in {"router", "remote"} /\ pc' = "fanout" /\ job'.out = NULL
        /\ UNCHANGED <<wireVars, pkt, over>>
    BY <1>1, <2>1 DEF RouterBegins, RemoteBegins, pktVars
  <2>3. \A o \in Outlets : ~full[o] => pkt'[o].state \in {"IDLE", "TYPE"}
    BY <2>2 DEF StreamInv
  <2> QED BY <2>2, <2>3, QuietStreams
<1>2. CASE PortEnds \/ PublishEnds
  <2>1. /\ pc # "write" /\ pc' # "write" /\ (pc # "fanout" \/ job.out = NULL) /\ job'.out = NULL
        /\ UNCHANGED <<wireVars, pkt, over>>
    <3>1. NoJob.out = NULL BY DEF NoJob
    <3>2. CASE PublishEnds
      <4>1. pc \in {"remote", "handed on"} BY <3>2 DEF PublishEnds
      <4>2. job = NoJob BY <4>1 DEF IInv, PoolInv
      <4> QED BY <3>1, <3>2, <4>1, <4>2 DEF PublishEnds, pktVars
    <3>3. CASE PortEnds
      <4>1. pc = "fanout" /\ job.port \in DOMAIN Onwards BY <3>3 DEF PortEnds, IInv, PoolInv
      <4>2. pc' # "write"
        <5>1. pc' = Onwards[job.port] BY <3>3 DEF PortEnds
        <5>2. job.port \in {"router", "remote", "sys"} BY <4>1 DEF Onwards
        <5>3. /\ Onwards["router"] # "write" /\ Onwards["remote"] # "write"
              /\ Onwards["sys"] # "write"
          BY DEF Onwards
        <5> QED BY <5>1, <5>2, <5>3, Zenon
      <4> QED BY <3>1, <3>3, <4>1, <4>2 DEF PortEnds, pktVars
    <3> QED BY <1>2, <3>2, <3>3
  <2>2. \A o \in Outlets : ~full[o] => pkt'[o].state \in {"IDLE", "TYPE"}
    BY <2>1 DEF StreamInv
  <2> QED BY <2>1, <2>2, QuietStreams
<1>3. CASE CopyEnds
  <2>1. /\ pc = "fanout" /\ pc' = "fanout" /\ job.left = 0 /\ job'.out = NULL
        /\ UNCHANGED <<stream, meant, full, pkt, over>>
    BY <1>3 DEF CopyEnds, IInv, TypeOK, Jobs, wireVars, pktVars
  <2>2. \A o \in Outlets : Rest(o)' = <<>> BY <2>1, NothingThen
  <2>3. [i \in 1..0 |-> job.tail + i] = <<>> OBVIOUS
  <2>4. \A o \in Outlets : Rest(o) = <<>> BY <2>1, <2>3 DEF Rest
  <2> QED BY <2>1, <2>2, <2>4 DEF StreamInv
<1> QED BY <1>1, <1>2, <1>3

-----------------------------------------------------------------------------
(* The invariant holds at first and is kept by every step.                  *)
LEMMA SInvInit == Init => SInv
<1> SUFFICES ASSUME Init PROVE SInv OBVIOUS
<1>1. IInv BY IInvInit
<1>2. <<>> \in Seq(Int) /\ <<>> \o <<>> = <<>> OBVIOUS
<1>3. AckInv BY <1>2, IdleAcked DEF Init, AckInv
<1>4. \A o \in Outlets : Rest(o) = <<>> BY DEF Init, Rest
<1>5. StreamInv BY <1>2, <1>4 DEF Init, StreamInv, IdlePacket
<1> QED BY <1>1, <1>3, <1>5 DEF SInv

(* Every step keeps it.                                                     *)
LEMMA SInvStep == SInv /\ [Next]_vars => SInv'
<1> SUFFICES ASSUME SInv, [Next]_vars PROVE SInv' OBVIOUS
<1> /\ IInv /\ AckInv /\ StreamInv BY DEF SInv
<1>1. IInv' BY IInvStep
<1>2. AckInv' BY AckStep
<1>3. StreamInv'
  <2>1. CASE Next
    BY <2>1, RegisterStreams, PollStreams, WriteTurnStreams, WriteEndsStreams, HandlerStreams,
       WholeStreams, BeginCopyStreams, CopyStreams, PortStreams DEF Next, FanOut
  <2>2. CASE UNCHANGED vars
    BY <2>2 DEF StreamInv, Rest, AckBytes, vars, wireVars, pktVars, copyVars
  <2> QED BY <2>1, <2>2
<1> QED BY <1>1, <1>2, <1>3 DEF SInv

(* So it holds in every reachable state.                                    *)
LEMMA StreamInvariance == Spec => []SInv
  BY SInvInit, SInvStep, PTL DEF Spec

(* A queued packet goes out once, from its first byte to its last, however  *)
(* many polls the socket takes over it and wherever it blocks.              *)
THEOREM AcksGoOutOnce == Spec => []AckResumes
<1>1. ASSUME SInv PROVE AckResumes
  <2> SUFFICES ASSUME NEW o \in Outlets, ~over[o],
                      pkt[o].state \in DOMAIN NextState \cup {"FINISHED"}
               PROVE  /\ Len(written[o]) = pkt[o].pos
                      /\ IsPrefix(written[o], AckBytes(pkt[o]))
                      /\ pkt[o].state = "FINISHED" => pkt[o].pos = Len(AckBytes(pkt[o]))
    BY DEF AckResumes
  <2> DEFINE p == pkt[o]
             g == AckBytes(p)
  <2>1. /\ p \in Packets /\ Acked(p, written[o], over[o])
        /\ p.state \in {"TYPE", "LEN", "MSGID", "FINISHED"}
    BY <1>1 DEF SInv, IInv, TypeOK, AckInv, NextState
  <2>2. <<p.type, p.length>> \in Acks /\ Placed(p) /\ written[o] = SubSeq(g, 1, p.pos)
    BY <2>1 DEF Acked
  <2>3. g \in Seq(Int) /\ Len(g) = p.length /\ p.length \in {2, 4} BY <2>2, AckSeq
  <2>4. p.pos \in Nat /\ p.pos <= p.length
    BY <2>1, <2>2, <2>3, ByteNext DEF Placed, Packets, NextState
  <2> HIDE DEF g, p
  <2>5. \A i \in 1..p.pos : g[i] \in Int
    <3> TAKE i \in 1..p.pos
    <3>1. i \in 1..Len(g) BY <2>3, <2>4
    <3> QED BY <2>3, <3>1, ElementOfSeq
  <2>6. Len(SubSeq(g, 1, p.pos)) = p.pos /\ SubSeq(g, 1, p.pos) \in Seq(Int)
    BY <2>4, <2>5, SubSeqProperties
  <2>7. IsPrefix(SubSeq(g, 1, p.pos), g)
    <3>1. SubSeq(SubSeq(g, 1, p.pos), 1, p.pos) = SubSeq(g, 1, p.pos)
      BY <2>6, SubSeqFull
    <3>2. p.pos <= Len(g) BY <2>3, <2>4
    <3> QED BY <2>6, <3>1, <3>2 DEF IsPrefix
  <2>8. p.state = "FINISHED" => p.pos = Len(g) BY <2>2, <2>3 DEF Placed
  <2> QED BY <2>2, <2>6, <2>7, <2>8 DEF p, g
<1> QED BY <1>1, StreamInvariance, PTL

(* A socket that takes what it is given sees whole packets in the order in  *)
(* which they were begun, acknowledgements and publishes of others between  *)
(* them: no packet is cut short and none begins inside another.             *)
THEOREM PacketsStayWhole == Spec => []StreamWhole
<1>1. ASSUME SInv PROVE StreamWhole
  <2> SUFFICES ASSUME NEW o \in Outlets, ~full[o]
               PROVE  IF job.out = o \/ (pc = "write" /\ at = o)
                      THEN IsPrefix(stream[o], meant[o])
                      ELSE stream[o] = meant[o]
    BY DEF StreamWhole
  <2>1. /\ meant[o] = stream[o] \o Rest(o) /\ stream[o] \in Seq(Int)
        /\ (pc = "write" /\ at = o) \/ pkt[o].state \in {"IDLE", "TYPE"}
    BY <1>1 DEF SInv, StreamInv
  <2>2. CASE job.out = o \/ (pc = "write" /\ at = o)
    <3>1. Rest(o) \in Seq(Int)
      <4>1. CASE pc = "write" /\ at = o /\ pkt[o].pos > 0
        <5> DEFINE p == pkt[o]
        <5>1. p \in Packets /\ Acked(p, written[o], over[o])
          BY <1>1 DEF SInv, IInv, TypeOK, AckInv
        <5>2. p.state # "IDLE" BY <4>1, <5>1 DEF Acked
        <5>3. <<p.type, p.length>> \in Acks BY <5>1, <5>2 DEF Acked
        <5>4. AckBytes(p) \in Seq(Int) /\ Len(AckBytes(p)) = p.length /\ p.length \in {2, 4}
          BY <5>3, AckSeq
        <5>5. p.pos \in Nat BY <5>1 DEF Packets
        <5>6. \A i \in p.pos + 1..p.length : AckBytes(p)[i] \in Int
          <6> TAKE i \in p.pos + 1..p.length
          <6>1. i \in 1..Len(AckBytes(p)) BY <5>4, <5>5
          <6> QED BY <5>4, <6>1, ElementOfSeq
        <5>7. SubSeq(AckBytes(p), p.pos + 1, p.length) \in Seq(Int)
          <6>1. p.pos + 1 \in Int /\ p.length \in Int BY <5>4, <5>5
          <6> QED BY <5>6, <6>1, SubSeqProperties
        <5>8. Rest(o) = SubSeq(AckBytes(p), p.pos + 1, p.length) BY <4>1 DEF Rest
        <5> QED BY <5>7, <5>8, Zenon
      <4>2. CASE ~(pc = "write" /\ at = o /\ pkt[o].pos > 0) /\ pc = "fanout" /\ job.out = o
        <5>1. job.left \in Nat /\ job.tail \in Nat BY <1>1 DEF SInv, IInv, TypeOK, Jobs
        <5>2. Rest(o) = [i \in 1..job.left |-> job.tail + i] BY <4>2 DEF Rest
        <5>3. [i \in 1..job.left |-> job.tail + i] \in Seq(Int) BY <5>1
        <5> QED BY <5>2, <5>3, Zenon
      <4>3. CASE ~(pc = "write" /\ at = o /\ pkt[o].pos > 0) /\ ~(pc = "fanout" /\ job.out = o)
        <5>1. Rest(o) = <<>> BY <4>3 DEF Rest
        <5>2. <<>> \in Seq(Int) OBVIOUS
        <5> QED BY <5>1, <5>2
      <4> QED BY <4>1, <4>2, <4>3
    <3>2. IsPrefix(stream[o], meant[o]) BY <2>1, <3>1, Begins, Zenon
    <3> QED BY <2>2, <3>2
  <2>3. CASE ~(job.out = o \/ (pc = "write" /\ at = o))
    <3>1. Rest(o) = <<>> BY <2>3 DEF Rest
    <3>2. stream[o] \o <<>> = stream[o] BY <2>1, ConcatEmptySeq
    <3> QED BY <2>1, <2>3, <3>1, <3>2, Zenon
  <2> QED BY <2>2, <2>3
<1> QED BY <1>1, StreamInvariance, PTL

=============================================================================
