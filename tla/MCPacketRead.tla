----------------------------- MODULE MCPacketRead -----------------------------
(* Streams of whole MQTT packets, byte for byte, for TLC to send.           *)
EXTENDS PacketRead, SequencesExt

(* A packet: its bytes, the size of its payload, and its fields after the   *)
(* first byte with their sizes.                                             *)
Packet(b, n, fs) == [b |-> b, n |-> n, fs |-> fs, noise |-> 0]

ConnectTo(n) == <<<<"LEN", 1>>, <<"CONNECT_PROTOLEN", 2>>, <<"CONNECT_PROTO", 1>>,
                  <<"CONNECT_PROTOLEVEL", 1>>, <<"CONNECT_FLAGS", 1>>,
                  <<"CONNECT_KEEPALIVE", 2>>, <<"CONNECT_CLIENTIDLEN", 2>>,
                  <<"CONNECT_CLIENTID", n>>>>
PublishTo(n) == <<<<"PUBLISH_TOPICLEN", 2>>, <<"PUBLISH_TOPIC", 1>>, <<"PUBLISH_PAYLOAD", n>>>>

Connect      == Packet(<<16, 10, 0, 1, 77, 4, 2, 0, 9, 0, 1, 99>>, 0, ConnectTo(1))
ConnectNoId  == Packet(<<16, 9, 0, 1, 77, 4, 2, 0, 0, 0, 0>>, 0, ConnectTo(0))
ConnectUser  == Packet(<<16, 13, 0, 1, 77, 4, 130, 0, 9, 0, 1, 99, 0, 1, 117>>, 0,
                       Append(ConnectTo(1), <<"PUBLISH_PAYLOAD", 3>>))
Publish(n)   == Packet(<<48, 3 + n, 0, 1, 116>> \o [i \in 1..n |-> 100 + i], n,
                       <<<<"LEN", 1>>>> \o PublishTo(n))
PublishQos1  == Packet(<<50, 7, 0, 1, 116, 0, 7, 1, 2>>, 2,
                       <<<<"LEN", 1>>, <<"PUBLISH_TOPICLEN", 2>>, <<"PUBLISH_TOPIC", 1>>,
                         <<"PUBLISH_MSGID", 2>>, <<"PUBLISH_PAYLOAD", 2>>>>)
PublishLong  == Packet(<<48, 133, 0, 0, 1, 116, 1, 2>>, 2, \* length in two bytes
                       <<<<"LEN", 2>>>> \o PublishTo(2))
Subscribe    == Packet(<<130, 10, 0, 1, 0, 1, 116, 0, 0, 1, 117, 1>>, 0,
                       <<<<"LEN", 1>>, <<"SUBSCRIBE_MSGID", 2>>,
                         <<"SUBSCRIBE_TOPICLEN", 2>>, <<"SUBSCRIBE_TOPICFILTER", 1>>,
                         <<"SUBSCRIBE_QOS", 1>>,
                         <<"SUBSCRIBE_TOPICLEN", 2>>, <<"SUBSCRIBE_TOPICFILTER", 1>>,
                         <<"SUBSCRIBE_QOS", 1>>>>)
Unsubscribe  == Packet(<<162, 8, 0, 2, 0, 1, 116, 0, 1, 117>>, 0,
                       <<<<"LEN", 1>>, <<"UNSUBSCRIBE_MSGID", 2>>,
                         <<"UNSUBSCRIBE_TOPICLEN", 2>>, <<"UNSUBSCRIBE_TOPICFILTER", 1>>,
                         <<"UNSUBSCRIBE_TOPICLEN", 2>>, <<"UNSUBSCRIBE_TOPICFILTER", 1>>>>)
PingReq      == Packet(<<192, 0>>, 0, <<<<"LEN", 1>>>>)
PubAck       == Packet(<<64, 2, 0, 7>>, 0, <<<<"LEN", 1>>, <<"MSGID", 2>>>>)
SubAck       == Packet(<<144, 3, 0, 1, 0>>, 0,
                       <<<<"LEN", 1>>, <<"SUBACK_MSGID", 2>>, <<"SUBACK_RESULT", 1>>>>)
ConnAck      == Packet(<<32, 2, 0, 0>>, 0,
                       <<<<"LEN", 1>>, <<"CONNACK_FLAGS", 1>>, <<"CONNACK_RETCODE", 1>>>>)

(* A byte that starts no packet, put before one, is skipped with an ERROR.  *)
AfterNoise(p) == [p EXCEPT !.b = <<240>> \o @, !.noise = 1]

(* The places of a packet's bytes; those before its length are in no field. *)
Places(p) ==
    [k \in 1..(p.noise + 1) |-> [name |-> "TYPE", nth |-> 1]]
        \o FlattenSeq([j \in DOMAIN p.fs |->
                [k \in 1..p.fs[j][2] |-> [name |-> p.fs[j][1], nth |-> k]]])

Stream(ps) ==
    LET bs == [i \in DOMAIN ps |-> ps[i].b]
        upto(i) == Len(FlattenSeq(SubSeq(bs, 1, i)))
    IN  [bytes    |-> FlattenSeq(bs),
         starts   |-> [i \in DOMAIN ps |-> upto(i - 1) + ps[i].noise + 1],
         ends     |-> [i \in DOMAIN ps |-> upto(i)],
         payloads |-> [i \in DOMAIN ps |-> ps[i].n],
         fields   |-> FlattenSeq([i \in DOMAIN ps |-> Places(ps[i])])]

MCGood == {Stream(ps) : ps \in {
    <<Connect, Publish(5), PingReq>>, <<ConnectNoId, PublishQos1>>,
    <<Subscribe, Publish(0), PingReq>>, <<Unsubscribe, PublishLong, PubAck>>,
    <<ConnAck, SubAck, Publish(4)>>, <<AfterNoise(PingReq), Publish(1)>>}}

MCCredentials == {Stream(<<ConnectUser, PingReq>>)}
MCOversize    == {Stream(<<Publish(7), PingReq>>)}
MCAll         == MCGood \cup MCCredentials \cup MCOversize

=============================================================================
