----------------------------- MODULE MCOutbound -----------------------------
(* A small instance of Outbound for TLC.                                    *)
EXTENDS Outbound

(* What libmqtt_readpkt_commonstates makes of length bytes, without the     *)
(* fixed header it counts in.                                               *)
DecodeLength(bytes) ==
    LET dec[i \in 1..Len(bytes) + 1] ==
            IF i > Len(bytes) THEN 0 ELSE (bytes[i] % 128) + 128 * dec[i + 1]
    IN  dec[1]

(* Lengths across the ends of one and of two bytes are read as written.     *)
ASSUME LengthCodec ==
    \A n \in 0..300 \cup 16380..16390 :
        LET e == EncodeLength(n)
        IN  /\ DecodeLength(e) = n
            /\ \A i \in DOMAIN e : (e[i] >= 128) = (i < Len(e))

MCRemote == 3
MCRefusals == {EWOULDBLOCK, EREMOTEDISCONNECTED}

=============================================================================
