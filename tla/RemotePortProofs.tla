-------------------------- MODULE RemotePortProofs --------------------------
(***************************************************************************)
(* Proofs about RemotePort, for any timeouts, any width of the timestamp,   *)
(* any pool and whatever the remote sends and the network does.             *)
(***************************************************************************)
EXTENDS RemotePort, WellFoundedInduction, TLAPS

(* Numbers: the least of a set, and the clock's arithmetic.                 *)

(* The library's relation on the naturals, as it is used below.             *)
LEMMA LessRelation ==
    ASSUME NEW x \in Nat, NEW y \in Nat, x < y
    PROVE  <<x, y>> \in OpToRel(<, Nat)
  BY DEF OpToRel

(* A set of naturals has a least member.                                    *)
LEMMA LeastOfSet ==
    ASSUME NEW T \in SUBSET Nat, T # {}
    PROVE  \E x \in T : \A y \in T : x <= y
<1>1. PICK x \in T : \A y \in T : ~ (<<y, x>> \in OpToRel(<, Nat))
  BY NatLessThanWellFounded, WFMin
<1>2. \A y \in T : ~(y < x) BY <1>1, LessRelation
<1>3. \A y \in T : x <= y BY <1>2
<1> QED BY <1>3

(* The bound of quiet lies above every silence that is asked about.         *)
LEMMA QuietMaxAbove ==
    /\ QuietMax \in Nat /\ QuietMax > ConnectTimeout /\ QuietMax > SubscribeTimeout
    /\ \A k \in Keepalives : QuietMax > 2 * k
<1> DEFINE Limits == {ConnectTimeout, SubscribeTimeout} \cup {2 * k : k \in Keepalives}
           Longer == {q \in Nat : \A l \in Limits : q > l}
<1>1. \A l \in Limits : l \in Nat /\ l < TimeWidth
  BY RemoteAssumption
<1>2. TimeWidth \in Nat /\ TimeWidth > 0
  BY RemoteAssumption
<1>3. TimeWidth \in Longer
  BY <1>1, <1>2
<1>4. PICK q \in Longer : \A r \in Longer : q <= r
  <2>1. Longer \in SUBSET Nat /\ Longer # {} BY <1>3
  <2> HIDE DEF Longer
  <2> QED BY <2>1, LeastOfSet
<1>5. q - 1 \in Limits
  <2>1. q \in Nat /\ q > 0 /\ q <= TimeWidth
    <3>1. ConnectTimeout \in Limits /\ ConnectTimeout \in Nat BY <1>1
    <3>2. q > ConnectTimeout BY <1>4, <3>1
    <3> QED BY <1>2, <1>3, <1>4, <3>1, <3>2
  <2>2. q - 1 \in Nat /\ q - 1 \notin Longer
    <3>1. ~(q <= q - 1) BY <2>1
    <3> QED BY <1>4, <2>1, <3>1
  <2>3. PICK l \in Limits : ~(q - 1 > l) BY <2>2
  <2>4. q > l BY <1>4, <2>3
  <2> HIDE DEF Limits, Longer
  <2>5. l = q - 1 BY <1>1, <2>1, <2>3, <2>4
  <2> QED BY <2>3, <2>5
<1>6. /\ q \in 0..(2 * TimeWidth) /\ q > ConnectTimeout /\ q > SubscribeTimeout
      /\ \A k \in Keepalives : q > 2 * k
      /\ q - 1 \in Limits
  <2>1. q \in Nat /\ q <= TimeWidth BY <1>3, <1>4
  <2>2. q \in 0..(2 * TimeWidth) BY <1>2, <2>1
  <2> QED BY <1>4, <1>5, <2>2
<1>7. \E p \in 0..(2 * TimeWidth) :
        /\ p > ConnectTimeout /\ p > SubscribeTimeout
        /\ \A k \in Keepalives : p > 2 * k
        /\ p - 1 \in Limits
  BY <1>6
<1>8. /\ QuietMax \in 0..(2 * TimeWidth) /\ QuietMax > ConnectTimeout
      /\ QuietMax > SubscribeTimeout /\ \A k \in Keepalives : QuietMax > 2 * k
  <2> HIDE DEF Longer
  <2> QED BY <1>7, Zenon DEF QuietMax
<1> QED BY <1>2, <1>8

(* A number below twice the width wraps once at most.                       *)
LEMMA Wrapped ==
    ASSUME NEW W \in Nat \ {0}, NEW x \in 0..(2 * W - 1)
    PROVE  x % W = IF x < W THEN x ELSE x - W
<1>1. CASE x < W BY <1>1
<1>2. CASE x >= W BY <1>2
<1> QED BY <1>1, <1>2

(* Seconds elapsed between two readings of the clock.                       *)
LEMMA ElapsedIs ==
    ASSUME clock \in 0..(TimeWidth - 1), NEW t \in 0..(TimeWidth - 1)
    PROVE  /\ Elapsed(t) \in 0..(TimeWidth - 1)
           /\ Elapsed(t) = IF clock >= t THEN clock - t ELSE clock - t + TimeWidth
<1> TimeWidth \in Nat \ {0} BY RemoteAssumption
<1> DEFINE x == clock - t + TimeWidth
<1>1. x \in 0..(2 * TimeWidth - 1) OBVIOUS
<1>2. x % TimeWidth = IF x < TimeWidth THEN x ELSE x - TimeWidth
  <2> HIDE DEF x
  <2> QED BY <1>1, Wrapped
<1>3. Elapsed(t) = IF x < TimeWidth THEN x ELSE x - TimeWidth
  BY <1>2 DEF Elapsed
<1> QED BY <1>3

(* A second later one more has elapsed, or the measure starts over.         *)
LEMMA ElapsedTicks ==
    ASSUME clock \in 0..(TimeWidth - 1), clock' = (clock + 1) % TimeWidth,
           NEW t \in 0..(TimeWidth - 1)
    PROVE  /\ clock' \in 0..(TimeWidth - 1)
           /\ Elapsed(t)' <= Elapsed(t) + 1
           /\ Elapsed(t) + 1 < TimeWidth => Elapsed(t)' = Elapsed(t) + 1
<1> TimeWidth \in Nat \ {0} BY RemoteAssumption
<1> DEFINE y == clock + 1
<1>1. y \in 0..(2 * TimeWidth - 1) OBVIOUS
<1>2. y % TimeWidth = IF y < TimeWidth THEN y ELSE y - TimeWidth
  <2> HIDE DEF y
  <2> QED BY <1>1, Wrapped
<1>3. clock' \in 0..(TimeWidth - 1) BY <1>2
<1>4. /\ Elapsed(t) \in 0..(TimeWidth - 1)
      /\ Elapsed(t) = IF clock >= t THEN clock - t ELSE clock - t + TimeWidth
  BY ElapsedIs
<1> DEFINE x == clock' - t + TimeWidth
<1>5. x \in 0..(2 * TimeWidth - 1) BY <1>3
<1>6. x % TimeWidth = IF x < TimeWidth THEN x ELSE x - TimeWidth
  <2> HIDE DEF x
  <2> QED BY <1>5, Wrapped
<1>7. Elapsed(t)' = IF x < TimeWidth THEN x ELSE x - TimeWidth
  BY <1>6 DEF Elapsed
<1> QED BY <1>2, <1>3, <1>4, <1>7

-----------------------------------------------------------------------------
(* Types, and the buffer that the register has.                             *)

IInv == TypeOK /\ PortBuffer /\ RegisterInv

(* What is on the wire.                                                     *)
LEMMA PacketShape ==
    ASSUME NEW p \in Packets
    PROVE  p.type = "publish" => p.id \in 1..MaxPublishes
  BY DEF Packets, Packet, StrayAck, PublishOf

(* The first packet of a wire that has one, and the others.                 *)
LEMMA WireHead ==
    ASSUME TypeOK, wire # <<>>
    PROVE  /\ Head(wire) \in Packets /\ Head(wire) = wire[1]
           /\ Tail(wire) \in Seq(Packets) /\ Len(Tail(wire)) = Len(wire) - 1
           /\ Len(wire) \in 1..MaxWire
           /\ \A i \in 1..Len(wire) - 1 : Tail(wire)[i] = wire[i + 1]
<1>1. wire \in Seq(Packets) /\ Len(wire) <= MaxWire BY DEF TypeOK
<1>2. MaxWire \in Nat BY RemoteAssumption
<1> QED BY <1>1, <1>2

(* A buffer filled is the port's.                                           *)
LEMMA FillTypes ==
    ASSUME IInv, NEW p \in Packets, p.type = "publish", NEW w \in BOOLEAN, Fill(p, w)
    PROVE  /\ publish' \in [id : 1..MaxPublishes, whole : BOOLEAN] /\ publish' # NULL
           /\ publish'.id = p.id
           /\ held' = 1 /\ held' \in 0..MaxInflight /\ others \in 0..(MaxInflight - held')
<1> USE DEF IInv
<1>1. p.id \in 1..MaxPublishes BY PacketShape
<1>2. /\ MaxInflight \in Nat /\ NULL \notin [id : 1..MaxPublishes, whole : BOOLEAN]
  BY RemoteAssumption
<1>3. /\ held = IF publish = NULL THEN 0 ELSE 1
      /\ held \in 0..MaxInflight /\ others \in 0..(MaxInflight - held)
      /\ publish \in {NULL} \cup [id : 1..MaxPublishes, whole : BOOLEAN]
  BY DEF TypeOK, PortBuffer
<1>4. CASE publish = NULL
  <2>1. publish' = [id |-> p.id, whole |-> w] /\ held' = held + 1 /\ others + held < MaxInflight
    BY <1>4 DEF Fill, BufferAtHand
  <2> QED BY <1>1, <1>2, <1>3, <1>4, <2>1
<1>5. CASE publish # NULL
  <2> DEFINE all == w /\ publish.id = p.id
  <2>1. publish' = [id |-> p.id, whole |-> all] /\ held' = held
    BY <1>5, Zenon DEF Fill
  <2>2. all \in BOOLEAN BY Zenon
  <2> HIDE DEF all
  <2> QED BY <1>1, <1>2, <1>3, <1>5, <2>1, <2>2
<1> QED BY <1>4, <1>5

ReadTypes ==
    /\ taken' \in {"none", "some", "all"}
    /\ waiting' \in BOOLEAN /\ topic' \in BOOLEAN
    /\ publish' \in {NULL} \cup [id : 1..MaxPublishes, whole : BOOLEAN]
    /\ held' \in 0..MaxInflight /\ others \in 0..(MaxInflight - held')
    /\ held' = IF publish' = NULL THEN 0 ELSE 1
    /\ wire' \in Seq(Packets) /\ Len(wire') <= MaxWire
    /\ wire' = <<>> => taken' = "none"

(* A call of the reader that comes back inside a packet.                    *)
LEMMA PartTypes ==
    ASSUME IInv, ReadPart
    PROVE  /\ ReadTypes
           /\ publish' # NULL /\ state = "ready" /\ ~waiting =>
                /\ taken' = "some" /\ HasPayload(Head(wire)) /\ publish'.id = Head(wire).id
           /\ publish' # NULL /\ publish = NULL => state = "ready"
<1> USE DEF IInv
<1>t. /\ wire # <<>> /\ wire' = wire /\ waiting' = waiting /\ TypeOK
      /\ Head(wire) \in Packets
  BY WireHead DEF ReadPart
<1> DEFINE p == Head(wire)
<1>1. CASE HasPayload(p) /\ Fill(p, FALSE) /\ taken' = "some" /\ topic' = (p.kind # "unknown")
  BY <1>t, <1>1, FillTypes DEF ReadTypes, TypeOK, HasPayload
<1>2. CASE publish = NULL /\ topic' = FALSE /\ taken' = "some" /\ UNCHANGED <<publish, held>>
  BY <1>t, <1>2 DEF ReadTypes, TypeOK, PortBuffer
<1>3. CASE /\ HasPayload(p) /\ ~BufferAtHand
           /\ taken' = "all" /\ topic' = (p.kind # "unknown")
           /\ UNCHANGED <<publish, held>>
  BY <1>t, <1>3 DEF ReadTypes, TypeOK, PortBuffer, BufferAtHand
<1> QED BY <1>1, <1>2, <1>3 DEF ReadPart

(* A call that reads a packet to its end.                                   *)
LEMMA WholeTypes ==
    ASSUME IInv, ReadWhole
    PROVE  /\ ReadTypes
           /\ publish' # NULL /\ state = "ready" => waiting'
           /\ publish' # NULL /\ publish = NULL => state = "ready"
<1> USE DEF IInv
<1>w. wire # <<>> /\ wire' = Tail(wire) /\ taken' = "none" /\ TypeOK
  BY DEF ReadWhole
<1>t. Head(wire) \in Packets /\ wire' \in Seq(Packets) /\ Len(wire') <= MaxWire
  BY <1>w, WireHead, RemoteAssumption
<1> DEFINE p == Head(wire)
<1>1. CASE HasPayload(p)
  <2>1. Fill(p, TRUE) /\ waiting' = TRUE /\ topic' \in BOOLEAN /\ state = "ready"
    BY <1>1 DEF ReadWhole, HasPayload
  <2> QED BY <1>w, <1>t, <1>1, <2>1, FillTypes DEF ReadTypes, TypeOK, HasPayload
<1>2. CASE ~HasPayload(p)
  <2>1. UNCHANGED <<publish, held>> /\ topic' = FALSE
    BY <1>2 DEF ReadWhole
  <2>2. waiting' = (waiting \/ p.type = "publish")
    BY Zenon DEF ReadWhole
  <2>3. waiting' \in BOOLEAN /\ (waiting => waiting')
    BY <2>2, Zenon
  <2>4. publish # NULL /\ state = "ready" => waiting
    BY <1>2 DEF RegisterInv
  <2> QED BY <1>w, <1>t, <2>1, <2>3, <2>4 DEF ReadTypes, TypeOK, PortBuffer
<1> QED BY <1>1, <1>2

(* Whatever the reader comes back with, the port has a buffer exactly if    *)
(* there is a publish in it.                                                *)
LEMMA ReadKeeps ==
    ASSUME IInv, ReadWhole \/ ReadFails \/ NothingRead,
           state \in {"connecting", "subscribing", "ready"},
           state' \in {state, "error"} \/ state # "ready"
    PROVE  ReadTypes /\ PortBuffer' /\ RegisterInv'
<1> USE DEF IInv
<1>0. CASE UNCHANGED <<readVars, wire>>
  BY <1>0 DEF ReadTypes, TypeOK, PortBuffer, RegisterInv, readVars, HasPayload
<1>1. CASE ReadPart
  <2>1. wire' = wire /\ waiting' = waiting BY <1>1 DEF ReadPart
  <2>2. wire # <<>> BY <1>1 DEF ReadPart
  <2> QED BY <1>1, <2>1, <2>2, PartTypes DEF ReadTypes, PortBuffer, RegisterInv, HasPayload
<1>2. CASE ReadWhole
  BY <1>2, WholeTypes DEF ReadTypes, PortBuffer, RegisterInv
<1> QED BY <1>0, <1>1, <1>2 DEF ReadFails, NothingRead

PortTypes ==
    /\ state \in {"notconnected", "connecting", "subscribing", "ready", "error"}
    /\ asked \in BOOLEAN /\ since \in 0..(TimeWidth - 1)
    /\ step \in {"read", "write", "keepalive"}
    /\ lastsent \in 0..(TimeWidth - 1) /\ lastrecv \in 0..(TimeWidth - 1)
    /\ ping \in {"idle", "queued", "partial"}

(* A new state starts from nothing.                                         *)
LEMMA MoveTypes ==
    ASSUME NEW new \in {"connecting", "subscribing", "ready", "error"}, MoveTo(new)
    PROVE  PortTypes'
<1>1. 0 \in 0..(TimeWidth - 1) BY RemoteAssumption
<1> QED BY <1>1 DEF MoveTo, PortTypes

(* The steps of the port that read.                                         *)
LEMMA ReadingStep ==
    ASSUME IInv, AwaitConnack \/ AwaitSuback \/ ReadyRead
    PROVE  IInv'
<1> USE DEF IInv
<1>p. PortTypes /\ clock \in 0..(TimeWidth - 1) /\ TypeOK BY DEF TypeOK, PortTypes
<1>s. /\ state \in {"connecting", "subscribing", "ready"} /\ conn # "none"
      /\ ReadWhole \/ ReadFails \/ NothingRead
  BY DEF AwaitConnack, AwaitSuback, ReadyRead, Ready, AwaitOr, TypeOK
<1>q. 0 \in 0..QuietMax BY QuietMaxAbove
<1>1. CASE AwaitConnack
  <2>1. \/ MoveTo("subscribing") \/ MoveTo("error") \/ UNCHANGED <<state, dataVars>>
    BY <1>1 DEF AwaitConnack, AwaitOr
  <2>2. PortTypes'
    BY <1>p, <2>1, MoveTypes DEF PortTypes, dataVars
  <2>3. ReadTypes /\ PortBuffer' /\ RegisterInv'
    <3>1. state = "connecting" BY <1>1 DEF AwaitConnack
    <3> QED BY <1>s, <3>1, ReadKeeps
  <2>4. TypeOK'
    BY <1>1, <1>s, <2>2, <2>3, <1>q DEF AwaitConnack, Polling, TypeOK, PortTypes, ReadTypes
  <2> QED BY <2>3, <2>4
<1>2. CASE AwaitSuback
  <2>1. PortTypes'
    <3>1. \/ MoveTo("error") \/ UNCHANGED <<state, dataVars>>
          \/ /\ state' = "ready" /\ asked' = FALSE /\ since' = 0 /\ step' = "read"
             /\ ping' = "idle" /\ lastsent' = clock /\ lastrecv' = clock
      BY <1>2 DEF AwaitSuback, AwaitOr
    <3>2. 0 \in 0..(TimeWidth - 1) BY RemoteAssumption
    <3> QED BY <1>p, <3>1, <3>2, MoveTypes DEF PortTypes, dataVars
  <2>2. ReadTypes /\ PortBuffer' /\ RegisterInv'
    <3>1. state = "subscribing" BY <1>2 DEF AwaitSuback
    <3> QED BY <1>s, <3>1, ReadKeeps
  <2>3. quiet' \in 0..QuietMax
    BY <1>2, <1>q DEF AwaitSuback, TypeOK
  <2>4. TypeOK'
    BY <1>2, <1>s, <2>1, <2>2, <2>3 DEF AwaitSuback, Polling, TypeOK, PortTypes, ReadTypes
  <2> QED BY <2>2, <2>4
<1>3. CASE ReadyRead
  <2>1. PortTypes' /\ state' \in {"ready", "error"} /\ state = "ready"
    BY <1>3, <1>p, MoveTypes DEF ReadyRead, Ready, AwaitOr, PortTypes, MoveTo
  <2>2. ReadTypes /\ PortBuffer' /\ RegisterInv'
    BY <1>s, <2>1, ReadKeeps
  <2>3. quiet' \in 0..QuietMax
    BY <1>3, <1>q DEF ReadyRead, TypeOK
  <2>4. TypeOK'
    BY <1>3, <1>s, <2>1, <2>2, <2>3 DEF ReadyRead, Ready, Polling, TypeOK, PortTypes, ReadTypes
  <2> QED BY <2>2, <2>4
<1> QED BY <1>1, <1>2, <1>3

(* What the port's hold on its buffer depends on.                           *)
registerVars == <<state, taken, waiting, publish, topic, held, wire>>

(* What leaves the register and the buffer alone keeps what is said of them. *)
LEMMA RegisterKept ==
    ASSUME PortBuffer, RegisterInv, UNCHANGED registerVars
    PROVE  PortBuffer' /\ RegisterInv'
BY DEF registerVars, PortBuffer, RegisterInv, HasPayload

(* The steps of the environment.                                            *)
LEMMA EnvironmentStep ==
    ASSUME IInv, Tick \/ OthersTake \/ OthersFree \/ RemoteSends \/ RemoteCloses
    PROVE  IInv'
<1> USE DEF IInv, remoteVars, timeVars, readVars, dataVars
<1>t. TypeOK /\ QuietMax \in Nat BY QuietMaxAbove
<1>1. CASE Tick
  <2>1. clock' \in 0..(TimeWidth - 1)
    <3>1. 0 \in 0..(TimeWidth - 1) BY RemoteAssumption
    <3> QED BY <1>1, <1>t, <3>1, ElapsedTicks DEF Tick, TypeOK
  <2>2. quiet' \in 0..QuietMax BY <1>1, <1>t DEF Tick, TypeOK
  <2>3. polled' \in BOOLEAN /\ UNCHANGED <<config, dataVars, others, remoteVars, delivered, pc>>
        /\ UNCHANGED registerVars
    BY <1>1 DEF Tick, registerVars
  <2>4. TypeOK' BY <1>t, <2>1, <2>2, <2>3 DEF TypeOK, registerVars
  <2> QED BY <2>3, <2>4, RegisterKept
<1>2. CASE OthersTake \/ OthersFree
  <2>1. others' \in 0..(MaxInflight - held)
    <3>1. held \in 0..MaxInflight /\ others \in 0..(MaxInflight - held) /\ MaxInflight \in Nat
      BY <1>t, RemoteAssumption DEF TypeOK
    <3>2. \/ others' = others + 1 /\ others + held < MaxInflight
          \/ others' = others - 1 /\ others > 0
      BY <1>2 DEF OthersTake, OthersFree
    <3> QED BY <3>1, <3>2
  <2>2. UNCHANGED <<config, dataVars, remoteVars, delivered, timeVars, pc>> /\ UNCHANGED registerVars
    BY <1>2 DEF OthersTake, OthersFree, registerVars
  <2>3. TypeOK' BY <1>t, <2>1, <2>2 DEF TypeOK, registerVars
  <2> QED BY <2>2, <2>3, RegisterKept
<1>3. CASE RemoteSends
  <2>1. /\ UNCHANGED <<config, state, dataVars, readVars, others, conn, delivered, timeVars, pc>>
        /\ Len(wire) < MaxWire
    BY <1>3 DEF RemoteSends
  <2>2. /\ \E p \in Packets : wire' = Append(wire, p)
        /\ told' \subseteq {"connect", "connack", "subscribe", "suback", "ping"}
        /\ sent' \in 0..MaxPublishes /\ early' \in BOOLEAN
    <3>1. /\ told \subseteq {"connect", "connack", "subscribe", "suback", "ping"}
          /\ sent \in 0..MaxPublishes /\ early \in BOOLEAN
      BY <1>t DEF TypeOK
    <3>2. ASSUME NEW t \in {"connack", "suback", "pingresp"}, wire' = Append(wire, Packet(t))
          PROVE  \E p \in Packets : wire' = Append(wire, p)
      BY <3>2 DEF Packets
    <3>3. ASSUME NEW k \in Kinds, sent < MaxPublishes, wire' = Append(wire, PublishOf(sent + 1, k))
          PROVE  /\ \E p \in Packets : wire' = Append(wire, p)
                 /\ sent + 1 \in 0..MaxPublishes
      <4>1. sent + 1 \in 1..MaxPublishes BY <3>1, <3>3, RemoteAssumption
      <4> QED BY <3>3, <4>1 DEF Packets
    <3>4. CASE \E t \in {"connack", "suback"} :
                  wire' = Append(wire, Packet(t)) /\ told' = told \cup {t} /\ UNCHANGED <<sent, early>>
      BY <3>1, <3>2, <3>4
    <3>5. CASE wire' = Append(wire, Packet("pingresp")) /\ told' = told \ {"ping"}
               /\ UNCHANGED <<sent, early>>
      BY <3>1, <3>2, <3>5
    <3>6. CASE /\ sent < MaxPublishes /\ \E k \in Kinds : wire' = Append(wire, PublishOf(sent + 1, k))
               /\ sent' = sent + 1 /\ early' = (early \/ "suback" \notin told) /\ UNCHANGED told
      <4>1. early' \in BOOLEAN BY <3>6, Zenon
      <4> QED BY <3>1, <3>3, <3>6, <4>1
    <3>7. CASE wire' = Append(wire, StrayAck) /\ UNCHANGED <<told, sent, early>>
      BY <3>1, <3>7 DEF Packets
    <3> HIDE DEF Packet, PublishOf
    <3> QED BY <1>3, <3>4, <3>5, <3>6, <3>7 DEF RemoteSends
  <2>3. PICK p \in Packets : wire' = Append(wire, p) BY <2>2
  <2>4. /\ wire' \in Seq(Packets) /\ Len(wire') <= MaxWire /\ wire' # <<>>
        /\ wire # <<>> => Head(wire') = Head(wire)
    <3>1. wire \in Seq(Packets) /\ Len(wire) <= MaxWire /\ MaxWire \in Nat
      BY <1>t, RemoteAssumption DEF TypeOK
    <3>2. Append(wire, p) \in Seq(Packets) /\ Len(Append(wire, p)) = Len(wire) + 1
          /\ wire # <<>> => Append(wire, p)[1] = wire[1]
      BY <3>1
    <3> QED BY <2>1, <2>3, <3>1, <3>2
  <2>5. TypeOK' BY <1>t, <2>1, <2>2, <2>4 DEF TypeOK
  <2> QED BY <2>1, <2>4, <2>5 DEF PortBuffer, RegisterInv, HasPayload
<1>4. CASE RemoteCloses
  BY <1>4 DEF RemoteCloses, TypeOK, PortBuffer, RegisterInv, HasPayload
<1> QED BY <1>1, <1>2, <1>3, <1>4

(* The port's other steps.                                                  *)
LEMMA PortStep ==
    ASSUME IInv, \/ NotConnected \/ SendConnect \/ SkipSubscribe \/ SendSubscribe
                 \/ ReadyHandOn \/ ReadyWrite \/ ReadyKeepalive \/ Error
    PROVE  IInv'
<1> USE DEF IInv, remoteVars, readVars, dataVars
<1>p. /\ PortTypes /\ clock \in 0..(TimeWidth - 1) /\ TypeOK /\ 0 \in 0..QuietMax
      /\ PortBuffer /\ RegisterInv
  BY QuietMaxAbove DEF TypeOK, PortTypes
<1>0. ASSUME PortTypes', UNCHANGED <<config, readVars, others, wire, sent, early, delivered, clock>>,
             polled' \in BOOLEAN, pc' = pc, conn' \in {"none", "open", "eof"}, quiet' \in 0..QuietMax,
             told' \subseteq {"connect", "connack", "subscribe", "suback", "ping"},
             state' \in {"connecting", "subscribing", "ready"} => conn' # "none",
             state' = state \/ state' = "error" \/ publish = NULL
      PROVE  IInv'
  BY <1>0, <1>p DEF PortTypes, TypeOK, PortBuffer, RegisterInv, HasPayload
<1>1. CASE NotConnected
  <2>1. PortTypes' /\ publish = NULL
    BY <1>1, <1>p, MoveTypes DEF NotConnected, PortBuffer, PortTypes
  <2> QED BY <1>0, <1>1, <1>p, <2>1 DEF NotConnected, Polling, MoveTo, TypeOK
<1>2. CASE SendConnect \/ SendSubscribe
  <2>1. PortTypes' BY <1>2, <1>p DEF SendConnect, SendSubscribe, Ask, PortTypes
  <2> QED BY <1>0, <1>2, <1>p, <2>1 DEF SendConnect, SendSubscribe, Ask, Polling, TypeOK
<1>3. CASE SkipSubscribe
  <2>1. PortTypes' /\ publish = NULL
    BY <1>3, <1>p, MoveTypes DEF SkipSubscribe, PortBuffer
  <2> QED BY <1>0, <1>3, <1>p, <2>1 DEF SkipSubscribe, Polling, TypeOK
<1>4. CASE ReadyHandOn
  <2>1. CASE pc' = "dead" /\ UNCHANGED <<waiting, publish, held, step, delivered>>
    BY <1>4, <1>p, <2>1 DEF ReadyHandOn, Ready, Polling, TypeOK, PortBuffer, RegisterInv, HasPayload
  <2>2. CASE pc' = "hang" /\ UNCHANGED <<waiting, publish, held, step, delivered>>
    BY <1>4, <1>p, <2>2 DEF ReadyHandOn, Ready, Polling, TypeOK, PortBuffer, RegisterInv, HasPayload
  <2>3. CASE publish # NULL /\ delivered' = Append(delivered, publish) /\ HandOver
             /\ step' = "keepalive" /\ UNCHANGED pc
    <3>1. held = 1 /\ held' = 0 /\ waiting' = FALSE /\ publish' = NULL
      BY <1>p, <2>3 DEF PortBuffer, HandOver
    <3>2. others \in 0..(MaxInflight - 0) /\ 0 \in 0..MaxInflight
      <4>1. held \in 0..MaxInflight /\ others \in 0..(MaxInflight - held) BY <1>p DEF TypeOK
      <4> QED BY <3>1, <4>1, RemoteAssumption
    <3>3. delivered' \in Seq([id : 1..MaxPublishes, whole : BOOLEAN])
      BY <1>p, <2>3 DEF TypeOK
    <3>4. /\ UNCHANGED <<config, others, clock, state, asked, since, lastsent, lastrecv, ping, taken,
                        topic, remoteVars, quiet, pc>>
          /\ polled' = TRUE /\ step' = "keepalive"
      BY <1>4, <2>3 DEF ReadyHandOn, Ready, Polling
    <3>o. TypeOK BY <1>p
    <3>5. TypeOK'
      <4>1. /\ publish' \in {NULL} \cup [id : 1..MaxPublishes, whole : BOOLEAN]
            /\ held' \in 0..MaxInflight /\ others' \in 0..(MaxInflight - held')
        BY <3>1, <3>2, <3>4
      <4>2. /\ waiting' \in BOOLEAN /\ step' \in {"read", "write", "keepalive"}
            /\ polled' \in BOOLEAN
        BY <3>1, <3>4
      <4> HIDE DEF IInv
      <4> QED BY <3>o, <3>3, <3>4, <4>1, <4>2 DEF TypeOK
    <3> QED BY <3>1, <3>5 DEF PortBuffer, RegisterInv
  <2> QED BY <1>4, <2>1, <2>2, <2>3 DEF ReadyHandOn
<1>5. CASE ReadyWrite
  <2>1. PortTypes' BY <1>5, <1>p, MoveTypes DEF ReadyWrite, PortTypes
  <2>2. state' \in {state, "error"} BY <1>5 DEF ReadyWrite, MoveTo
  <2>3. told' \subseteq {"connect", "connack", "subscribe", "suback", "ping"}
    BY <1>5, <1>p DEF ReadyWrite, TypeOK
  <2> QED BY <1>0, <1>5, <1>p, <2>1, <2>2, <2>3 DEF ReadyWrite, Ready, Polling, TypeOK
<1>6. CASE ReadyKeepalive
  <2>1. PortTypes' BY <1>6, <1>p DEF ReadyKeepalive, PortTypes
  <2> QED BY <1>0, <1>6, <1>p, <2>1 DEF ReadyKeepalive, Ready, Polling, TypeOK
<1>7. CASE Error
  BY <1>0, <1>7, <1>p DEF Error, Polling, TypeOK, PortTypes
<1> QED BY <1>1, <1>2, <1>3, <1>4, <1>5, <1>6, <1>7

(* It holds at the start, every step keeps it, and so it always holds.      *)
LEMMA IInvInit == Init => IInv
<1> SUFFICES ASSUME Init PROVE IInv OBVIOUS
<1>1. 0 \in 0..(TimeWidth - 1) /\ 0 \in 0..QuietMax /\ QuietMax \in Nat
  BY RemoteAssumption, QuietMaxAbove
<1>2. clock \in 0..(TimeWidth - 1) BY RemoteAssumption DEF Init
<1>3. 0 \in 0..MaxInflight /\ 0 \in 0..(MaxInflight - 0) /\ 0 \in 0..MaxPublishes /\ 0 <= MaxWire
  BY RemoteAssumption
<1>4. <<>> \in Seq(Packets) /\ Len(<<>>) = 0 /\ <<>> \in Seq([id : 1..MaxPublishes, whole : BOOLEAN])
  OBVIOUS
<1>5. TypeOK BY <1>1, <1>2, <1>3, <1>4 DEF Init, TypeOK
<1> QED BY <1>5 DEF Init, IInv, PortBuffer, RegisterInv

(* Every step keeps the inductive invariant.                                *)
LEMMA IInvStep == IInv /\ [Next]_vars => IInv'
<1> SUFFICES ASSUME IInv, [Next]_vars PROVE IInv' OBVIOUS
<1>1. CASE Next
  BY <1>1, EnvironmentStep, ReadingStep, PortStep DEF Next, Poll
<1>2. CASE UNCHANGED vars
  BY <1>2 DEF vars, remoteVars, timeVars, readVars, dataVars, IInv, TypeOK, PortBuffer,
     RegisterInv, HasPayload
<1> QED BY <1>1, <1>2

(* It holds in every reachable state.                                       *)
LEMMA Invariance == Spec => []IInv
  BY IInvInit, IInvStep, PTL DEF Spec

(* Every variable has its type in every reachable state: the port never     *)
(* holds more of the pool than there is, and it is never half-way without a *)
(* connection.                                                              *)
THEOREM TypeCorrect == Spec => []TypeOK
<1>1. IInv => TypeOK BY DEF IInv
<1> QED BY <1>1, Invariance, PTL

(* The port holds one buffer exactly while there is a publish in its        *)
(* register, and only until that has been handed on (port_remote.c:53-97,   *)
(* 300-330).                                                                *)
THEOREM BufferGivenBack == Spec => []PortBuffer
<1>1. IInv => PortBuffer BY DEF IInv
<1> QED BY <1>1, Invariance, PTL

-----------------------------------------------------------------------------
(* The silence of the remote.                                               *)

(* No time has passed since now.                                            *)
LEMMA ElapsedNow ==
    ASSUME clock \in 0..(TimeWidth - 1)
    PROVE  Elapsed(clock) = 0
BY ElapsedIs

(* Where the port measures from, nothing but a tick can spoil the measure,  *)
(* and a tick does not.                                                     *)
LEMMA SilenceTick ==
    ASSUME TypeOK, NEW t \in 0..(TimeWidth - 1), SilenceSince(t),
           \/ clock' = clock /\ quiet' = quiet
           \/ Tick
    PROVE  SilenceSince(t)'
<1>1. /\ quiet \in 0..QuietMax /\ QuietMax \in Nat /\ clock \in 0..(TimeWidth - 1)
      /\ Elapsed(t) \in 0..(TimeWidth - 1)
  BY QuietMaxAbove, ElapsedIs DEF TypeOK
<1>2. CASE clock' = clock /\ quiet' = quiet
  BY <1>2 DEF SilenceSince, Elapsed
<1>3. CASE Tick
  <2>1. /\ clock' = (clock + 1) % TimeWidth
        /\ quiet' = IF quiet < QuietMax THEN quiet + 1 ELSE quiet
    BY <1>3 DEF Tick
  <2>2. Elapsed(t)' <= Elapsed(t) + 1 /\ clock' \in 0..(TimeWidth - 1)
    BY <1>1, <2>1, ElapsedTicks
  <2>3. Elapsed(t)' \in Int
    BY <2>2, RemoteAssumption DEF Elapsed
  <2>4. quiet' >= QuietMax \/ quiet' >= Elapsed(t)'
    <3> HIDE DEF Elapsed
    <3> QED BY <1>1, <2>1, <2>2, <2>3 DEF SilenceSince
  <2>5. SilenceSince(t)' <=> quiet' >= QuietMax \/ quiet' >= Elapsed(t)'
    BY DEF SilenceSince
  <2> QED BY <2>4, <2>5
<1> QED BY <1>2, <1>3

(* The types that the arithmetic of time needs.                             *)
LEMMA TimeTypes ==
    ASSUME TypeOK
    PROVE  /\ clock \in 0..(TimeWidth - 1) /\ quiet \in 0..QuietMax /\ QuietMax \in Nat
           /\ since \in 0..(TimeWidth - 1) /\ lastrecv \in 0..(TimeWidth - 1)
           /\ step \in {"read", "write", "keepalive"} /\ polled \in BOOLEAN
           /\ config.keepalive \in Keepalives /\ config.keepalive \in Nat
           /\ 2 * config.keepalive + 3 < TimeWidth
           /\ Elapsed(lastrecv) \in 0..(TimeWidth - 1) /\ Elapsed(lastrecv) \in Int
           /\ quiet \in Int
<1>1. /\ clock \in 0..(TimeWidth - 1) /\ quiet \in 0..QuietMax
      /\ since \in 0..(TimeWidth - 1) /\ lastrecv \in 0..(TimeWidth - 1)
      /\ step \in {"read", "write", "keepalive"} /\ polled \in BOOLEAN
      /\ config.keepalive \in Keepalives
  BY DEF TypeOK
<1>2. Elapsed(lastrecv) \in 0..(TimeWidth - 1) BY <1>1, ElapsedIs
<1>3. config.keepalive \in Nat /\ 2 * config.keepalive + 3 < TimeWidth /\ TimeWidth \in Nat
  BY <1>1, RemoteAssumption
<1>4. QuietMax \in Nat BY QuietMaxAbove
<1> QED BY <1>1, <1>2, <1>3, <1>4

(* SilenceInv is inductive on top of the types.                             *)
LEMMA SilenceStep == IInv /\ SilenceInv /\ [Next]_vars => SilenceInv'
<1> SUFFICES ASSUME IInv, SilenceInv, [Next]_vars PROVE SilenceInv'
  OBVIOUS
<1>t. /\ TypeOK /\ clock \in 0..(TimeWidth - 1) /\ quiet \in 0..QuietMax
      /\ since \in 0..(TimeWidth - 1) /\ lastrecv \in 0..(TimeWidth - 1)
      /\ step \in {"read", "write", "keepalive"} /\ polled \in BOOLEAN
      /\ config.keepalive \in Keepalives /\ config.keepalive \in Nat
      /\ QuietMax \in Nat /\ 2 * config.keepalive + 3 < TimeWidth
      /\ Elapsed(lastrecv) \in 0..(TimeWidth - 1)
  BY TimeTypes DEF IInv
<1> DEFINE Heard == quiet <= Elapsed(lastrecv)
                    /\ Elapsed(lastrecv) <= 2 * config.keepalive + Late
           Kept == UNCHANGED <<config, state, asked, since, lastrecv, step, clock, polled, quiet, pc>>
<1>k. CASE Kept
  BY <1>k DEF SilenceInv, SilenceSince, Elapsed, Late
<1>r. CASE state' \notin {"connecting", "subscribing", "ready"}
  BY <1>r DEF SilenceInv
<1>a. CASE state' \in {"connecting", "subscribing"} /\ asked' = FALSE
  BY <1>a DEF SilenceInv
<1>1. CASE Tick
  <2>1. UNCHANGED <<config, state, asked, since, lastrecv, step, pc>> /\ polled /\ ~polled'
    BY <1>1 DEF Tick, dataVars
  <2>s. ASSUME NEW t \in 0..(TimeWidth - 1), SilenceSince(t)
        PROVE  quiet' >= QuietMax \/ quiet' >= (clock' - t + TimeWidth) % TimeWidth
    BY <1>1, <1>t, <2>s, SilenceTick DEF SilenceSince, Elapsed
  <2>2. state \in {"connecting", "subscribing"} /\ asked => SilenceSince(since)'
    BY <1>t, <2>1, <2>s DEF SilenceInv, SilenceSince, Elapsed
  <2>3. state = "ready" /\ config.numtopics > 0 => SilenceSince(lastrecv)'
    BY <1>t, <2>1, <2>s DEF SilenceInv, SilenceSince, Elapsed
  <2>4. ASSUME state = "ready", config.numtopics > 0, config.keepalive > 0, pc = "run"
        PROVE  Heard'
    <3>1. quiet <= Elapsed(lastrecv) /\ Elapsed(lastrecv) <= 2 * config.keepalive + Late
      BY <2>4 DEF SilenceInv
    <3>2. Late \in 0..2 /\ Late' = Late + 1
      BY <1>t, <2>1 DEF Late
    <3>3. clock' = (clock + 1) % TimeWidth /\ quiet' <= quiet + 1
      BY <1>1, <1>t DEF Tick
    <3>4. Elapsed(lastrecv) + 1 < TimeWidth
      <4> HIDE DEF Late
      <4> QED BY <1>t, <3>1, <3>2, RemoteAssumption
    <3>5. Elapsed(lastrecv)' = Elapsed(lastrecv) + 1
      <4>1. ASSUME NEW t \in 0..(TimeWidth - 1), Elapsed(t) + 1 < TimeWidth
            PROVE  (clock' - t + TimeWidth) % TimeWidth = Elapsed(t) + 1
        BY <1>t, <3>3, <4>1, ElapsedTicks DEF Elapsed
      <4> QED BY <1>t, <2>1, <3>4, <4>1 DEF Elapsed
    <3>6. quiet' \in Int
      BY <1>1, <1>t DEF Tick
    <3> QED BY <1>t, <2>1, <3>1, <3>2, <3>3, <3>5, <3>6
  <2> HIDE DEF Heard
  <2> QED BY <2>1, <2>2, <2>3, <2>4 DEF SilenceInv, Heard
<1>2. CASE OthersTake \/ OthersFree \/ RemoteSends \/ RemoteCloses
  BY <1>k, <1>2 DEF OthersTake, OthersFree, RemoteSends, RemoteCloses, dataVars, timeVars
<1> DEFINE Polled == UNCHANGED <<config, clock>> /\ polled' = TRUE /\ pc = "run"
<1>3. CASE NotConnected \/ Error
  BY <1>a, <1>r, <1>3 DEF NotConnected, MoveTo, Error
<1>4. CASE SendConnect \/ SendSubscribe
  <2>1. state' \in {"connecting", "subscribing"} /\ since' = clock /\ quiet' = 0 /\ clock' = clock
    BY <1>4 DEF SendConnect, SendSubscribe, Ask, Polling
  <2> QED BY <1>t, <2>1, ElapsedNow DEF SilenceInv, SilenceSince, Elapsed
<1>5. CASE AwaitConnack
  <2>1. \/ state' = "subscribing" /\ asked' = FALSE
        \/ state' = "error"
        \/ UNCHANGED <<state, asked, since>> /\ state = "connecting" /\ clock' = clock /\ quiet' = quiet
    BY <1>5 DEF AwaitConnack, AwaitOr, MoveTo, dataVars, Polling
  <2> QED BY <1>a, <1>r, <2>1 DEF SilenceInv, SilenceSince, Elapsed
<1>6. CASE SkipSubscribe
  BY <1>6 DEF SkipSubscribe, MoveTo, SilenceInv, Polling
<1>7. CASE AwaitSuback
  <2>1. \/ state' = "ready" /\ lastrecv' = clock /\ clock' = clock /\ quiet' = 0
        \/ state' = "error"
        \/ UNCHANGED <<state, asked, since>> /\ state = "subscribing" /\ clock' = clock /\ quiet' = quiet
    BY <1>7 DEF AwaitSuback, AwaitOr, MoveTo, dataVars, Polling
  <2>2. ASSUME state' = "ready", lastrecv' = clock, clock' = clock, quiet' = 0,
               config' = config, step' = "read", polled'
        PROVE  SilenceInv'
    BY <1>t, <2>2, ElapsedNow DEF SilenceInv, SilenceSince, Elapsed, Late
  <2>3. config' = config /\ polled' /\ (state' = "ready" => step' = "read")
    BY <1>7 DEF AwaitSuback, AwaitOr, MoveTo, Polling
  <2> QED BY <1>r, <2>1, <2>2, <2>3 DEF SilenceInv, SilenceSince, Elapsed
<1>8. CASE ReadyRead
  <2>0. state = "ready" /\ config' = config /\ clock' = clock /\ pc = "run" /\ polled'
    BY <1>8 DEF ReadyRead, Ready, Polling
  <2>1. \/ state' = "ready" /\ step' = "write" /\ lastrecv' = clock /\ quiet' = 0
        \/ state' = "error"
        \/ /\ state' = "ready" /\ step' = "write" /\ lastrecv' = lastrecv /\ quiet' = quiet
           /\ config.keepalive > 0 => ~TimedOut(lastrecv, 2 * config.keepalive)
    BY <1>8 DEF ReadyRead, Ready, AwaitOr, MoveTo
  <2>2. CASE state' = "ready" /\ step' = "write" /\ lastrecv' = clock /\ quiet' = 0
    BY <1>t, <2>0, <2>2, ElapsedNow DEF SilenceInv, SilenceSince, Elapsed, Late
  <2>3. CASE /\ state' = "ready" /\ step' = "write" /\ lastrecv' = lastrecv /\ quiet' = quiet
             /\ config.keepalive > 0 => ~TimedOut(lastrecv, 2 * config.keepalive)
    <3>1. Elapsed(lastrecv)' = Elapsed(lastrecv) /\ Late' = 0
      BY <2>0, <2>3 DEF Elapsed, Late
    <3>2. config.keepalive > 0 => Elapsed(lastrecv) <= 2 * config.keepalive
      BY <1>t, <2>3 DEF TimedOut
    <3> HIDE DEF Late
    <3>3. SilenceSince(lastrecv) => SilenceSince(lastrecv)'
      BY <2>3, <3>1 DEF SilenceSince
    <3> QED BY <1>t, <2>0, <2>3, <3>1, <3>2, <3>3 DEF SilenceInv
  <2> QED BY <1>r, <2>1, <2>2, <2>3
<1>9. CASE ReadyHandOn \/ ReadyWrite \/ ReadyKeepalive
  <2>0. /\ state = "ready" /\ config' = config /\ clock' = clock /\ quiet' = quiet
        /\ pc = "run" /\ polled'
    BY <1>9 DEF ReadyHandOn, ReadyWrite, ReadyKeepalive, Ready, Polling
  <2>1. \/ state' = "error"
        \/ /\ state' = "ready" /\ lastrecv' = lastrecv
           /\ \/ pc' # "run"
              \/ step = "write" /\ step' = "keepalive"
              \/ step = "keepalive" /\ step' = "read"
    BY <1>9 DEF ReadyHandOn, ReadyWrite, ReadyKeepalive, Ready, MoveTo
  <2>2. CASE /\ state' = "ready" /\ lastrecv' = lastrecv
             /\ \/ pc' # "run"
                \/ step = "write" /\ step' = "keepalive"
                \/ step = "keepalive" /\ step' = "read"
    <3>1. Elapsed(lastrecv)' = Elapsed(lastrecv)
      BY <2>0, <2>2 DEF Elapsed
    <3>2. pc' = "run" => Late' \in 0..2 /\ Late \in 0..3 /\ Late <= Late'
      BY <1>t, <2>0, <2>2 DEF Late
    <3> HIDE DEF Late
    <3>3. SilenceSince(lastrecv) => SilenceSince(lastrecv)'
      BY <2>0, <2>2, <3>1 DEF SilenceSince
    <3> QED BY <1>t, <2>0, <2>2, <3>1, <3>2, <3>3 DEF SilenceInv
  <2> QED BY <1>r, <2>1, <2>2
<1>10. CASE UNCHANGED vars
  BY <1>k, <1>10 DEF vars, dataVars, timeVars
<1> QED BY <1>1, <1>2, <1>3, <1>4, <1>5, <1>6, <1>7, <1>8, <1>9, <1>10 DEF Next, Poll

(* SilenceInv holds in every reachable state.                               *)
LEMMA SilenceInvariance == Spec => [](IInv /\ SilenceInv)
<1>1. Init => SilenceInv BY DEF Init, SilenceInv
<1> QED BY <1>1, IInvInit, IInvStep, SilenceStep, PTL DEF Spec

(* The port never gives up on a remote that has spoken within the limit: a  *)
(* move to ERROR from a working connection means that the remote was silent *)
(* for longer than the limit, for every start of the clock and wherever it  *)
(* wraps (port_remote.c:139-150, 220-298).                                  *)
THEOREM GivesUpJustly == Spec => ErrorJustified
<1> DEFINE Justified == \/ state = "notconnected" \/ conn = "eof"
                        \/ quiet > Limit
                        \/ state = "ready" /\ config.numtopics = 0
<1>1. ASSUME IInv, SilenceInv, Next, state # "error", state' = "error"
      PROVE  Justified
  <2>t. /\ clock \in 0..(TimeWidth - 1) /\ quiet \in 0..QuietMax /\ QuietMax \in Nat
        /\ since \in 0..(TimeWidth - 1) /\ lastrecv \in 0..(TimeWidth - 1)
        /\ config.keepalive \in Keepalives /\ config.keepalive \in Nat
    BY <1>1, TimeTypes DEF IInv
  <2>l. QuietMax > Limit /\ Limit \in Nat
    BY <2>t, RemoteAssumption, QuietMaxAbove DEF Limit
  <2>1. ASSUME NEW t \in 0..(TimeWidth - 1), SilenceSince(t), TimedOut(t, Limit)
        PROVE  quiet > Limit
    <3>1. Elapsed(t) \in Int BY <2>t, ElapsedIs
    <3> HIDE DEF Limit
    <3> QED BY <2>t, <2>l, <2>1, <3>1 DEF SilenceSince, TimedOut
  <2>2. CASE NotConnected
    BY <2>2 DEF NotConnected
  <2>3. CASE AwaitConnack \/ AwaitSuback
    <3>1. /\ state \in {"connecting", "subscribing"} /\ asked
          /\ ReadFails \/ TimedOut(since, Limit)
      BY <1>1, <2>3 DEF AwaitConnack, AwaitSuback, AwaitOr, MoveTo, Limit
    <3> QED BY <1>1, <2>t, <2>1, <3>1 DEF SilenceInv, ReadFails
  <2>4. CASE ReadyRead
    <3>1. /\ state = "ready"
          /\ \/ ReadFails
             \/ TimedOut(IF config.keepalive > 0 THEN lastrecv ELSE clock, Limit)
      BY <1>1, <2>4 DEF ReadyRead, Ready, AwaitOr, MoveTo, Limit
    <3>2. CASE config.keepalive = 0
      <4>1. ~TimedOut(clock, Limit)
        BY <2>t, <2>l, ElapsedNow DEF TimedOut
      <4> QED BY <3>1, <3>2, <4>1 DEF ReadFails
    <3>3. CASE config.keepalive > 0
      <4>1. CASE config.numtopics > 0
        BY <1>1, <2>t, <2>1, <3>1, <3>3, <4>1 DEF SilenceInv, ReadFails
      <4>2. CASE config.numtopics = 0
        BY <3>1, <4>2
      <4>3. config.numtopics \in Nat
        BY <1>1, RemoteAssumption DEF IInv, TypeOK
      <4> QED BY <4>1, <4>2, <4>3
    <3> QED BY <2>t, <3>2, <3>3
  <2>5. CASE ReadyWrite
    BY <1>1, <2>5 DEF ReadyWrite, Ready
  <2>6. CASE \/ Tick \/ OthersTake \/ OthersFree \/ RemoteSends \/ RemoteCloses
             \/ SendConnect \/ SendSubscribe \/ SkipSubscribe \/ ReadyHandOn
             \/ ReadyKeepalive \/ Error
    BY <1>1, <2>6 DEF Tick, OthersTake, OthersFree, RemoteSends, RemoteCloses, SendConnect,
       SendSubscribe, Ask, SkipSubscribe, MoveTo, ReadyHandOn, ReadyKeepalive, Error
  <2> QED BY <1>1, <2>2, <2>3, <2>4, <2>5, <2>6 DEF Next, Poll
<1>2. ASSUME IInv, SilenceInv, [Next]_vars
      PROVE  [state # "error" /\ state' = "error" => Justified]_vars
  BY <1>1, <1>2
<1> QED BY <1>2, SilenceInvariance, PTL DEF Spec, ErrorJustified

(* A port in READY with a keepalive, past its read, has heard of the remote *)
(* within twice the keepalive, though read, write and keepalive take turns  *)
(* and the clock ticks between them (port_remote.c:300-372).                *)
THEOREM SilenceIsBounded == Spec => SilenceBounded
<1> DEFINE PastRead == /\ state = "ready" /\ step = "read" /\ state' = "ready" /\ step' = "write"
                       /\ config.keepalive > 0 /\ config.numtopics > 0
<1>1. ASSUME IInv, SilenceInv, Next, PastRead
      PROVE  quiet' <= 2 * config.keepalive
  <2>t. /\ clock \in 0..(TimeWidth - 1) /\ quiet \in Int
        /\ lastrecv \in 0..(TimeWidth - 1) /\ config.keepalive \in Nat
        /\ Elapsed(lastrecv) \in Int
    BY <1>1, TimeTypes DEF IInv
  <2>1. ReadyRead
    BY <1>1 DEF Next, Poll, Tick, OthersTake, OthersFree, RemoteSends, RemoteCloses, dataVars,
       NotConnected, SendConnect, SendSubscribe, AwaitConnack, SkipSubscribe, AwaitSuback,
       ReadyHandOn, ReadyWrite, ReadyKeepalive, Error, Ready
  <2>2. CASE quiet' = 0
    BY <2>t, <2>2
  <2>3. CASE quiet' = quiet /\ ~TimedOut(lastrecv, 2 * config.keepalive) /\ pc = "run"
    <3>1. quiet <= Elapsed(lastrecv)
      BY <1>1, <2>3 DEF SilenceInv
    <3> QED BY <2>t, <2>3, <3>1 DEF TimedOut
  <2> QED BY <1>1, <2>1, <2>2, <2>3 DEF ReadyRead, Ready, Polling, AwaitOr, MoveTo
<1>2. ASSUME IInv, SilenceInv, [Next]_vars
      PROVE  [PastRead => quiet' <= 2 * config.keepalive]_vars
  BY <1>1, <1>2
<1> QED BY <1>2, SilenceInvariance, PTL DEF Spec, SilenceBounded

-----------------------------------------------------------------------------
(* The order of the publishes.                                              *)

(* On wire w, of s publishes sent, are those that come after the r-th.      *)
WireFrom(w, r, s) ==
    /\ r <= s
    /\ \A i \in DOMAIN w : w[i].type = "publish" => w[i].id \in r + 1..s
    /\ \A i, j \in DOMAIN w : w[i].type = "publish" /\ w[j].type = "publish" /\ i < j
                                => w[i].id < w[j].id
    /\ \A n \in r + 1..s : \E i \in DOMAIN w : w[i].type = "publish" /\ w[i].id = n

(* Reading the first packet of a wire: a publish is the next one.           *)
LEMMA WireTail ==
    ASSUME NEW w \in Seq(Packets), w # <<>>, NEW r \in Nat, NEW s \in Nat, WireFrom(w, r, s)
    PROVE  IF w[1].type = "publish" THEN w[1].id = r + 1 /\ WireFrom(Tail(w), r + 1, s)
                                    ELSE WireFrom(Tail(w), r, s)
<1>1. /\ Len(w) \in Nat \ {0} /\ DOMAIN w = 1..Len(w) /\ DOMAIN Tail(w) = 1..(Len(w) - 1)
      /\ \A i \in 1..(Len(w) - 1) : Tail(w)[i] = w[i + 1]
  OBVIOUS
<1>2. \A i \in DOMAIN w : w[i].type = "publish" => w[i].id \in Int
  BY <1>1, PacketShape
<1>3. w[1].type = "publish" => w[1].id = r + 1
  <2>1. SUFFICES ASSUME w[1].type = "publish" PROVE w[1].id = r + 1 OBVIOUS
  <2>2. w[1].id \in r + 1..s BY <1>1, <2>1 DEF WireFrom
  <2>3. PICK i \in DOMAIN w : w[i].type = "publish" /\ w[i].id = r + 1
    BY <2>2 DEF WireFrom
  <2>4. i = 1 \/ w[1].id < w[i].id
    BY <1>1, <2>1, <2>3 DEF WireFrom
  <2> QED BY <2>2, <2>3, <2>4
<1> DEFINE q == IF w[1].type = "publish" THEN r + 1 ELSE r
<1>4. q <= s /\ q \in Nat
  BY <1>1, <1>3 DEF WireFrom
<1>5. ASSUME NEW i \in DOMAIN Tail(w), Tail(w)[i].type = "publish"
      PROVE  Tail(w)[i].id \in q + 1..s
  <2>1. w[i + 1].type = "publish" /\ i + 1 \in DOMAIN w /\ 1 < i + 1 BY <1>1, <1>5
  <2>2. w[i + 1].id \in r + 1..s BY <2>1 DEF WireFrom
  <2>3. w[1].type = "publish" => w[1].id < w[i + 1].id
    <3>1. 1 \in DOMAIN w BY <1>1
    <3>2. \A a, b \in DOMAIN w : w[a].type = "publish" /\ w[b].type = "publish" /\ a < b
                                => w[a].id < w[b].id
      BY DEF WireFrom
    <3> QED BY <2>1, <3>1, <3>2, Zenon
  <2> QED BY <1>1, <1>3, <2>2, <2>3
<1>6. ASSUME NEW i \in DOMAIN Tail(w), NEW j \in DOMAIN Tail(w), i < j,
             Tail(w)[i].type = "publish", Tail(w)[j].type = "publish"
      PROVE  Tail(w)[i].id < Tail(w)[j].id
  <2>1. i + 1 \in DOMAIN w /\ j + 1 \in DOMAIN w /\ i + 1 < j + 1 BY <1>1, <1>6
  <2> QED BY <1>1, <1>6, <2>1 DEF WireFrom
<1>7. ASSUME NEW n \in q + 1..s
      PROVE  \E i \in DOMAIN Tail(w) : Tail(w)[i].type = "publish" /\ Tail(w)[i].id = n
  <2>1. n \in r + 1..s BY <1>4, <1>7
  <2>2. PICK i \in DOMAIN w : w[i].type = "publish" /\ w[i].id = n BY <2>1 DEF WireFrom
  <2>3. i # 1 BY <1>3, <1>4, <1>7, <2>2
  <2>4. i - 1 \in DOMAIN Tail(w) /\ Tail(w)[i - 1] = w[i] BY <1>1, <2>3
  <2> QED BY <2>2, <2>4
<1> HIDE DEF q
<1>8. WireFrom(Tail(w), q, s)
  BY <1>4, <1>5, <1>6, <1>7 DEF WireFrom
<1> QED BY <1>3, <1>8 DEF q

(* Sending one packet more.                                                 *)
LEMMA WireAppend ==
    ASSUME NEW w \in Seq(Packets), NEW p \in Packets, NEW r \in Nat, NEW s \in Nat,
           WireFrom(w, r, s)
    PROVE  /\ p.type # "publish" => WireFrom(Append(w, p), r, s)
           /\ p.type = "publish" /\ p.id = s + 1 => WireFrom(Append(w, p), r, s + 1)
<1> DEFINE v == Append(w, p)
           t == IF p.type = "publish" THEN s + 1 ELSE s
<1>1. /\ Len(w) \in Nat /\ DOMAIN w = 1..Len(w) /\ DOMAIN v = 1..(Len(w) + 1)
      /\ \A i \in 1..Len(w) : v[i] = w[i]
      /\ v[Len(w) + 1] = p
  OBVIOUS
<1>2. \A i \in DOMAIN w : w[i].type = "publish" => w[i].id \in r + 1..s
  BY DEF WireFrom
<1>3. SUFFICES ASSUME p.type = "publish" => p.id = s + 1
               PROVE  WireFrom(v, r, t)
  OBVIOUS
<1>4. r <= s /\ r <= t /\ t \in Nat BY DEF WireFrom
<1>5. ASSUME NEW i \in DOMAIN v, v[i].type = "publish" PROVE v[i].id \in r + 1..t
  <2>1. CASE i \in DOMAIN w BY <1>1, <1>2, <1>5, <2>1
  <2>2. CASE i = Len(w) + 1
    <3>1. p.type = "publish" /\ v[i].id = s + 1 BY <1>1, <1>3, <1>5, <2>2
    <3> QED BY <3>1, <1>4
  <2> QED BY <1>1, <2>1, <2>2
<1>6. ASSUME NEW i \in DOMAIN v, NEW j \in DOMAIN v, i < j, v[i].type = "publish", v[j].type = "publish"
      PROVE  v[i].id < v[j].id
  <2>1. i \in DOMAIN w BY <1>1, <1>6
  <2>2. CASE j \in DOMAIN w BY <1>1, <1>6, <2>1, <2>2 DEF WireFrom
  <2>3. CASE j = Len(w) + 1 BY <1>1, <1>2, <1>3, <1>6, <2>1, <2>3
  <2> QED BY <1>1, <2>2, <2>3
<1>7. ASSUME NEW n \in r + 1..t
      PROVE  \E i \in DOMAIN v : v[i].type = "publish" /\ v[i].id = n
  <2>1. CASE n <= s
    <3>1. PICK i \in DOMAIN w : w[i].type = "publish" /\ w[i].id = n BY <2>1, <1>7 DEF WireFrom
    <3> QED BY <1>1, <3>1
  <2>2. CASE ~(n <= s)
    <3>1. p.type = "publish" /\ n = s + 1 BY <1>7, <2>2
    <3> QED BY <1>1, <1>3, <3>1
  <2> QED BY <2>1, <2>2
<1> HIDE DEF v, t
<1> QED BY <1>4, <1>5, <1>6, <1>7 DEF WireFrom

(* What the order of the publishes depends on, while the port is not in the *)
(* middle of handing one on.                                                *)
LEMMA OrderKept ==
    ASSUME OrderInv, UNCHANGED <<told, sent, early, wire, delivered, waiting>>,
           state' = state \/ state' = "error",
           ~early => ~waiting \/ UNCHANGED <<state, step, publish>>
    PROVE  OrderInv'
BY DEF OrderInv, DeliveredInOrder, WaitingInv, HandshakeInv, WireInv, Received, IsPublish, IsAnswer

(* The numbers in it.                                                       *)
LEMMA OrderTypes ==
    ASSUME TypeOK
    PROVE  /\ Received \in Nat /\ sent \in Nat /\ Len(delivered) \in Nat
           /\ waiting \in BOOLEAN /\ early \in BOOLEAN /\ wire \in Seq(Packets)
           /\ WireInv <=> WireFrom(wire, Received, sent)
<1>1. /\ delivered \in Seq([id : 1..MaxPublishes, whole : BOOLEAN]) /\ waiting \in BOOLEAN
      /\ early \in BOOLEAN /\ sent \in 0..MaxPublishes /\ wire \in Seq(Packets)
  BY DEF TypeOK
<1>2. Len(delivered) \in Nat /\ Received \in Nat
  BY <1>1 DEF Received
<1>3. WireInv <=> WireFrom(wire, Received, sent)
  BY DEF WireInv, WireFrom, IsPublish
<1> QED BY <1>1, <1>2, <1>3, RemoteAssumption

(* The remote sends: what it sends is the last on the wire.                 *)
LEMMA SendsInOrder ==
    ASSUME IInv, OrderInv, RemoteSends
    PROVE  OrderInv'
<1>t. /\ TypeOK /\ Received \in Nat /\ sent \in Nat /\ wire \in Seq(Packets)
      /\ early \in BOOLEAN /\ Len(wire) \in Nat
      /\ state \in {"notconnected", "connecting", "subscribing", "ready", "error"}
  BY OrderTypes DEF IInv, TypeOK
<1>u. UNCHANGED <<state, step, delivered, waiting, publish>>
  BY DEF RemoteSends, dataVars, readVars
<1>1. PICK p \in Packets :
        /\ wire' = Append(wire, p)
        /\ \/ /\ "connect" \in told /\ "connack" \notin told
              /\ p.type = "connack" /\ told' = told \cup {"connack"} /\ UNCHANGED <<sent, early>>
           \/ /\ "subscribe" \in told /\ "suback" \notin told
              /\ IsAnswer(p) /\ told' = told \cup {"suback"} /\ UNCHANGED <<sent, early>>
           \/ /\ "subscribe" \in told /\ p = StrayAck /\ UNCHANGED <<told, sent, early>>
           \/ /\ "ping" \in told
              /\ p.type = "pingresp" /\ told' = told \ {"ping"} /\ UNCHANGED <<sent, early>>
           \/ /\ "subscribe" \in told /\ told' = told
              /\ p.type = "publish" /\ p.id = sent + 1 /\ sent' = sent + 1
              /\ early' = (early \/ "suback" \notin told)
  <2>1. ASSUME NEW t \in {"connack", "suback", "pingresp"}
        PROVE  /\ Packet(t) \in Packets /\ Packet(t).type = t
               /\ t = "suback" => IsAnswer(Packet(t))
    BY DEF Packets, Packet, IsAnswer, SubscribeId
  <2>2. ASSUME NEW k \in Kinds, sent < MaxPublishes
        PROVE  /\ PublishOf(sent + 1, k) \in Packets /\ PublishOf(sent + 1, k).type = "publish"
               /\ PublishOf(sent + 1, k).id = sent + 1
    <3>1. sent + 1 \in 1..MaxPublishes BY <1>t, <2>2, RemoteAssumption
    <3> QED BY <3>1, <2>2 DEF Packets, PublishOf
  <2>3. StrayAck \in Packets BY DEF Packets
  <2> HIDE DEF Packet, PublishOf, IsAnswer, StrayAck
  <2> QED BY <2>1, <2>2, <2>3 DEF RemoteSends
<1>p. StrayAck.type # "publish" /\ ~IsAnswer(StrayAck)
  BY DEF StrayAck, IsAnswer, SubscribeId
<1>2. sent' > 0 => "suback" \in told' \/ early'
  BY <1>t, <1>1 DEF OrderInv
<1>3. SUFFICES ASSUME ~early'
               PROVE  /\ DeliveredInOrder' /\ WaitingInv'
                      /\ state # "error" => HandshakeInv' /\ WireInv'
  BY <1>2, <1>u DEF OrderInv
<1>4. /\ ~early /\ DeliveredInOrder /\ WaitingInv
      /\ state # "error" => HandshakeInv /\ WireInv
      /\ p.type = "publish" => "suback" \in told
  BY <1>1, <1>3, <1>t, <1>p DEF OrderInv, IsAnswer
<1>5. DeliveredInOrder' /\ WaitingInv'
  BY <1>4, <1>u DEF DeliveredInOrder, WaitingInv, Received
<1>6. /\ Len(wire') = Len(wire) + 1 /\ wire' # <<>>
      /\ wire = <<>> => Head(wire') = p
      /\ wire # <<>> => Head(wire') = Head(wire)
  BY <1>t, <1>1
<1>7. ASSUME state # "error" PROVE HandshakeInv'
  <2>1. HandshakeInv BY <1>4, <1>7
  <2>2. CASE state = "notconnected"
    BY <1>1, <2>1, <2>2 DEF HandshakeInv
  <2>3. CASE state = "connecting"
    <3>1. /\ told \subseteq {"connect", "connack"} /\ delivered = <<>>
          /\ Len(wire) = IF "connack" \in told THEN 1 ELSE 0
      BY <2>1, <2>3 DEF HandshakeInv
    <3>2. "connack" \notin told /\ told' = told \cup {"connack"}
      BY <1>1, <3>1
    <3> QED BY <1>6, <1>u, <2>3, <3>1, <3>2 DEF HandshakeInv
  <2>4. CASE state = "subscribing"
    <3>1. /\ "connack" \in told /\ "ping" \notin told /\ delivered = <<>>
          /\ "suback" \in told <=> \E i \in DOMAIN wire : IsAnswer(wire[i])
          /\ \A i \in DOMAIN wire :
                wire[i].type = "publish" => \E j \in 1..(i - 1) : IsAnswer(wire[j])
      BY <2>1, <2>4 DEF HandshakeInv, IsPublish
    <3>2. /\ DOMAIN wire = 1..Len(wire) /\ DOMAIN wire' = 1..(Len(wire) + 1)
          /\ \A i \in 1..Len(wire) : wire'[i] = wire[i]
          /\ wire'[Len(wire) + 1] = p
      BY <1>t, <1>1
    <3>3. /\ told' = IF IsAnswer(p) THEN told \cup {"suback"} ELSE told
          /\ p.type = "publish" => \E j \in 1..Len(wire) : IsAnswer(wire[j])
      BY <1>1, <1>p, <1>4, <3>1, <3>2 DEF IsAnswer
    <3>4. "suback" \in told' <=> \E i \in DOMAIN wire' : IsAnswer(wire'[i])
      <4> HIDE DEF IsAnswer
      <4> QED BY <1>t, <3>1, <3>2, <3>3
    <3>5. ASSUME NEW i \in DOMAIN wire', wire'[i].type = "publish"
          PROVE  \E j \in 1..(i - 1) : IsAnswer(wire'[j])
      <4>1. CASE i \in 1..Len(wire)
        <5>1. PICK j \in 1..(i - 1) : IsAnswer(wire[j]) BY <3>1, <3>2, <3>5, <4>1
        <5>2. wire'[j] = wire[j] BY <1>t, <3>2, <4>1
        <5> QED BY <5>1, <5>2
      <4>2. CASE i = Len(wire) + 1
        <5>1. PICK j \in 1..Len(wire) : IsAnswer(wire[j]) BY <3>2, <3>3, <3>5, <4>2
        <5>2. wire'[j] = wire[j] /\ j \in 1..(i - 1) BY <1>t, <3>2, <4>2
        <5> QED BY <5>1, <5>2
      <4> QED BY <1>t, <3>2, <3>5, <4>1, <4>2
    <3>6. "connack" \in told' /\ "ping" \notin told' /\ delivered' = <<>>
      BY <1>u, <3>1, <3>3
    <3> QED BY <1>u, <2>4, <3>4, <3>5, <3>6 DEF HandshakeInv, IsAnswer, IsPublish
  <2>5. CASE state = "ready"
    BY <1>u, <2>5 DEF HandshakeInv
  <2> QED BY <1>t, <1>7, <2>2, <2>3, <2>4, <2>5
<1>8. ASSUME state # "error" PROVE WireInv'
  <2>1. WireFrom(wire, Received, sent) BY <1>4, <1>8, <1>t, OrderTypes
  <2>2. WireFrom(wire', Received, sent')
    BY <1>t, <1>1, <1>p, <2>1, WireAppend DEF IsAnswer
  <2>3. Received' = Received BY <1>u DEF Received
  <2>4. WireFrom(wire', Received', sent') BY <2>2, <2>3
  <2> QED BY <2>4 DEF WireInv, WireFrom, IsPublish
<1> QED BY <1>5, <1>7, <1>8

(* A packet read whole leaves the others in order; a publish is the next    *)
(* one, and is whole in the register.                                       *)
LEMMA WholeInOrder ==
    ASSUME IInv, WireInv, ReadWhole, ~waiting, UNCHANGED <<sent, delivered>>
    PROVE  /\ WireInv' /\ wire # <<>> /\ wire' = Tail(wire)
           /\ waiting' <=> Head(wire).type = "publish"
           /\ Head(wire).type = "publish" => sent > 0
           /\ state = "ready" /\ publish' # NULL => publish' = [id |-> Received', whole |-> TRUE]
<1>t. /\ TypeOK /\ Received \in Nat /\ sent \in Nat /\ wire \in Seq(Packets)
      /\ WireFrom(wire, Received, sent) /\ Received = Len(delivered) /\ Len(delivered) \in Nat
  BY OrderTypes DEF IInv, Received
<1>1. wire # <<>> /\ wire' = Tail(wire) /\ Head(wire) \in Packets /\ Head(wire) = wire[1]
  BY <1>t, WireHead DEF ReadWhole
<1> DEFINE p == Head(wire)
<1>2. waiting' <=> p.type = "publish"
  <2>1. waiting' = (waiting \/ p.type = "publish") BY Zenon DEF ReadWhole
  <2> QED BY <2>1, Zenon
<1>3. IF p.type = "publish" THEN p.id = Received + 1 /\ WireFrom(wire', Received + 1, sent)
                            ELSE WireFrom(wire', Received, sent)
  BY <1>t, <1>1, WireTail
<1>4. Received' = IF p.type = "publish" THEN Received + 1 ELSE Received
  BY <1>t, <1>2 DEF Received
<1>5. WireFrom(wire', Received', sent')
  BY <1>3, <1>4
<1>6. WireInv'
  BY <1>5 DEF WireInv, WireFrom, IsPublish
<1>7. p.type = "publish" => sent > 0
  <2>1. p.type = "publish" => Received + 1 <= sent BY <1>3 DEF WireFrom
  <2> QED BY <1>t, <2>1
<1>8. ASSUME state = "ready", publish' # NULL
      PROVE  publish' = [id |-> Received', whole |-> TRUE]
  <2>1. CASE HasPayload(p)
    <3>1. Fill(p, TRUE) /\ p.type = "publish" /\ p.id = Received'
      BY <1>3, <1>4, <2>1 DEF ReadWhole, HasPayload
    <3>2. CASE publish = NULL
      BY <3>1, <3>2 DEF Fill
    <3>3. CASE publish # NULL
      <4>1. publish.id = p.id BY <1>8, <3>3 DEF IInv, RegisterInv
      <4>2. publish' = [id |-> p.id, whole |-> TRUE /\ publish.id = p.id]
        BY <3>1, <3>3 DEF Fill
      <4> QED BY <3>1, <4>1, <4>2
    <3> QED BY <3>2, <3>3
  <2>2. CASE ~HasPayload(p)
    <3>1. publish' = publish BY <2>2 DEF ReadWhole
    <3> QED BY <1>8, <2>2, <3>1 DEF IInv, RegisterInv
  <2> QED BY <2>1, <2>2
<1> QED BY <1>1, <1>2, <1>6, <1>7, <1>8

(* The steps of the port that read.                                         *)
LEMMA ReadsInOrder ==
    ASSUME IInv, OrderInv, AwaitConnack \/ AwaitSuback \/ ReadyRead
    PROVE  OrderInv'
<1>u. UNCHANGED <<told, sent, early, delivered>>
  BY DEF AwaitConnack, AwaitSuback, ReadyRead
<1>s. sent' > 0 => "suback" \in told' \/ early'
  BY <1>u DEF OrderInv
<1>e. CASE early
  BY <1>e, <1>s, <1>u DEF OrderInv
<1>n. SUFFICES ASSUME ~early PROVE OrderInv'
  BY <1>e
<1>1. DeliveredInOrder /\ WaitingInv /\ (state # "error" => HandshakeInv /\ WireInv)
  BY <1>n DEF OrderInv
<1>t. /\ TypeOK /\ state \in {"connecting", "subscribing", "ready"}
      /\ HandshakeInv /\ WireInv /\ ~waiting
      /\ wire \in Seq(Packets) /\ Len(wire) \in Nat /\ sent \in Nat
  <2>1. TypeOK /\ wire \in Seq(Packets) /\ sent \in Nat BY OrderTypes DEF IInv
  <2>2. state \in {"connecting", "subscribing", "ready"} /\ (state = "ready" => step = "read")
    BY DEF AwaitConnack, AwaitSuback, ReadyRead, Ready
  <2> QED BY <1>1, <2>1, <2>2 DEF WaitingInv
<1>d. DeliveredInOrder'
  BY <1>1, <1>u DEF DeliveredInOrder
<1>2. CASE UNCHANGED <<wire, waiting>> /\ state' \in {state, "error"}
  BY <1>2, <1>u, <1>t, OrderKept
<1>3. CASE ReadWhole /\ AwaitConnack
  <2>1. state = "connecting" /\ MoveTo("subscribing")
    <3>1. ReadWhole => ~ReadFails /\ ~NothingRead
      <4>1. ReadWhole => wire' # wire
        <5>1. ReadWhole => wire # <<>> /\ wire' = Tail(wire) BY DEF ReadWhole
        <5>2. wire # <<>> => Len(Tail(wire)) # Len(wire) BY <1>t
        <5> QED BY <5>1, <5>2
      <4> QED BY <4>1 DEF ReadFails, NothingRead, ReadPart
    <3> QED BY <1>3, <3>1 DEF AwaitConnack, AwaitOr
  <2>2. /\ WireInv' /\ wire # <<>> /\ wire' = Tail(wire)
        /\ waiting' <=> Head(wire).type = "publish"
        /\ Head(wire).type = "publish" => sent > 0
    BY <1>3, <1>t, <1>u, WholeInOrder
  <2>3. /\ told \subseteq {"connect", "connack"} /\ delivered = <<>>
        /\ Len(wire) = IF "connack" \in told THEN 1 ELSE 0
    BY <1>t, <2>1 DEF HandshakeInv
  <2>4. ~(sent > 0) BY <1>n, <2>3 DEF OrderInv
  <2>5. "connack" \in told /\ wire' = <<>> /\ ~waiting'
    <3>1. Len(wire) # 0 BY <1>t, <2>2
    <3>2. Len(wire) = 1 /\ "connack" \in told BY <2>3, <3>1
    <3> QED BY <1>t, <2>2, <2>4, <3>2
  <2>6. HandshakeInv'
    <3>1. DOMAIN wire' = {} BY <2>5
    <3>2. "suback" \notin told /\ "ping" \notin told BY <2>3
    <3> QED BY <1>u, <2>1, <2>3, <2>5, <3>1, <3>2 DEF HandshakeInv, MoveTo
  <2>7. WaitingInv' BY <2>5 DEF WaitingInv
  <2> QED BY <1>s, <1>d, <2>2, <2>6, <2>7 DEF OrderInv
<1>4. CASE ReadWhole /\ AwaitSuback
  <2>1. /\ WireInv' /\ wire # <<>> /\ wire' = Tail(wire)
        /\ waiting' <=> Head(wire).type = "publish"
    BY <1>4, <1>t, <1>u, WholeInOrder
  <2>2. state = "subscribing" BY <1>4 DEF AwaitSuback
  <2>3. /\ "connack" \in told /\ "ping" \notin told /\ delivered = <<>>
        /\ "suback" \in told <=> \E i \in DOMAIN wire : IsAnswer(wire[i])
        /\ \A i \in DOMAIN wire :
              wire[i].type = "publish" => \E j \in 1..(i - 1) : IsAnswer(wire[j])
    BY <1>t, <2>2 DEF HandshakeInv, IsPublish
  <2>4. /\ Head(wire) = wire[1] /\ Len(wire) >= 1 /\ DOMAIN wire = 1..Len(wire)
        /\ DOMAIN wire' = 1..(Len(wire) - 1)
        /\ \A i \in 1..(Len(wire) - 1) : wire'[i] = wire[i + 1]
    BY <1>t, <2>1
  <2>5. ~waiting'
    <3>1. wire[1].type # "publish" BY <2>3, <2>4
    <3> QED BY <2>1, <2>4, <3>1
  <2>6. IF IsAnswer(Head(wire)) THEN state' = "ready" ELSE state' = state
    <3>1. ~ReadFails /\ ~NothingRead
      <4>1. wire' # wire
        <5>1. Len(Tail(wire)) # Len(wire) BY <1>t, <2>1
        <5> QED BY <2>1, <5>1
      <4> QED BY <4>1 DEF ReadFails, NothingRead, ReadPart
    <3> QED BY <1>4, <3>1 DEF AwaitSuback, AwaitOr
  <2>7. HandshakeInv'
    <3>1. CASE IsAnswer(Head(wire)) BY <2>6, <3>1 DEF HandshakeInv
    <3>2. CASE ~IsAnswer(Head(wire))
      <4>1. "suback" \in told <=> \E i \in DOMAIN wire' : IsAnswer(wire'[i])
        <5>1. ASSUME NEW i \in DOMAIN wire, IsAnswer(wire[i])
              PROVE  \E j \in DOMAIN wire' : IsAnswer(wire'[j])
          <6>1. i # 1 BY <2>4, <3>2, <5>1
          <6>2. i - 1 \in 1..(Len(wire) - 1) /\ wire'[i - 1] = wire[i]
            BY <1>t, <2>4, <6>1
          <6> QED BY <2>4, <5>1, <6>2
        <5>2. ASSUME NEW i \in DOMAIN wire', IsAnswer(wire'[i])
              PROVE  \E j \in DOMAIN wire : IsAnswer(wire[j])
          <6>1. i + 1 \in DOMAIN wire /\ wire'[i] = wire[i + 1] BY <1>t, <2>4
          <6> QED BY <5>2, <6>1
        <5> QED BY <2>3, <5>1, <5>2
      <4>2. ASSUME NEW i \in DOMAIN wire', wire'[i].type = "publish"
            PROVE  \E j \in 1..(i - 1) : IsAnswer(wire'[j])
        <5>1. i + 1 \in DOMAIN wire /\ wire'[i] = wire[i + 1] BY <1>t, <2>4
        <5>2. PICK j \in 1..i : IsAnswer(wire[j]) BY <2>3, <4>2, <5>1
        <5>3. j # 1 BY <2>4, <3>2, <5>2
        <5>4. j - 1 \in 1..(i - 1) /\ wire'[j - 1] = wire[j] BY <1>t, <2>4, <5>1, <5>3
        <5> QED BY <5>2, <5>4
      <4> QED BY <1>u, <2>2, <2>3, <2>6, <3>2, <4>1, <4>2 DEF HandshakeInv, IsAnswer, IsPublish
    <3> QED BY <3>1, <3>2
  <2>8. WaitingInv' BY <2>5 DEF WaitingInv
  <2> QED BY <1>s, <1>d, <2>1, <2>7, <2>8 DEF OrderInv
<1>5. CASE ReadWhole /\ ReadyRead
  <2>1. /\ WireInv' /\ wire # <<>> /\ wire' = Tail(wire) /\ state = "ready"
        /\ publish' # NULL => publish' = [id |-> Received', whole |-> TRUE]
    BY <1>5, <1>t, <1>u, WholeInOrder DEF ReadyRead, Ready
  <2>2. state' = "ready" /\ step' = "write"
    <3>1. ~ReadFails /\ ~NothingRead
      <4>1. wire' # wire
        <5>1. Len(Tail(wire)) # Len(wire) BY <1>t, <2>1
        <5> QED BY <2>1, <5>1
      <4> QED BY <4>1 DEF ReadFails, NothingRead, ReadPart
    <3> QED BY <1>5, <2>1, <3>1 DEF ReadyRead, AwaitOr
  <2>3. HandshakeInv' BY <2>2 DEF HandshakeInv
  <2>4. WaitingInv' BY <2>1, <2>2 DEF WaitingInv
  <2> QED BY <1>s, <1>d, <2>1, <2>3, <2>4 DEF OrderInv
<1>6. ASSUME ReadFails \/ NothingRead
      PROVE  UNCHANGED <<wire, waiting>>
  BY <1>6 DEF ReadFails, NothingRead, ReadPart, readVars
<1>7. CASE AwaitConnack
  BY <1>2, <1>3, <1>6, <1>7 DEF AwaitConnack, AwaitOr, MoveTo
<1>8. CASE AwaitSuback
  BY <1>2, <1>4, <1>6, <1>8 DEF AwaitSuback, AwaitOr, MoveTo
<1>9. CASE ReadyRead
  BY <1>2, <1>5, <1>6, <1>9 DEF ReadyRead, Ready, AwaitOr, MoveTo
<1> QED BY <1>7, <1>8, <1>9

(* The port's other steps.                                                  *)
LEMMA PortInOrder ==
    ASSUME IInv, OrderInv,
           \/ NotConnected \/ SendConnect \/ SkipSubscribe \/ SendSubscribe
           \/ ReadyHandOn \/ ReadyWrite \/ ReadyKeepalive \/ Error
    PROVE  OrderInv'
<1>u. UNCHANGED <<sent, early, wire>> /\ ("suback" \in told => "suback" \in told')
  BY DEF NotConnected, SendConnect, SkipSubscribe, SendSubscribe, Ask, ReadyHandOn, ReadyWrite,
     ReadyKeepalive, Error, remoteVars
<1>s. sent' > 0 => "suback" \in told' \/ early'
  BY <1>u DEF OrderInv
<1>e. CASE early
  BY <1>e, <1>s, <1>u DEF OrderInv
<1>n. SUFFICES ASSUME ~early PROVE OrderInv'
  BY <1>e
<1>1. DeliveredInOrder /\ WaitingInv /\ (state # "error" => HandshakeInv /\ WireInv)
  BY <1>n DEF OrderInv
<1>t. /\ TypeOK /\ Received \in Nat /\ Len(delivered) \in Nat
      /\ delivered \in Seq([id : 1..MaxPublishes, whole : BOOLEAN])
  BY OrderTypes DEF IInv, TypeOK
<1>2. CASE NotConnected \/ SendConnect \/ SkipSubscribe \/ SendSubscribe
  <2>1. /\ UNCHANGED <<delivered, waiting, publish>> /\ state # "error" /\ ~waiting
        /\ HandshakeInv /\ WireInv
    BY <1>1, <1>2 DEF NotConnected, SendConnect, SkipSubscribe, SendSubscribe, Ask, readVars, WaitingInv
  <2>2. DeliveredInOrder' /\ WaitingInv' /\ WireInv'
    BY <1>1, <1>u, <2>1 DEF DeliveredInOrder, WaitingInv, WireInv, Received, IsPublish
  <2>3. HandshakeInv'
    <3>1. CASE NotConnected
      BY <1>u, <2>1, <3>1 DEF NotConnected, MoveTo, HandshakeInv
    <3>2. CASE SendConnect
      BY <1>u, <2>1, <3>2 DEF SendConnect, Ask, HandshakeInv
    <3>3. CASE SkipSubscribe
      BY <3>3 DEF SkipSubscribe, MoveTo, HandshakeInv
    <3>4. CASE SendSubscribe
      BY <1>u, <2>1, <3>4 DEF SendSubscribe, Ask, HandshakeInv, IsPublish, IsAnswer
    <3> QED BY <1>2, <3>1, <3>2, <3>3, <3>4
  <2> QED BY <1>s, <2>2, <2>3 DEF OrderInv
<1>3. CASE ReadyHandOn
  <2>0. state = "ready" /\ state' = "ready" /\ told' = told
    BY <1>3 DEF ReadyHandOn, Ready, remoteVars
  <2>1. CASE UNCHANGED <<waiting, publish, step, delivered>>
    BY <1>u, <2>0, <2>1, OrderKept
  <2>2. CASE /\ publish # NULL /\ delivered' = Append(delivered, publish)
             /\ waiting' = FALSE /\ publish' = NULL
    <3>1. waiting /\ publish = [id |-> Len(delivered) + 1, whole |-> TRUE]
      BY <1>1, <1>3, <2>2 DEF ReadyHandOn, WaitingInv, Received
    <3>2. DeliveredInOrder'
      <4>1. Len(delivered') = Len(delivered) + 1 /\ delivered'[Len(delivered) + 1] = publish
            /\ \A i \in 1..Len(delivered) : delivered'[i] = delivered[i]
            /\ DOMAIN delivered' = 1..(Len(delivered) + 1) /\ DOMAIN delivered = 1..Len(delivered)
        BY <1>t, <2>2, <3>1
      <4>2. \A i \in 1..Len(delivered) : delivered[i] = [id |-> i, whole |-> TRUE]
        BY <1>1, <1>n, <4>1 DEF DeliveredInOrder
      <4>3. ASSUME NEW i \in 1..(Len(delivered) + 1)
            PROVE  delivered'[i] = [id |-> i, whole |-> TRUE]
        <5>1. CASE i = Len(delivered) + 1 BY <3>1, <4>1, <5>1
        <5>2. CASE i # Len(delivered) + 1
          <6>1. i \in 1..Len(delivered) BY <1>t, <5>2
          <6> QED BY <4>1, <4>2, <6>1
        <5> QED BY <5>1, <5>2
      <4> QED BY <4>1, <4>3 DEF DeliveredInOrder
    <3>3. Received' = Received
      <4>1. Len(delivered') = Len(delivered) + 1 BY <1>t, <2>2, <3>1
      <4> QED BY <1>t, <2>2, <3>1, <4>1 DEF Received
    <3>4. WireInv' BY <1>1, <1>u, <2>0, <3>3 DEF WireInv, IsPublish
    <3>5. HandshakeInv' /\ WaitingInv' BY <2>0, <2>2 DEF HandshakeInv, WaitingInv
    <3> QED BY <1>s, <3>2, <3>4, <3>5 DEF OrderInv
  <2> QED BY <1>3, <2>1, <2>2 DEF ReadyHandOn, HandOver
<1>4. CASE ReadyWrite
  <2>1. /\ UNCHANGED <<delivered, waiting>> /\ ~waiting /\ state = "ready"
        /\ state' \in {"ready", "error"}
    BY <1>4 DEF ReadyWrite, Ready, MoveTo, readVars
  <2>2. DeliveredInOrder' /\ WaitingInv' /\ WireInv' /\ HandshakeInv'
    BY <1>1, <1>u, <2>1 DEF DeliveredInOrder, WaitingInv, WireInv, Received, IsPublish, HandshakeInv
  <2> QED BY <1>s, <2>2 DEF OrderInv
<1>5. CASE ReadyKeepalive \/ Error
  <2>1. /\ UNCHANGED <<told, delivered, waiting, state>> /\ ~waiting
    BY <1>1, <1>5 DEF ReadyKeepalive, Error, Ready, readVars, remoteVars, WaitingInv
  <2> QED BY <1>u, <2>1, OrderKept
<1> QED BY <1>2, <1>3, <1>4, <1>5

(* Every step keeps OrderInv.                                               *)
LEMMA OrderStep == IInv /\ OrderInv /\ [Next]_vars => OrderInv'
<1> SUFFICES ASSUME IInv, OrderInv, [Next]_vars PROVE OrderInv' OBVIOUS
<1>1. CASE Tick \/ OthersTake \/ OthersFree \/ RemoteCloses \/ UNCHANGED vars
  <2>1. UNCHANGED <<told, sent, early, wire, delivered, waiting, state, step, publish>>
    BY <1>1 DEF Tick, OthersTake, OthersFree, RemoteCloses, vars, dataVars, readVars, remoteVars
  <2> QED BY <2>1, OrderKept
<1> QED BY <1>1, SendsInOrder, ReadsInOrder, PortInOrder DEF Next, Poll

(* The publishes of the remote reach the clients once each, in the order    *)
(* sent and each with its whole payload, as long as none came before the    *)
(* SUBACK (port_remote.c:53-97, 250-298, 300-330).                          *)
THEOREM PublishesInOrder == Spec => []DeliveredInOrder
<1>1. Init => OrderInv
  BY RemoteAssumption DEF Init, OrderInv, DeliveredInOrder, WaitingInv, HandshakeInv, WireInv,
     Received
<1>2. OrderInv => DeliveredInOrder BY DEF OrderInv, DeliveredInOrder
<1> QED BY <1>1, <1>2, IInvInit, IInvStep, OrderStep, PTL DEF Spec

-----------------------------------------------------------------------------
(* The answer to the SUBSCRIBE is on the wire only if the remote sent it.   *)
AnswerInv ==
    /\ (\E i \in DOMAIN wire : IsAnswer(wire[i])) => "suback" \in told
    /\ Subscribed

(* Every step keeps AnswerInv.                                              *)
LEMMA AnswerStep == IInv /\ AnswerInv /\ [Next]_vars => AnswerInv'
<1> SUFFICES ASSUME IInv, AnswerInv, [Next]_vars PROVE AnswerInv' OBVIOUS
<1>t. TypeOK /\ wire \in Seq(Packets) /\ Len(wire) \in Nat BY DEF IInv, TypeOK
<1>1. "suback" \in told => "suback" \in told'
  BY DEF Next, Poll, Tick, OthersTake, OthersFree, RemoteSends, RemoteCloses, NotConnected,
     SendConnect, SendSubscribe, Ask, AwaitConnack, SkipSubscribe, AwaitSuback, ReadyRead,
     ReadyHandOn, ReadyWrite, ReadyKeepalive, Error, remoteVars, vars
<1>2. \/ wire' = wire
      \/ wire # <<>> /\ wire' = Tail(wire)
      \/ \E p \in {Packet("connack"), Packet("pingresp"), StrayAck} : wire' = Append(wire, p)
      \/ wire' = Append(wire, Packet("suback")) /\ "suback" \in told'
      \/ \E k \in Kinds : wire' = Append(wire, PublishOf(sent + 1, k))
  BY DEF Next, Poll, Tick, OthersTake, OthersFree, RemoteSends, RemoteCloses, NotConnected,
     SendConnect, SendSubscribe, Ask, AwaitConnack, SkipSubscribe, AwaitSuback, ReadyRead,
     ReadyHandOn, ReadyWrite, ReadyKeepalive, Error, remoteVars, vars, readVars,
     AwaitOr, ReadWhole, ReadFails, NothingRead, ReadPart
<1>3. ASSUME NEW p, wire' = Append(wire, p), NEW i \in DOMAIN wire', IsAnswer(wire'[i])
      PROVE  IsAnswer(p) \/ \E j \in DOMAIN wire : IsAnswer(wire[j])
  <2>1. /\ DOMAIN wire' = 1..(Len(wire) + 1) /\ wire'[Len(wire) + 1] = p
        /\ \A j \in 1..Len(wire) : wire'[j] = wire[j]
        /\ DOMAIN wire = 1..Len(wire)
    BY <1>t, <1>3
  <2>2. i = Len(wire) + 1 \/ i \in 1..Len(wire) BY <1>t, <2>1
  <2> QED BY <1>3, <2>1, <2>2
<1>4. ASSUME wire # <<>>, wire' = Tail(wire), NEW i \in DOMAIN wire', IsAnswer(wire'[i])
      PROVE  \E j \in DOMAIN wire : IsAnswer(wire[j])
  <2>1. i + 1 \in DOMAIN wire /\ wire'[i] = wire[i + 1] BY <1>t, <1>4
  <2> QED BY <1>4, <2>1
<1>5. /\ \A p \in {Packet("connack"), Packet("pingresp"), StrayAck} : ~IsAnswer(p)
      /\ \A k \in Kinds : ~IsAnswer(PublishOf(sent + 1, k))
  BY DEF Packet, StrayAck, PublishOf, IsAnswer, SubscribeId
<1>6. ASSUME NEW i \in DOMAIN wire', IsAnswer(wire'[i]) PROVE "suback" \in told'
  <2> HIDE DEF IsAnswer, Packet, StrayAck, PublishOf
  <2>1. CASE wire' = wire BY <1>1, <1>6, <2>1 DEF AnswerInv
  <2>2. CASE wire # <<>> /\ wire' = Tail(wire) BY <1>1, <1>4, <1>6, <2>2 DEF AnswerInv
  <2>3. CASE \E p \in {Packet("connack"), Packet("pingresp"), StrayAck} : wire' = Append(wire, p)
    BY <1>1, <1>3, <1>5, <1>6, <2>3 DEF AnswerInv
  <2>4. CASE \E k \in Kinds : wire' = Append(wire, PublishOf(sent + 1, k))
    BY <1>1, <1>3, <1>5, <1>6, <2>4 DEF AnswerInv
  <2> QED BY <1>2, <2>1, <2>2, <2>3, <2>4
<1>7. Subscribed'
  <2>1. CASE AwaitSuback
    <3>1. state' = "ready" => wire # <<>> /\ IsAnswer(Head(wire))
      BY <2>1 DEF AwaitSuback, AwaitOr, MoveTo, ReadWhole, dataVars
    <3>2. wire # <<>> => 1 \in DOMAIN wire /\ Head(wire) = wire[1] BY <1>t
    <3> QED BY <1>1, <3>1, <3>2 DEF AnswerInv, Subscribed
  <2>2. CASE SkipSubscribe
    BY <1>t, <2>2, RemoteAssumption DEF SkipSubscribe, Polling, TypeOK, Subscribed
  <2>3. CASE ~AwaitSuback /\ ~SkipSubscribe
    <3>1. config' = config /\ (state' = "ready" => state = "ready")
      BY <2>3 DEF Next, Poll, Tick, OthersTake, OthersFree, RemoteSends, RemoteCloses,
         NotConnected, SendConnect, SendSubscribe, Ask, AwaitConnack, AwaitOr, ReadyRead, Ready,
         ReadyHandOn, ReadyWrite, ReadyKeepalive, Error, MoveTo, Polling, vars, dataVars
    <3> QED BY <1>1, <3>1 DEF AnswerInv, Subscribed
  <2> QED BY <2>1, <2>2, <2>3
<1> QED BY <1>6, <1>7 DEF AnswerInv

(* A port with topics is READY only if the remote has answered its own      *)
(* SUBSCRIBE: a SUBACK of another message, early or late, does not count    *)
(* (port_remote.c:264-272).                                                 *)
THEOREM OwnAnswerOnly == Spec => []Subscribed
<1>1. Init => AnswerInv
  BY DEF Init, AnswerInv, Subscribed
<1>2. AnswerInv => Subscribed BY DEF AnswerInv
<1> QED BY <1>1, <1>2, IInvInit, IInvStep, AnswerStep, PTL DEF Spec

=============================================================================
