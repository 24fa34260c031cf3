--------------------------- MODULE OutboundProofs ---------------------------
(***************************************************************************)
(* Proofs about Outbound, for any number of clients, any payloads and any   *)
(* answers of the sockets: a publish's buffer is given back as often as it  *)
(* is taken, and what is announced of it is there to be read.               *)
(***************************************************************************)
EXTENDS Outbound, TLAPS

IInv == TypeOK /\ PoolInv /\ CopyInv

(* A write changes what is known of one socket only.                        *)
LEMMA WriteTypes ==
    ASSUME NEW o \in Outlets, NEW bytes, NEW begun, Write(o, bytes, begun),
           full \in [Outlets -> BOOLEAN]
    PROVE  full' \in [Outlets -> BOOLEAN]
  BY DEF Write

(* The queued packet keeps its shape, whatever a write was answered.        *)
LEMMA AfterTypes ==
    ASSUME NEW p \in Packets, p.state \in DOMAIN NextState, NEW ret \in Int
    PROVE  After(p, ret) \in Packets
<1>1. CounterWidth \in Nat /\ CounterWidth > 0 BY OutboundAssumption
<1>2. \A c \in Nat : (c + 1) % CounterWidth \in 0..CounterWidth - 1 BY <1>1
<1>3. ASSUME NEW x \in Packets, NEW new \in PacketStates PROVE ChangeState(x, new) \in Packets
  <2>1. 0 \in 0..CounterWidth - 1 /\ "FINISHED" \in PacketStates BY <1>1 DEF PacketStates
  <2>2. \A s \in PacketStates : [x EXCEPT !.state = s, !.counter = 0] \in Packets
    BY <2>1 DEF Packets
  <2> QED BY <2>1, <2>2 DEF ChangeState
<1> DEFINE q == IF ret > 0
                THEN [p EXCEPT !.pos = p.pos + 1, !.counter = (p.counter + 1) % CounterWidth]
                ELSE p
<1>4. q \in Packets
  <2>1. p.pos + 1 \in Nat /\ (p.counter + 1) % CounterWidth \in 0..CounterWidth - 1
    <3>1. p.pos \in Nat /\ p.counter \in Nat BY <1>1 DEF Packets
    <3> QED BY <1>2, <3>1
  <2>2. \A n \in Nat, c \in 0..CounterWidth - 1 :
            [p EXCEPT !.pos = n, !.counter = c] \in Packets
    BY DEF Packets
  <2> QED BY <2>1, <2>2
<1>5. NextState[p.state] \in PacketStates /\ "ERROR" \in PacketStates
  BY DEF NextState, PacketStates
<1> DEFINE done == IF p.state = "MSGID" THEN ret > 0 /\ q.counter = 2 ELSE q.counter = 1
           r == IF done THEN ChangeState(q, NextState[p.state]) ELSE q
<1>6. r \in Packets
  <2> HIDE DEF q
  <2> QED BY <1>3, <1>4, <1>5
<1>7. After(p, ret) = IF ret <= EFATAL THEN ChangeState(r, "ERROR") ELSE r
  BY DEF After
<1> QED
  <2> HIDE DEF r
  <2> QED BY <1>3, <1>5, <1>6, <1>7

(* Steps that leave the publish at hand alone and stay outside it.          *)
LEMMA Outside ==
    ASSUME IInv, UNCHANGED copyVars, pc # "fanout", pc' # "fanout",
           pc' \in {"idle", "write", "handle"}, pc \in {"idle", "write", "handle"},
           pc' \in {"write", "handle"} => at' \in Outlets
    PROVE  PoolInv' /\ CopyInv' /\ job' \in Jobs /\ (Available \in Nat)'
                    /\ pool' \in [head : Nat, tail : Nat, refs : 0..2]
  BY DEF IInv, TypeOK, PoolInv, CopyInv, copyVars, Available

(* The steps of the poll, of the queued packet and of the handlers that     *)
(* publish nothing.                                                         *)
LEMMA QuietStep ==
    ASSUME IInv, \/ \E s \in Slots : Register(s)
                 \/ \E o \in Outlets : Poll(o)
                 \/ WriteTurn \/ WriteEnds \/ NothingRead \/ HandlePing \/ HandleUnsubscribe
                 \/ HandleSubscribe \/ HandleDisconnect \/ RemoteConnects \/ RemoteSubscribes
    PROVE  IInv'
<1> USE DEF IInv, portVars, pktVars, wireVars
<1> /\ TypeOK /\ NULL \notin Outlets /\ Remote \in Outlets /\ Slots \subseteq Outlets
    /\ IdlePacket \in Packets
  BY OutboundAssumption DEF Outlets, IdlePacket, Packets, PacketStates
<1>1. ASSUME NEW s \in Slots, Register(s) PROVE IInv'
  BY <1>1, Outside DEF Register, TypeOK
<1>2. ASSUME NEW o \in Outlets, Poll(o) PROVE IInv'
  BY <1>2, Outside DEF Poll, TypeOK
<1>3. CASE WriteTurn
  <2>1. at \in Outlets BY <1>3 DEF PoolInv, WriteTurn
  <2>2. \A ret \in {1} \cup Refusals : ret \in Int
    BY OutboundAssumption DEF EWOULDBLOCK, EFATAL, EREMOTEDISCONNECTED
  <2>3. pkt' \in [Outlets -> Packets]
    BY <1>3, <2>1, <2>2, AfterTypes DEF WriteTurn, TypeOK
  <2>4. full' \in [Outlets -> BOOLEAN] /\ pc' \in {"write", "handle"} /\ pc = "write"
    BY <1>3, <2>1 DEF WriteTurn, TypeOK
  <2>5. UNCHANGED <<connected, link, copyVars, over, at>>
    BY <1>3 DEF WriteTurn
  <2> QED BY <2>1, <2>3, <2>4, <2>5, Outside DEF TypeOK
<1>4. CASE WriteEnds
  <2>1. at \in Outlets BY <1>4 DEF PoolInv, WriteEnds
  <2> QED BY <1>4, <2>1, Outside DEF WriteEnds, TypeOK
<1>5. CASE NothingRead
  BY <1>5, Outside DEF NothingRead, TypeOK
<1>6. CASE HandlePing \/ HandleUnsubscribe
  <2>1. at \in Outlets BY <1>6 DEF PoolInv, HandlePing, HandleUnsubscribe, Handles
  <2>2. \A type, length \in Nat :
            Queue(at, type, length) => /\ pkt' \in [Outlets -> Packets]
                                       /\ over' \in [Outlets -> BOOLEAN]
    <3> TAKE type, length \in Nat
    <3>1. [pkt[at] EXCEPT !.state = "TYPE", !.type = type, !.length = length] \in Packets
      BY <2>1 DEF TypeOK, Packets, PacketStates
    <3>2. Queue(at, type, length) =>
            pkt' = [pkt EXCEPT ![at] =
                       [pkt[at] EXCEPT !.state = "TYPE", !.type = type, !.length = length]]
      BY DEF Queue
    <3>3. Queue(at, type, length) => over' \in [Outlets -> BOOLEAN]
      BY <2>1 DEF Queue, TypeOK
    <3> QED BY <2>1, <3>1, <3>2, <3>3 DEF TypeOK
  <2>3. Pingreq \in Nat /\ Pingresp \in Nat /\ Unsuback \in Nat
    BY DEF Pingreq, Pingresp, Unsuback
  <2> QED BY <1>6, <2>2, <2>3, Outside DEF HandlePing, HandleUnsubscribe, Handles, TypeOK
<1>7. CASE HandleSubscribe
  <2>1. full' \in [Outlets -> BOOLEAN]
    BY <1>7, WriteTypes DEF HandleSubscribe, TypeOK
  <2> QED BY <1>7, <2>1, Outside DEF HandleSubscribe, Handles, TypeOK
<1>8. CASE HandleDisconnect
  BY <1>8, Outside DEF HandleDisconnect, Handles, TypeOK
<1>9. CASE RemoteConnects \/ RemoteSubscribes
  <2>1. full' \in [Outlets -> BOOLEAN]
    BY <1>9, WriteTypes DEF RemoteConnects, RemoteSubscribes, TypeOK
  <2> QED BY <1>9, <2>1, Outside DEF RemoteConnects, RemoteSubscribes, TypeOK
<1> QED BY <1>1, <1>2, <1>3, <1>4, <1>5, <1>6, <1>7, <1>8, <1>9

(* A CONNECT that the sys port publishes: there is no buffer of the pool.   *)
LEMMA ConnectStep ==
    ASSUME IInv, HandleConnect
    PROVE  IInv'
<1> USE DEF IInv, pktVars, wireVars
<1> /\ TypeOK /\ NULL \notin Outlets /\ Slots \subseteq Outlets /\ at \in Slots
    /\ pool = EmptyBuffer /\ pc = "handle" /\ PayloadLens \subseteq Nat
  BY OutboundAssumption DEF Outlets, HandleConnect, Handles, PoolInv
<1>1. full' \in [Outlets -> BOOLEAN]
  BY WriteTypes DEF HandleConnect, TypeOK
<1>2. connected' \subseteq Slots
  BY DEF HandleConnect, TypeOK
<1>3. CASE pc' = "idle" /\ at' = NULL /\ UNCHANGED job
  BY <1>1, <1>2, <1>3, Outside DEF HandleConnect, TypeOK, copyVars
<1>4. ASSUME NEW n \in PayloadLens, NEW to \in SUBSET connected',
             job' = [NoJob EXCEPT !.port = "sys", !.to = to, !.len = n],
             pc' = "fanout", at' = at
      PROVE  IInv'
  <2>1. job' = [port |-> "sys", to |-> to, out |-> NULL, tail |-> 0, len |-> n, left |-> 0]
    BY <1>4 DEF NoJob
  <2>2. job' \in Jobs /\ n \in Nat
    BY <1>2, <1>4, <2>1 DEF Jobs, Onwards
  <2>3. pool' = EmptyBuffer BY DEF HandleConnect
  <2>4. (Available \in Nat)' BY <2>1, <2>2 DEF Available
  <2>5. TypeOK'
    BY <1>1, <1>2, <1>4, <2>2, <2>3, <2>4 DEF HandleConnect, TypeOK, EmptyBuffer
  <2>6. PoolInv' BY <1>4, <2>1, <2>3 DEF PoolInv, Onwards
  <2>7. CopyInv'
    <3>1. job'.out = NULL /\ job'.tail = 0 /\ job'.len = n /\ job'.port = "sys" /\ 0 <= n
      BY <2>1, <2>2
    <3> QED BY <3>1 DEF CopyInv
  <2> QED BY <2>5, <2>6, <2>7
<1> QED BY <1>3, <1>4 DEF HandleConnect, SysPublishes

(* A port takes its reference to the buffer that the handler holds.         *)
LEMMA ReferencesStep ==
    ASSUME IInv, NEW port \in {"router", "remote"}, NEW to \in SUBSET Outlets,
           References(port, to), pool.refs = 1, pool.tail = 0, pc' = "fanout",
           port = "remote" => to \subseteq {Remote},
           UNCHANGED <<portVars, pktVars, wireVars, at>>
    PROVE  IInv'
<1> USE DEF IInv, portVars, pktVars, wireVars
<1>0. pool \in [head : Nat, tail : Nat, refs : 0..2] /\ pool.refs + 1 = 2
  <2>1. pool \in [head : Nat, tail : Nat, refs : 0..2] BY DEF TypeOK
  <2>2. pool.refs = 1 OBVIOUS
  <2>3. 1 + 1 = 2 OBVIOUS
  <2> QED BY <2>1, <2>2, <2>3, Zenon
<1>1. /\ pool \in [head : Nat, tail : Nat, refs : 0..2]
      /\ pool' = [pool EXCEPT !.refs = 2]
  <2>1. pool' = [pool EXCEPT !.refs = pool.refs + 1] BY Zenon DEF References
  <2> QED BY <1>0, <2>1, Zenon
<1>2. /\ pool' \in [head : Nat, tail : Nat, refs : 0..2]
      /\ pool'.refs = 2 /\ pool'.tail = 0 /\ pool'.head = pool.head /\ pool.head \in Nat
  BY <1>1
<1>3. job' = [port |-> port, to |-> to, out |-> NULL, tail |-> 0, len |-> pool.head, left |-> 0]
  <2>1. job' = [NoJob EXCEPT !.port = port, !.to = to, !.tail = pool.tail,
                             !.len = pool.head - pool.tail]
    BY Zenon DEF References
  <2>2. pool.head - pool.tail = pool.head BY <1>0
  <2>3. job' = [NoJob EXCEPT !.port = port, !.to = to, !.tail = 0, !.len = pool.head]
    BY <2>1, <2>2, Zenon
  <2> QED BY <2>3 DEF NoJob
<1>4. job' \in Jobs /\ (Available \in Nat)'
  BY <1>2, <1>3 DEF Jobs, Onwards, Available
<1>5. TypeOK' BY <1>2, <1>4 DEF TypeOK
<1>6. PoolInv' BY <1>2, <1>3 DEF PoolInv, Onwards
<1>7. CopyInv' BY <1>2, <1>3 DEF CopyInv
<1> QED BY <1>5, <1>6, <1>7

(* Beginning, continuing and ending the copy for one receiver.              *)
LEMMA CopyStep ==
    ASSUME IInv, BeginCopy \/ Copy \/ CopyEnds
    PROVE  IInv'
<1> USE DEF IInv, portVars, pktVars, wireVars
<1>t. /\ job \in Jobs /\ pc = "fanout" /\ NULL \notin Outlets /\ TypeOK
      /\ ChunkSize \in Nat /\ ChunkSize > 0
      /\ job.tail \in Nat /\ job.len \in Nat /\ job.left \in Nat
  <2>1. pc = "fanout" BY DEF BeginCopy, Copy, CopyEnds
  <2>2. job \in Jobs /\ TypeOK BY DEF TypeOK
  <2>3. job.tail \in Nat /\ job.len \in Nat /\ job.left \in Nat BY <2>2 DEF Jobs
  <2>4. NULL \notin Outlets /\ ChunkSize \in Nat /\ ChunkSize > 0 BY OutboundAssumption
  <2> QED BY <2>1, <2>2, <2>3, <2>4
<1>1. CASE BeginCopy
  <2>1. PICK o \in job.to :
            /\ Write(o, PublishBytes(job.len), Packet(Publish, Str(Topic) \o Payload(job.len)))
            /\ job' = [job EXCEPT !.out = o, !.left = job.len]
    BY <1>1 DEF BeginCopy
  <2>2. o \in Outlets BY <1>t, <2>1 DEF Jobs
  <2>3. full' \in [Outlets -> BOOLEAN] BY <2>1, <2>2, WriteTypes DEF TypeOK
  <2>4. /\ job' \in Jobs /\ job'.out = o /\ job'.left = job.len /\ job'.port = job.port
        /\ job'.to = job.to /\ job'.tail = job.tail /\ job'.len = job.len
    BY <1>t, <2>1, <2>2 DEF Jobs
  <2>5. UNCHANGED <<connected, link, pkt, written, over, pool, pc, at>>
    BY <1>1 DEF BeginCopy
  <2>6. job.out = NULL BY <1>1 DEF BeginCopy
  <2>7. TypeOK' BY <2>3, <2>4, <2>5 DEF TypeOK, Available
  <2>8. PoolInv' BY <1>t, <2>4, <2>5 DEF PoolInv
  <2>9. CopyInv' BY <1>t, <2>1, <2>2, <2>4, <2>5, <2>6 DEF CopyInv
  <2> QED BY <2>7, <2>8, <2>9
<1>2. CASE Copy
  <2> DEFINE want == IF job.left < ChunkSize THEN job.left ELSE ChunkSize
             read == ReadFunc(want)
  <2>1. /\ job' = [job EXCEPT !.tail = job.tail + read, !.left = job.left - read]
        /\ Write(job.out, [i \in 1..read |-> job.tail + i] \o WithJunk(job.out, want - read), <<>>)
        /\ job.out # NULL /\ UNCHANGED <<connected, link, pkt, written, over, pool, pc, at>>
    BY <1>2 DEF Copy
  <2>2. Available \in Nat /\ want \in Nat /\ want <= job.left
    BY <1>t DEF TypeOK
  <2>3. read \in Nat /\ read <= job.left /\ read <= Available
    <3>1. read = IF Available < want THEN Available ELSE want BY Zenon DEF ReadFunc
    <3> HIDE DEF want, read
    <3>2. job.left \in Nat BY <1>t
    <3> QED BY <2>2, <3>1, <3>2
  <2> HIDE DEF read, want
  <2>4. job.left + job.tail = job.len /\ job.out \in job.to /\ job.out \in Outlets
    BY <1>t, <2>1 DEF CopyInv, Jobs
  <2>5. full' \in [Outlets -> BOOLEAN]
    BY <2>1, <2>4, WriteTypes DEF TypeOK
  <2>6. /\ job.tail + read \in Nat /\ job.left - read \in Nat
        /\ (job.left - read) + (job.tail + read) = job.len /\ job.tail + read <= job.len
    BY <1>t, <2>3, <2>4
  <2>7. /\ job' \in Jobs /\ job'.out = job.out /\ job'.left = job.left - read
        /\ job'.port = job.port /\ job'.to = job.to /\ job'.tail = job.tail + read
        /\ job'.len = job.len
    BY <1>t, <2>1, <2>6 DEF Jobs
  <2>8. (Available \in Nat)'
    <3>1. Available' = Available - read
      <4>1. pool.head \in Nat BY DEF TypeOK
      <4> QED BY <1>t, <2>1, <2>3, <2>7, <4>1 DEF Available
    <3> QED BY <2>2, <2>3, <3>1
  <2>9. TypeOK' BY <2>1, <2>5, <2>7, <2>8 DEF TypeOK
  <2>10. PoolInv' BY <1>t, <2>1, <2>7 DEF PoolInv
  <2>11. CopyInv' BY <1>t, <2>1, <2>4, <2>6, <2>7 DEF CopyInv
  <2> QED BY <2>9, <2>10, <2>11
<1>3. CASE CopyEnds
  <2> DEFINE tail == IF job.port = "remote" THEN job.tail ELSE 0
  <2>1. /\ job' = [job EXCEPT !.to = job.to \ {job.out}, !.out = NULL, !.tail = tail]
        /\ job.out # NULL /\ UNCHANGED <<connected, link, pkt, written, over, full, pool, pc, at>>
    BY <1>3 DEF CopyEnds
  <2>2. tail \in Nat /\ tail <= job.tail
    BY <1>t
  <2>3. job.port = "remote" => job.to \ {job.out} = {}
    BY <1>t, <2>1 DEF CopyInv
  <2>4. job.port # "remote" => tail = 0 OBVIOUS
  <2> HIDE DEF tail
  <2>5. /\ job' \in Jobs /\ job'.out = NULL /\ job'.to = job.to \ {job.out}
        /\ job'.tail = tail /\ job'.port = job.port /\ job'.len = job.len
    BY <1>t, <2>1, <2>2 DEF Jobs
  <2>6. (Available \in Nat)'
    <3>1. pool.head \in Nat BY DEF TypeOK
    <3>2. Available' = (IF job.port = "sys" THEN job.len ELSE pool.head) - tail
      BY <2>1, <2>5 DEF Available
    <3>3. Available = (IF job.port = "sys" THEN job.len ELSE pool.head) - job.tail /\ Available \in Nat
      BY <1>t DEF Available, TypeOK
    <3> QED BY <1>t, <2>2, <3>1, <3>2, <3>3
  <2>7. TypeOK' BY <2>1, <2>5, <2>6 DEF TypeOK
  <2>8. PoolInv' BY <1>t, <2>1, <2>5 DEF PoolInv
  <2>9. job.tail <= job.len BY <1>t DEF CopyInv
  <2>10. CopyInv' BY <1>t, <2>2, <2>3, <2>4, <2>5, <2>9 DEF CopyInv
  <2> QED BY <2>7, <2>8, <2>10
<1> QED BY <1>1, <1>2, <1>3

(* A publish starts with its handler's use of the buffer, each port gives   *)
(* its own back, and the handler the last.                                  *)
LEMMA PublishStep ==
    ASSUME IInv, HandlePublish \/ RouterBegins \/ RemoteBegins \/ PortEnds \/ PublishEnds
    PROVE  IInv'
<1> USE DEF IInv, portVars, pktVars, wireVars
<1>t. /\ TypeOK /\ NULL \notin Outlets /\ Slots \subseteq Outlets /\ Remote \in Outlets
      /\ PayloadLens \subseteq Nat
  BY OutboundAssumption DEF Outlets
<1>1. CASE HandlePublish
  <2>1. PICK n \in PayloadLens : pool' = [head |-> n, tail |-> 0, refs |-> 1]
    BY <1>1 DEF HandlePublish
  <2>2. /\ pc = "handle" /\ pc' = "router"
        /\ UNCHANGED <<connected, link, pkt, written, over, job, full, at>>
    BY <1>1 DEF HandlePublish, Handles
  <2>3. pool = EmptyBuffer BY <2>2 DEF PoolInv
  <2>4. /\ pool' \in [head : Nat, tail : Nat, refs : 0..2] /\ pool'.refs = 1 /\ pool'.tail = 0
        /\ pool'.head >= pool.head /\ pool.head = 0 /\ pool'.head \in Nat
    BY <1>t, <2>1, <2>3 DEF EmptyBuffer
  <2>5. (Available \in Nat)'
    BY <2>2, <2>4 DEF Available, TypeOK, Jobs
  <2>6. TypeOK' BY <1>t, <2>2, <2>4, <2>5 DEF TypeOK
  <2> QED BY <2>2, <2>4, <2>6 DEF PoolInv, CopyInv
<1>2. CASE RouterBegins
  <2>1. PICK to \in SUBSET connected : References("router", to)
    BY <1>2 DEF RouterBegins
  <2>2. to \in SUBSET Outlets BY <1>t DEF TypeOK
  <2>3. pool.refs = 1 /\ pool.tail = 0 /\ pc' = "fanout"
    BY <1>2 DEF RouterBegins, PoolInv
  <2> QED BY <1>2, <2>1, <2>2, <2>3, ReferencesStep DEF RouterBegins
<1>3. CASE RemoteBegins
  <2>1. pool.refs = 1 /\ pool.tail = 0 /\ pc' = "fanout" /\ References("remote", {Remote})
    BY <1>3 DEF RemoteBegins, PoolInv
  <2> QED BY <1>3, <1>t, <2>1, ReferencesStep DEF RemoteBegins
<1>4. CASE PortEnds
  <2>1. /\ pc = "fanout" /\ job' = NoJob /\ pc' = Onwards[job.port]
        /\ pool' = (IF job.port = "sys" THEN pool ELSE Unref(pool))
        /\ UNCHANGED <<connected, link, pkt, written, over, full, at>>
    BY <1>4 DEF PortEnds
  <2>2. job.port \in {"router", "remote", "sys"} /\ pool \in [head : Nat, tail : Nat, refs : 0..2]
    BY <2>1 DEF PoolInv, Onwards, TypeOK
  <2>3. job' \in Jobs BY <1>t, <2>1 DEF NoJob, Jobs
  <2>4. CASE job.port = "sys"
    <3>1. pool' = EmptyBuffer /\ pc' = "idle"
      BY <2>1, <2>4 DEF PoolInv, Onwards
    <3>2. (Available \in Nat)' BY <2>1, <3>1 DEF Available, NoJob, EmptyBuffer
    <3> QED BY <1>t, <2>1, <2>3, <3>1, <3>2 DEF TypeOK, PoolInv, CopyInv, EmptyBuffer
  <2>5. CASE job.port # "sys"
    <3>1. pool.refs = 2 /\ pool.tail = 0 BY <2>1, <2>5 DEF PoolInv
    <3>2. pool' = [pool EXCEPT !.refs = 1]
      BY <2>1, <2>2, <2>5, <3>1 DEF Unref
    <3>3. /\ pool' \in [head : Nat, tail : Nat, refs : 0..2] /\ pool'.refs = 1 /\ pool'.tail = 0
          /\ pool'.head \in Nat
      BY <2>2, <3>1, <3>2
    <3>4. pc' \in {"remote", "handed on"}
      <4>1. Onwards["router"] = "remote" /\ Onwards["remote"] = "handed on" BY DEF Onwards
      <4>2. job.port = "router" \/ job.port = "remote" BY <2>2, <2>5
      <4>3. CASE job.port = "router" BY <2>1, <4>1, <4>3, Zenon
      <4>4. CASE job.port = "remote" BY <2>1, <4>1, <4>4, Zenon
      <4> QED BY <4>2, <4>3, <4>4
    <3>5. (Available \in Nat)' BY <2>1, <3>3 DEF Available, NoJob
    <3> QED BY <1>t, <2>1, <2>3, <3>3, <3>4, <3>5 DEF TypeOK, PoolInv, CopyInv
  <2> QED BY <2>4, <2>5
<1>5. CASE PublishEnds
  <2>1. /\ pc \in {"remote", "handed on"} /\ pool' = Unref(pool) /\ pc' = "idle" /\ at' = NULL
        /\ UNCHANGED <<connected, link, pkt, written, over, full, job>>
    BY <1>5 DEF PublishEnds
  <2>2. pool.refs = 1 /\ job' = NoJob /\ job \in Jobs
    BY <2>1 DEF PoolInv, TypeOK
  <2>3. pool' = EmptyBuffer
    BY <2>1, <2>2, Zenon DEF Unref
  <2>4. (Available \in Nat)'
    <3>1. job'.port = "none" /\ job'.tail = 0 BY <2>2 DEF NoJob
    <3>2. pool'.head = 0 BY <2>3 DEF EmptyBuffer
    <3> QED BY <3>1, <3>2 DEF Available
  <2>5. job' \in Jobs BY <2>1, <2>2
  <2>6. pool' \in [head : Nat, tail : Nat, refs : 0..2] BY <2>3 DEF EmptyBuffer
  <2>7. TypeOK' BY <1>t, <2>1, <2>4, <2>5, <2>6 DEF TypeOK
  <2>8. PoolInv' BY <2>1, <2>2, <2>3 DEF PoolInv
  <2>9. CopyInv' BY <2>1 DEF CopyInv
  <2> QED BY <2>7, <2>8, <2>9
<1> QED BY <1>1, <1>2, <1>3, <1>4, <1>5

(* The invariant holds at first and is kept by every step.                  *)
LEMMA IInvInit == Init => IInv
<1> SUFFICES ASSUME Init PROVE IInv OBVIOUS
<1>1. /\ NULL \notin Outlets /\ CounterWidth \in Nat /\ CounterWidth > 2
  BY OutboundAssumption
<1>2. IdlePacket \in Packets BY <1>1 DEF IdlePacket, Packets, PacketStates
<1>3. job = [port |-> "none", to |-> {}, out |-> NULL, tail |-> 0, len |-> 0, left |-> 0]
  BY DEF Init, NoJob
<1>4. job \in Jobs BY <1>3 DEF Jobs
<1>5. pool = [head |-> 0, tail |-> 0, refs |-> 0] BY DEF Init, EmptyBuffer
<1>6. pool \in [head : Nat, tail : Nat, refs : 0..2] /\ Available \in Nat
  BY <1>3, <1>5 DEF Available
<1>7. TypeOK BY <1>2, <1>4, <1>6 DEF Init, TypeOK
<1> QED BY <1>7 DEF Init, IInv, PoolInv, CopyInv

(* Every step keeps it.                                                     *)
LEMMA IInvStep == IInv /\ [Next]_vars => IInv'
<1> SUFFICES ASSUME IInv, [Next]_vars PROVE IInv' OBVIOUS
<1>1. CASE Next
  BY <1>1, QuietStep, ConnectStep, CopyStep, PublishStep DEF Next, FanOut
<1>2. CASE UNCHANGED vars
  <2>1. UNCHANGED <<connected, link, pkt, pool, job, pc, at, full, over>>
    BY <1>2 DEF vars, portVars, pktVars, copyVars, wireVars
  <2>2. (Available \in Nat)' BY <2>1 DEF Available, IInv, TypeOK
  <2> QED BY <2>1, <2>2 DEF IInv, TypeOK, PoolInv, CopyInv
<1> QED BY <1>1, <1>2

(* So it holds in every reachable state.                                    *)
LEMMA Invariance == Spec => []IInv
  BY IInvInit, IInvStep, PTL DEF Spec

(* Every variable has its type in every reachable state: no reference's     *)
(* tail passes the end of its buffer, and counter stays within its byte.    *)
THEOREM TypeCorrect == Spec => []TypeOK
<1>1. IInv => TypeOK BY DEF IInv
<1> QED BY <1>1, Invariance, PTL

(* The handler and the port at work hold the buffer of a publish twice, and *)
(* once it has been handed on it is free for the next one.                  *)
THEOREM ReferencesReturned == Spec => []RefsBalanced
<1>1. IInv => RefsBalanced BY DEF IInv, PoolInv, RefsBalanced
<1> QED BY <1>1, Invariance, PTL

(* The payload still to be written to a receiver is in the buffer: the copy *)
(* of construct_publish never waits for bytes that another receiver took.   *)
THEOREM PayloadLeft == Spec => []NeverShort
<1>1. ASSUME IInv PROVE NeverShort
  <2> SUFFICES ASSUME pc = "fanout", job.out # NULL PROVE job.left = Available
    BY DEF NeverShort
  <2>1. job.left + job.tail = job.len BY <1>1 DEF IInv, CopyInv
  <2>2. job.port = "sys" \/ job.len = pool.head BY <1>1 DEF IInv, PoolInv
  <2>3. job.tail \in Nat /\ job.len \in Nat /\ job.left \in Nat
    BY <1>1 DEF IInv, TypeOK, Jobs
  <2>4. Available = job.len - job.tail BY <2>2 DEF Available
  <2> QED BY <2>1, <2>3, <2>4
<1> QED BY <1>1, Invariance, PTL

=============================================================================
