---------------------------- MODULE BrokerProofs ----------------------------
(***************************************************************************)
(* Proofs about Broker, for any number of connections, clients, topics,    *)
(* sessions and any capacities: the broker implements PublishStore, so all *)
(* that is proved of the store holds in it; and sessions, the lock and the *)
(* wake-up signals are where the connections believe them to be.           *)
(***************************************************************************)
EXTENDS Broker, PublishStoreProofs

(* Connections that work on a session. *)
Working == {"connack"} \cup Looping \cup Cleanup

(* Where connections are, and that a connection with a session has its slot. *)
SidsOK ==
  /\ live \subseteq Sids
  /\ pc \in [Conns -> PCs] /\ who \in [Conns -> Clients \cup {NoClient}]
  /\ sid \in [Conns -> Sids \cup {NoSid}]
  /\ \A c \in Conns : pc[c] \in Working => sid[c] \in Sids

(* Steps that only move one connection. *)
Moves(c) ==
  \/ HelloFails(c) \/ Connack(c) \/ Reject(c) \/ Close(c) \/ FlushWrite(c)
  \/ WakeByTimer(c) \/ Reply(c) \/ ReadFails(c) \/ Disconnect(c)
  \/ PacketWithoutSession(c) \/ Ping(c)
  \/ \E k \in Clients : Dial(c, k)
  \/ \E q \in QoSLevels : PublishLimited(c, q)
  \/ \E t \in Topics, q \in QoSLevels, op \in Retains, storable \in Storables :
       PublishNotRetained(c, t, q, op, storable)

(* Steps of connection c that are inside its work on a session. *)
Works(c) ==
  \/ Flush(c) \/ CheckEnds(c) \/ CheckPasses(c) \/ CheckRetries(c) \/ RetryWrite(c)
  \/ WakeBySignal(c) \/ CleanupWill(c) \/ CleanupPush(c) \/ CleanupRemove(c)
  \/ \E pid \in 1..PidMax : PubackPacket(c, pid)
  \/ \E t \in Topics, q \in QoSLevels : Subscribe(c, t, q)
  \/ \E t \in Topics : Unsubscribe(c, t)
  \/ \E t \in Topics, q \in QoSLevels, op \in Retains, m \in Msgs,
        size \in Sizes, storable \in Storables :
       Publish(c, t, q, op, m, size, storable)

(* A CONNECT packet. *)
Connects(c) ==
  \/ ConnectRefused(c)
  \/ \E will \in Wills \cup {NoLwt} :
       ConnectResume(c, will) \/ ConnectNew(c, will) \/ ConnectReplace(c, will)
  \/ \E clean \in BOOLEAN : ConnectBadWill(c, clean)

(* The steps of the broker, sorted by what they touch. *)
LEMMA StepKinds ==
  ASSUME BrokerNext
  PROVE  \/ \E c \in Conns : Moves(c) \/ Works(c) \/ Connects(c)
         \/ \E s \in Sids : RetryTimeout(s)
         \/ Control
  BY DEF BrokerNext, Progress, Peer, Moves, Works, Connects

(* A connection that only moves leaves all others and all shared state      *)
(* alone, and stays off the locked section.                                 *)
LEMMA MovesShape ==
  ASSUME SidsOK, NEW c \in Conns, Moves(c)
  PROVE  /\ UNCHANGED <<sharedVars, lockVars, psVars, deliveries>>
         /\ pc' \in [Conns -> PCs] /\ sid' \in [Conns -> Sids \cup {NoSid}]
         /\ who' \in [Conns -> Clients \cup {NoClient}]
         /\ \A d \in Conns \ {c} : pc'[d] = pc[d] /\ sid'[d] = sid[d] /\ who'[d] = who[d]
         /\ pc[c] \notin {"check", "retryWrite"}
         /\ pc'[c] \notin {"check", "retryWrite", "wait"}
         /\ pc'[c] \in Working =>
              pc[c] \in Working /\ sid'[c] = sid[c] /\ who'[c] = who[c]
         /\ \/ pc[c] # "idle" /\ pc'[c] # "idle" /\ who'[c] = who[c]
            \/ pc'[c] = "idle" /\ who'[c] = NoClient
            \/ /\ pc'[c] = "hello" /\ who'[c] \in Clients
               /\ Takeover \/ \A d \in Conns : who[d] # who'[c]
  BY DEF SidsOK, Moves, HelloFails, Connack, Reject, Close, FlushWrite, WakeByTimer,
         Reply, ReadFails, Disconnect, PacketWithoutSession, Ping, Dial, PublishLimited,
         PublishNotRetained, Acknowledge, Goto, Leave, PCs, Working, Looping, Cleanup

(* Work on a session leaves the connection with it, or closes. *)
LEMMA WorksShape ==
  ASSUME SidsOK, NEW c \in Conns, Works(c)
  PROVE  /\ UNCHANGED <<who, sid>>
         /\ pc' \in [Conns -> PCs]
         /\ \A d \in Conns \ {c} : pc'[d] = pc[d]
         /\ pc[c] \in Looping \cup Cleanup
<1> USE DEF SidsOK, Goto, PCs, Looping, Cleanup
<1>1. CASE Flush(c) \/ CheckEnds(c) \/ CheckPasses(c) \/ CheckRetries(c)
  BY <1>1 DEF Flush, CheckEnds, CheckPasses, CheckRetries
<1>2. CASE RetryWrite(c) \/ WakeBySignal(c) \/ CleanupPush(c) \/ CleanupRemove(c)
  BY <1>2 DEF RetryWrite, WakeBySignal, CleanupPush, CleanupRemove
<1>3. CASE CleanupWill(c)
  BY Zenon, <1>3 DEF CleanupWill
<1>4. CASE \/ \E pid \in 1..PidMax : PubackPacket(c, pid)
           \/ \E t \in Topics, q \in QoSLevels : Subscribe(c, t, q)
           \/ \E t \in Topics : Unsubscribe(c, t)
  BY <1>4 DEF PubackPacket, Subscribe, Unsubscribe
<1>5. ASSUME NEW t \in Topics, NEW q \in QoSLevels, NEW op \in Retains, NEW m \in Msgs,
             NEW size \in Sizes, NEW storable \in Storables,
             Publish(c, t, q, op, m, size, storable)
      PROVE  /\ UNCHANGED <<who, sid>>
             /\ Goto(c, "wait", "lwt") \/ Goto(c, "wait", "reply") \/ Goto(c, "wait", "flush")
  BY SMTT(40), <1>5 DEF Publish, Acknowledge
<1> QED
  BY SMTT(40), <1>1, <1>2, <1>3, <1>4, <1>5 DEF Works

(* A CONNECT gives the connection a session or takes it out of the work. *)
LEMMA ConnectsShape ==
  ASSUME SidsOK, NEW c \in Conns, Connects(c)
  PROVE  /\ pc[c] = "hello" /\ LockFree /\ UNCHANGED <<lockVars, deliveries, cmds, retained>>
         /\ pc' \in [Conns -> PCs] /\ sid' \in [Conns -> Sids \cup {NoSid}]
         /\ who' \in [Conns -> Clients \cup {NoClient}]
         /\ \A d \in Conns \ {c} : pc'[d] = pc[d] /\ sid'[d] = sid[d] /\ who'[d] = who[d]
         /\ \/ pc'[c] \in {"reject"} /\ who'[c] = who[c]
            \/ pc'[c] = "idle" /\ who'[c] = NoClient
            \/ pc'[c] = "connack" /\ sid'[c] \in Sids /\ who'[c] = who[c]
<1> USE DEF SidsOK, PCs, Looping, Cleanup
<1>1. ASSUME NEW s \in Sids, NEW S, pc[c] = "hello", Accept(c, s, S)
      PROVE  pc' = [pc EXCEPT ![c] = "connack"] /\ sid' = [sid EXCEPT ![c] = s]
             /\ UNCHANGED <<who, deliveries>>
  BY <1>1 DEF Accept
<1>2. ASSUME NEW S, pc[c] = "hello", Leave(c, S)
      PROVE  pc' = [pc EXCEPT ![c] = "idle"] /\ sid' = [sid EXCEPT ![c] = NoSid]
             /\ who' = [who EXCEPT ![c] = NoClient] /\ UNCHANGED deliveries
  BY <1>2 DEF Leave
<1>3. CASE ConnectRefused(c)
  BY <1>3 DEF ConnectRefused, Goto
<1>4. CASE \E will \in Wills \cup {NoLwt} : ConnectResume(c, will)
  BY <1>1, <1>4 DEF ConnectResume
<1>5. CASE \E will \in Wills \cup {NoLwt} : ConnectNew(c, will)
  BY SMTT(40), <1>1, <1>5 DEF ConnectNew, Goto
<1>6. CASE \E will \in Wills \cup {NoLwt} : ConnectReplace(c, will)
  BY <1>1, <1>2, <1>6 DEF ConnectReplace
<1>7. CASE \E clean \in BOOLEAN : ConnectBadWill(c, clean)
  BY Zenon, <1>2, <1>7 DEF ConnectBadWill
<1> QED
  BY SMTT(40), <1>3, <1>4, <1>5, <1>6, <1>7 DEF Connects
-----------------------------------------------------------------------------
(* The fan-out of a publish is a routing step of the store. *)
LEMMA FanoutRoutes ==
  ASSUME SidsOK, NEW subs \in SUBSET live, NEW t, NEW q, NEW m \in Msgs, NEW size,
         NEW storable, Fanout(subs, t, q, m, size, storable)
  PROVE  PsNext
<1> DEFINE eff(s) == Lower(q, sess[s].subs[t])
           misfit == {s \in subs : ~Fits(size, eff(s))}
           reached == {s \in subs : \A x \in misfit : s < x}
           drawn == {s \in subs : eff(s) # 0 /\ \A x \in misfit : s <= x}
           tracked == {s \in {s \in reached : HasRoom(s)} : eff(s) = 1}
<1>1. Route(drawn, tracked, m, storable)
  BY Zenon DEF Fanout
<1>2. drawn \in SUBSET live
  OBVIOUS
<1>3. \A s, x \in live : s < x => s <= x
  BY ConstantsOK DEF SidsOK, Sids
<1>4. tracked \in SUBSET drawn
  BY <1>3
<1> HIDE DEF drawn, tracked
<1> QED
  BY Zenon, <1>1, <1>2, <1>4 DEF Route, PsNext

(* Every step of the broker is a step of the store or leaves it alone. *)
LEMMA StoreStep ==
  ASSUME SidsOK, [BrokerNext]_brokerVars
  PROVE  [PsNext]_psVars
<1>1. ASSUME NEW c \in Conns, Moves(c) PROVE UNCHANGED psVars
  BY <1>1, MovesShape
<1>2. ASSUME NEW c \in Conns, Works(c) PROVE [PsNext]_psVars
  <2>1. Present(c) => sid[c] \in Sids
    BY DEF Present, SidsOK
  <2>2. pc[c] = "retryWrite" => sid[c] \in Sids
    BY DEF SidsOK, Working, Looping
  <2>3. CASE CheckRetries(c)
    BY SMTT(40), <2>1, <2>3 DEF CheckRetries, Ended, Due, PsNext
  <2>4. CASE RetryWrite(c)
    BY SMTT(40), <2>2, <2>4 DEF RetryWrite, Goto, Due, PsNext
  <2>5. CASE CleanupRemove(c)
    BY SMTT(40), <2>1, <2>5 DEF CleanupRemove, PsNext
  <2>6. CASE \E pid \in 1..PidMax : PubackPacket(c, pid)
    BY Zenon, <2>1, <2>6 DEF PubackPacket, PsNext
  <2>7. ASSUME NEW t \in Topics, NEW q \in QoSLevels, NEW op \in Retains, NEW m \in Msgs,
               NEW size \in Sizes, NEW storable \in Storables,
               Publish(c, t, q, op, m, size, storable)
        PROVE  PsNext
    <3>1. Subscribers(t) \ {sid[c]} \in SUBSET live
      BY DEF Subscribers
    <3>2. Fanout(Subscribers(t) \ {sid[c]}, t, q, m, size, storable)
      BY <2>7 DEF Publish
    <3> QED
      BY SMTT(40), <3>1, <3>2, FanoutRoutes
  <2>8. CASE \/ Flush(c) \/ CheckEnds(c) \/ CheckPasses(c) \/ WakeBySignal(c)
             \/ CleanupWill(c) \/ CleanupPush(c)
             \/ \E t \in Topics, q \in QoSLevels : Subscribe(c, t, q)
             \/ \E t \in Topics : Unsubscribe(c, t)
    BY ZenonT(40), <2>8
       DEF Flush, CheckEnds, CheckPasses, WakeBySignal, CleanupWill, CleanupPush,
                Subscribe, Unsubscribe
  <2> QED
    BY SMTT(40), <1>2, <2>3, <2>4, <2>5, <2>6, <2>7, <2>8 DEF Works
<1>3. ASSUME NEW c \in Conns, Connects(c) PROVE [PsNext]_psVars
  BY Zenon, <1>3 DEF Connects, ConnectRefused, ConnectResume, ConnectNew, ConnectReplace,
              ConnectBadWill, PsNext
<1>4. ASSUME NEW s \in Sids, RetryTimeout(s) PROVE [PsNext]_psVars
  BY Zenon, <1>4 DEF RetryTimeout, PsNext
<1>5. ASSUME Control PROVE [PsNext]_psVars
  <2>1. CASE TakeCommand
    BY <2>1 DEF TakeCommand
  <2>2. ASSUME NEW t \in Topics, NEW q \in QoSLevels, NEW op \in Retains, NEW m \in Msgs,
               NEW size \in Sizes, OutboundPublish(t, q, op, m, size)
        PROVE  PsNext
    <3>1. Subscribers(t) \in SUBSET live
      BY DEF Subscribers
    <3>2. Fanout(Subscribers(t), t, q, m, size, TRUE)
      BY Zenon, <2>2 DEF OutboundPublish
    <3> QED
      BY Zenon, <3>1, <3>2, FanoutRoutes
  <2> QED
    BY <1>5, <2>1, <2>2 DEF Control
<1>6. CASE UNCHANGED brokerVars
  BY <1>6 DEF brokerVars
<1> QED
  BY SMTT(40), <1>1, <1>2, <1>3, <1>4, <1>5, <1>6, StepKinds

(* Connections keep the slots of their sessions in range. *)
LEMMA SidsStep ==
  ASSUME SidsOK, [BrokerNext]_brokerVars
  PROVE  SidsOK'
<1>1. live' \subseteq Sids
  BY ZenonT(40), StoreStep
     DEF SidsOK, PsNext, psVars, InsertSession, RemoveSession, ReplaceSession,
     RouteUntracked, RouteUnstorable, RouteTracked, Puback, Expire, RetryBegin, RetrySent
<1>2. ASSUME NEW c \in Conns, Moves(c) PROVE SidsOK'
  BY Zenon, <1>1, <1>2, MovesShape DEF SidsOK
<1>3. ASSUME NEW c \in Conns, Works(c) PROVE SidsOK'
  BY SMTT(40), <1>1, <1>3, WorksShape DEF SidsOK, Working
<1>4. ASSUME NEW c \in Conns, Connects(c) PROVE SidsOK'
  BY <1>1, <1>4, ConnectsShape DEF SidsOK, Working, Looping, Cleanup
<1>5. CASE Control \/ (\E s \in Sids : RetryTimeout(s)) \/ UNCHANGED brokerVars
  BY Zenon, <1>1, <1>5 DEF Control, TakeCommand, OutboundPublish, RetryTimeout, connVars,
                    brokerVars, SidsOK
<1> QED
  BY SMTT(40), <1>2, <1>3, <1>4, <1>5, StepKinds

LEMMA SidsInit == BrokerInit => SidsOK
  BY DEF BrokerInit, PsInit, SidsOK, PCs, Working, Looping, Cleanup

(* The broker implements the publish store specification. *)
THEOREM BrokerImplementsStore == BrokerSpec => PsSpec
<1>1. BrokerInit => PsInit
  BY DEF BrokerInit
<1>2. SidsOK /\ [BrokerNext]_brokerVars => SidsOK' /\ [PsNext]_psVars
  BY SidsStep, StoreStep
<1> QED
  BY <1>1, <1>2, SidsInit, PTL DEF BrokerSpec, PsSpec
-----------------------------------------------------------------------------
(* The state that connections share. *)
SharedOK ==
  /\ sess \in [Sids -> Session] /\ signal \in [Sids -> BOOLEAN]
  /\ \A s \in Sids : Len(sess[s].outbox) <= OutboxDepth
  /\ retained \subseteq Topics /\ IsFiniteSet(retained)
  /\ Cardinality(retained) <= MaxRetained
  /\ published \in 0..MaxSessions /\ cmds \in 0..InboundN
  /\ deliveries \in [Conns -> SUBSET (Sids \X QoSLevels)]
  /\ owner \in [Sids -> Conns \cup {NoConn}]

(* A blank and a new session. *)
LEMMA BlankTyped ==
  /\ Blank \in Session /\ Len(Blank.outbox) <= OutboxDepth
  /\ \A k \in Clients \cup {NoClient}, will \in Wills \cup {NoLwt} :
       /\ NewSession(k, will) \in Session /\ NewSession(k, will).client = k
       /\ Len(NewSession(k, will).outbox) <= OutboxDepth
<1>1. <<>> \in Seq(Frame) /\ Len(<<>>) = 0 /\ OutboxDepth \in Nat /\ DropsCap \in Nat
  BY SMTT(40), BrokerConstantsOK
<1>2. Blank \in Session /\ Blank.outbox = <<>>
  BY <1>1 DEF Blank, Session
<1>3. ASSUME NEW k \in Clients \cup {NoClient}, NEW will \in Wills \cup {NoLwt}
      PROVE  /\ NewSession(k, will) \in Session /\ NewSession(k, will).client = k
             /\ NewSession(k, will).outbox = <<>>
  BY Zenon, <1>2 DEF NewSession, Session
<1> QED
  BY <1>1, <1>2, <1>3

(* A frame that is pushed into an outbox with room. *)
LEMMA AppendTyped ==
  ASSUME SharedOK, NEW s \in Sids, HasRoom(s), NEW f \in Frame
  PROVE  LET r == [sess[s] EXCEPT !.outbox = Append(@, f)]
         IN  r \in Session /\ r.client = sess[s].client /\ Len(r.outbox) <= OutboxDepth
<1>1. sess[s] \in Session /\ sess[s].outbox \in Seq(Frame)
  BY DEF SharedOK, Session
<1>2. Append(sess[s].outbox, f) \in Seq(Frame)
      /\ Len(Append(sess[s].outbox, f)) = Len(sess[s].outbox) + 1
      /\ Len(sess[s].outbox) \in Nat
  BY <1>1
<1>3. Len(Append(sess[s].outbox, f)) <= OutboxDepth
  BY SMTT(40), <1>2, BrokerConstantsOK DEF HasRoom
<1> QED
  BY Zenon, <1>1, <1>2, <1>3 DEF Session

(* What pushes do to the sessions: frames come with a signal, and clients   *)
(* stay.                                                                    *)
Pushed ==
  /\ sess' \in [Sids -> Session] /\ signal' \in [Sids -> BOOLEAN]
  /\ \A s \in Sids :
       /\ Len(sess'[s].outbox) <= OutboxDepth /\ sess'[s].client = sess[s].client
       /\ \/ sess'[s].outbox = sess[s].outbox /\ signal'[s] = signal[s]
          \/ signal'[s] = TRUE

(* The fan-out of a publish pushes. *)
LEMMA FanoutPushes ==
  ASSUME SharedOK, PsTypeOK, NEW t \in Topics, NEW q \in QoSLevels, NEW m, NEW size,
         NEW storable, NEW subs \in SUBSET Subscribers(t),
         Fanout(subs, t, q, m, size, storable)
  PROVE  Pushed
<1> DEFINE eff(s) == Lower(q, sess[s].subs[t])
           misfit == {s \in subs : ~Fits(size, eff(s))}
           reached == {s \in subs : \A x \in misfit : s < x}
           pushed == {s \in reached : HasRoom(s)}
           frame(s) == [kind |-> "publish", qos |-> eff(s),
                        pid |-> IF eff(s) = 0 THEN 0 ELSE NextPacketId(nextPid[s])]
           drops(s) == IF sess[s].drops = DropsCap THEN DropsCap
                       ELSE sess[s].drops + 1
<1>1. /\ sess' = [s \in Sids |->
           IF s \in pushed
           THEN [sess[s] EXCEPT !.outbox = Append(@, frame(s))]
           ELSE IF s \in reached
           THEN [sess[s] EXCEPT !.drops = drops(s),
                   !.quarantined = @ \/ drops(s) >= MaxOutboxDrops]
           ELSE sess[s]]
      /\ signal' = [s \in Sids |-> signal[s] \/ s \in pushed]
  BY Zenon DEF Fanout, SignalSessions
<1>2. ASSUME NEW s \in pushed PROVE frame(s) \in Frame
  <2>1. s \in Sids /\ sess[s].subs[t] \in QoSLevels
    BY SMTT(40) DEF Subscribers, SharedOK, Session, PsTypeOK
  <2>2. eff(s) \in QoSLevels
    BY Zenon, <2>1 DEF Lower
  <2>3. nextPid[s] \in 0..PidMax
    BY <2>1 DEF PsTypeOK
  <2>4. 0 \in 0..PidMax /\ NextPacketId(nextPid[s]) \in 0..PidMax
    BY SMTT(40), <2>3, ConstantsOK DEF NextPacketId
  <2> QED
    BY SMTT(40), <2>2, <2>4 DEF Frame
<1>3. \A s \in Sids : drops(s) \in 0..DropsCap
  BY SMTT(40), BrokerConstantsOK DEF SharedOK, Session
<1> HIDE DEF frame, drops, pushed, reached
<1>4. ASSUME NEW s \in Sids
      PROVE  /\ sess'[s] \in Session /\ sess'[s].client = sess[s].client
             /\ Len(sess'[s].outbox) <= OutboxDepth
             /\ s \in pushed \/ sess'[s].outbox = sess[s].outbox
  <2>1. sess[s] \in Session /\ Len(sess[s].outbox) <= OutboxDepth
    BY DEF SharedOK
  <2>2. CASE s \in pushed
    <3>1. HasRoom(s) /\ frame(s) \in Frame
      BY <1>2, <2>2 DEF pushed
    <3> QED
      BY Zenon, <1>1, <2>2, <3>1, AppendTyped
  <2>3. CASE s \notin pushed /\ s \in reached
    <3> DEFINE quar == sess[s].quarantined \/ drops(s) >= MaxOutboxDrops
    <3>1. sess'[s] = [sess[s] EXCEPT !.drops = drops(s), !.quarantined = quar]
      BY Zenon, <1>1, <2>3
    <3>2. quar \in BOOLEAN
      OBVIOUS
    <3> HIDE DEF quar
    <3> QED
      BY Zenon, <1>3, <2>1, <3>1, <3>2 DEF Session
  <2>4. CASE s \notin pushed /\ s \notin reached
    BY ZenonT(40), <1>1, <2>1, <2>4
  <2> QED
    BY SMTT(40), <2>2, <2>3, <2>4
<1>5. sess' \in [Sids -> Session] /\ signal' \in [Sids -> BOOLEAN]
  BY ZenonT(40), <1>1, <1>4 DEF SharedOK
<1>6. \A s \in Sids : IF s \in pushed THEN signal'[s] = TRUE ELSE signal'[s] = signal[s]
  BY Zenon, <1>1 DEF SharedOK
<1> QED
  BY <1>4, <1>5, <1>6 DEF Pushed

(* So does the delivery of a will. *)
LEMMA WillPushes ==
  ASSUME SharedOK, NEW c \in Conns, CleanupPush(c)
  PROVE  Pushed
<1> DEFINE pushed == {d \in deliveries[c] : d[1] \in live /\ HasRoom(d[1])}
           qos(s) == (CHOOSE d \in pushed : d[1] = s)[2]
<1>1. /\ sess' = [s \in Sids |->
           IF \E d \in pushed : d[1] = s
           THEN [sess[s] EXCEPT !.outbox = Append(@, LwtFrame(qos(s)))]
           ELSE sess[s]]
      /\ signal' = [s \in Sids |-> signal[s] \/ s \in {d[1] : d \in pushed}]
  BY DEF CleanupPush, SignalSessions
<1>2. ASSUME NEW s \in Sids, \E d \in pushed : d[1] = s
      PROVE  LwtFrame(qos(s)) \in Frame /\ HasRoom(s)
  <2>1. deliveries[c] \in SUBSET (Sids \X QoSLevels)
    BY DEF SharedOK
  <2>2. qos(s) \in QoSLevels
    BY <1>2, <2>1
  <2>3. 0 \in 0..PidMax /\ 1 \in 0..PidMax
    BY ConstantsOK
  <2>4. HasRoom(s)
    BY SMTT(40), <1>2
  <2> HIDE DEF qos
  <2> QED
    BY SMTT(40), <2>2, <2>3, <2>4 DEF LwtFrame, Frame
<1> HIDE DEF pushed, qos
<1>3. ASSUME NEW s \in Sids
      PROVE  /\ sess'[s] \in Session /\ sess'[s].client = sess[s].client
             /\ Len(sess'[s].outbox) <= OutboxDepth
             /\ (\E d \in pushed : d[1] = s) \/ sess'[s].outbox = sess[s].outbox
  <2>1. sess[s] \in Session /\ Len(sess[s].outbox) <= OutboxDepth
    BY DEF SharedOK
  <2>2. CASE \E d \in pushed : d[1] = s
    BY SMTT(40), <1>1, <1>2, <2>2, AppendTyped
  <2>3. CASE ~\E d \in pushed : d[1] = s
    BY <1>1, <2>1, <2>3
  <2> QED
    BY SMTT(40), <2>2, <2>3
<1>4. sess' \in [Sids -> Session] /\ signal' \in [Sids -> BOOLEAN]
  BY Zenon, <1>1, <1>3 DEF SharedOK
<1>5. \A s \in Sids : IF \E d \in pushed : d[1] = s
                      THEN signal'[s] = TRUE ELSE signal'[s] = signal[s]
  BY Zenon, <1>1 DEF SharedOK
<1> QED
  BY <1>3, <1>4, <1>5 DEF Pushed

(* The retained store stays within its capacity. *)
LEMMA RetainBounded ==
  ASSUME SharedOK, NEW t \in Topics, NEW op \in {"none", "set", "clear"}, NEW storable,
         ~RetainFails(t, op, storable)
  PROVE  /\ Retain(t, op) \subseteq Topics /\ IsFiniteSet(Retain(t, op))
         /\ Cardinality(Retain(t, op)) <= MaxRetained
<1>1. /\ IsFiniteSet(retained) /\ Cardinality(retained) \in Nat
      /\ Cardinality(retained) <= MaxRetained /\ MaxRetained \in Nat
      /\ retained \subseteq Topics
  BY FS_CardinalityType, BrokerConstantsOK DEF SharedOK
<1>2. /\ IsFiniteSet(retained \cup {t})
      /\ Cardinality(retained \cup {t}) =
           IF t \in retained THEN Cardinality(retained) ELSE Cardinality(retained) + 1
  BY <1>1, FS_AddElement
<1>3. /\ IsFiniteSet(retained \ {t})
      /\ Cardinality(retained \ {t}) =
           IF t \in retained THEN Cardinality(retained) - 1 ELSE Cardinality(retained)
  BY <1>1, FS_RemoveElement
<1>4. CASE op = "none"
  BY <1>1, <1>4 DEF Retain
<1>5. CASE op = "set"
  BY <1>1, <1>2, <1>5 DEF Retain, RetainFails
<1>6. CASE op = "clear"
  BY SMTT(40), <1>1, <1>3, <1>6 DEF Retain
<1> QED
  BY SMTT(40), <1>4, <1>5, <1>6

(* Steps that push and do nothing else to the shared state but retain. *)
LEMMA PushesTyped ==
  ASSUME SharedOK, Pushed, UNCHANGED <<published, owner>>, cmds' \in 0..InboundN,
         deliveries' \in [Conns -> SUBSET (Sids \X QoSLevels)],
         retained' \subseteq Topics, IsFiniteSet(retained'),
         Cardinality(retained') <= MaxRetained
  PROVE  SharedOK'
  BY DEF SharedOK, Pushed

(* Publishes keep the types of the shared state. *)
LEMMA PublishTyped ==
  ASSUME SharedOK, PsTypeOK, NEW c, NEW t \in Topics, NEW q \in QoSLevels,
         NEW op \in Retains, NEW m \in Msgs, NEW size \in Sizes, NEW storable,
         \/ Publish(c, t, q, op, m, size, storable)
         \/ storable = TRUE /\ OutboundPublish(t, q, op, m, size)
  PROVE  SharedOK' /\ Pushed /\ lock' = lock /\ LockFree
<1>1. op \in {"none", "set", "clear"} /\ InboundN \in Nat
  BY BrokerConstantsOK
<1>2. /\ \E subs \in SUBSET Subscribers(t) : Fanout(subs, t, q, m, size, storable)
      /\ retained' = Retain(t, op) /\ ~RetainFails(t, op, storable)
      /\ UNCHANGED <<published, owner, deliveries, lockVars>> /\ LockFree
  BY Zenon DEF Publish, OutboundPublish, connVars
<1>3. cmds' \in 0..InboundN
  <2>1. cmds' = cmds \/ (cmds < InboundN /\ cmds' = cmds + 1)
    BY ZenonT(40) DEF Publish, OutboundPublish, HandlerAccepts
  <2> QED
    BY <1>1, <2>1 DEF SharedOK
<1>4. Pushed
  BY SMTT(40), <1>2, FanoutPushes
<1>5. /\ retained' \subseteq Topics /\ IsFiniteSet(retained')
      /\ Cardinality(retained') <= MaxRetained
  BY SMTT(40), <1>1, <1>2, RetainBounded
<1> QED
  BY ZenonT(40), <1>2, <1>3, <1>4, <1>5, PushesTyped DEF SharedOK, lockVars

(* A CONNECT: sessions of other clients keep client, outbox and, unless     *)
(* they are gone, their signals.                                            *)
LEMMA ConnectsTyped ==
  ASSUME SidsOK, SharedOK, NEW c \in Conns, Connects(c)
  PROVE  /\ SharedOK'
         /\ \A s \in live \cap live' : sess[s].client # who[c] =>
              /\ sess'[s].client = sess[s].client /\ sess'[s].outbox = sess[s].outbox
              /\ pc'[c] # "connack" \/ s # sid'[c] => signal'[s] = signal[s]
<1> USE DEF SharedOK, SidsOK
<1>1. ASSUME NEW S, ResetSignals(S)
      PROVE  /\ signal' \in [Sids -> BOOLEAN]
             /\ \A s \in live' \cap Sids : s \notin S => signal'[s] = signal[s]
  BY SMTT(40), <1>1 DEF ResetSignals
<1>2. ASSUME NEW s \in Sids, NEW S, Accept(c, s, S)
      PROVE  /\ owner' \in [Sids -> Conns \cup {NoConn}]
             /\ signal' \in [Sids -> BOOLEAN] /\ sid'[c] = s /\ pc'[c] = "connack"
             /\ \A x \in live' \cap Sids : x # s => signal'[x] = signal[x]
  BY SMTT(40), <1>1, <1>2 DEF Accept
<1>3. ASSUME NEW S, Leave(c, S), ResetSignals({})
      PROVE  /\ owner' \in [Sids -> Conns \cup {NoConn}]
             /\ signal' \in [Sids -> BOOLEAN]
             /\ \A x \in live' \cap Sids : signal'[x] = signal[x]
  BY SMTT(40), <1>1, <1>3 DEF Leave
<1>4. CASE ConnectRefused(c)
  BY SMTT(40), <1>1, <1>4 DEF ConnectRefused
<1>5. ASSUME NEW will \in Wills \cup {NoLwt}, ConnectResume(c, will)
      PROVE  /\ SharedOK'
             /\ \A s \in live \cap live' :
                  /\ sess'[s].client = sess[s].client /\ sess'[s].outbox = sess[s].outbox
                  /\ pc'[c] # "connack" \/ s # sid'[c] => signal'[s] = signal[s]
  <2>1. PICK s \in Sids :
           /\ sess' = [sess EXCEPT ![s].lwt = will, ![s].quarantined = FALSE, ![s].drops = 0]
           /\ Accept(c, s, {})
    BY ZenonT(40), <1>5 DEF ConnectResume
  <2>2. UNCHANGED <<retained, published, cmds, deliveries>>
    BY Zenon, <1>5, ConnectsShape DEF ConnectResume, Connects
  <2>3. 0 \in 0..DropsCap
    BY SMTT(40), BrokerConstantsOK
  <2>4. \A x \in Sids : /\ sess'[x] \in Session /\ sess'[x].client = sess[x].client
                        /\ sess'[x].outbox = sess[x].outbox
    <3>1. sess'[s] = [sess[s] EXCEPT !.lwt = will, !.quarantined = FALSE, !.drops = 0]
      BY <2>1
    <3>2. \A x \in Sids \ {s} : sess'[x] = sess[x]
      BY <2>1
    <3>3. sess[s] \in Session
      OBVIOUS
    <3>4. /\ sess'[s] \in Session /\ sess'[s].client = sess[s].client
          /\ sess'[s].outbox = sess[s].outbox
      BY ZenonT(40), <2>3, <3>1, <3>3 DEF Session
    <3> QED
      BY <3>2, <3>4
  <2>5. sess' \in [Sids -> Session]
    BY Zenon, <2>1, <2>4
  <2> QED
    BY SMTT(40), <1>2, <2>1, <2>2, <2>4, <2>5
<1>6. ASSUME NEW will \in Wills \cup {NoLwt}, ConnectNew(c, will)
      PROVE  /\ SharedOK'
             /\ \A s \in live \cap live' :
                  /\ sess'[s].client = sess[s].client /\ sess'[s].outbox = sess[s].outbox
                  /\ pc'[c] # "connack" \/ s # sid'[c] => signal'[s] = signal[s]
  <2>1. UNCHANGED <<retained, published, cmds, deliveries>>
    BY Zenon, <1>6, ConnectsShape DEF ConnectNew, Connects
  <2>2. CASE /\ UNCHANGED <<owner, sess>> /\ ResetSignals({})
    <3>1. /\ signal' \in [Sids -> BOOLEAN]
          /\ \A s \in live' \cap Sids : signal'[s] = signal[s]
      BY SMTT(40), <1>1, <2>2
    <3>2. SharedOK'
      BY Zenon, <2>1, <2>2, <3>1
    <3> QED
      BY Zenon, <2>2, <3>1, <3>2
  <2>3. ASSUME NEW s \in Sids, InsertSession(s), Accept(c, s, {}),
               sess' = [sess EXCEPT ![s] = NewSession(who[c], will)]
        PROVE  /\ SharedOK'
               /\ \A x \in live \cap live' :
                    /\ sess'[x].client = sess[x].client /\ sess'[x].outbox = sess[x].outbox
                    /\ pc'[c] # "connack" \/ x # sid'[c] => signal'[x] = signal[x]
    BY ZenonT(40), <1>2, <2>1, <2>3, BlankTyped DEF InsertSession
  <2>4. \/ UNCHANGED <<owner, sess>> /\ ResetSignals({})
        \/ \E s \in Sids : /\ InsertSession(s) /\ Accept(c, s, {})
                           /\ sess' = [sess EXCEPT ![s] = NewSession(who[c], will)]
    BY ZenonT(40), <1>6 DEF ConnectNew
  <2> HIDE DEF SharedOK, SidsOK
  <2> QED
    BY Zenon, <2>2, <2>3, <2>4
<1>7. ASSUME NEW will \in Wills \cup {NoLwt}, ConnectReplace(c, will)
      PROVE  /\ SharedOK'
             /\ \A s \in live \cap live' : sess[s].client # who[c] =>
                  /\ sess'[s].client = sess[s].client /\ sess'[s].outbox = sess[s].outbox
                  /\ pc'[c] # "connack" \/ s # sid'[c] => signal'[s] = signal[s]
  <2>1. PICK s \in Sids, t \in Sids :
           /\ IsSessionOf(s, who[c]) /\ ReplaceSession(s, t)
           /\ sess' = [[sess EXCEPT ![s] = Blank] EXCEPT ![t] = NewSession(who[c], will)]
           /\ \/ Accept(c, t, {s}) /\ UNCHANGED published
              \/ published < MaxSessions /\ Accept(c, t, {s}) /\ published' = published + 1
              \/ Leave(c, {s}) /\ ResetSignals({}) /\ UNCHANGED published
    BY Zenon, <1>7 DEF ConnectReplace
  <2>2. UNCHANGED <<retained, cmds, deliveries>>
    BY Zenon, <1>7, ConnectsShape DEF ConnectReplace, Connects
  <2>3. published' \in 0..MaxSessions
    BY <2>1, ConstantsOK
  <2>4. /\ sess' \in [Sids -> Session]
        /\ \A x \in Sids : Len(sess'[x].outbox) <= OutboxDepth
    BY ZenonT(40), <2>1, BlankTyped
  <2>5. \A x \in live \cap live' : sess[x].client # who[c] => x # s /\ x # t
    BY Zenon, <2>1 DEF IsSessionOf, SessionsOf, ReplaceSession
  <2>6. \A x \in live \cap live' : sess[x].client # who[c] => sess'[x] = sess[x]
    BY Zenon, <2>1, <2>5
  <2>7. /\ owner' \in [Sids -> Conns \cup {NoConn}]
        /\ signal' \in [Sids -> BOOLEAN]
        /\ \A x \in live' \cap Sids : x # t => signal'[x] = signal[x]
    BY Zenon, <1>2, <1>3, <2>1
  <2> QED
    BY Zenon, <2>2, <2>3, <2>4, <2>5, <2>6, <2>7
<1>8. ASSUME NEW clean \in BOOLEAN, ConnectBadWill(c, clean)
      PROVE  /\ SharedOK'
             /\ \A s \in live \cap live' : sess[s].client # who[c] =>
                  /\ sess'[s].client = sess[s].client /\ sess'[s].outbox = sess[s].outbox
                  /\ signal'[s] = signal[s]
  <2>1. UNCHANGED <<retained, published, cmds, deliveries>>
    BY Zenon, <1>8, ConnectsShape DEF ConnectBadWill, Connects
  <2>2. \E S : Leave(c, S) /\ ResetSignals({})
    BY Zenon, <1>8 DEF ConnectBadWill
  <2>3. \/ UNCHANGED sess
        \/ \E s \in Sids : sess' = [sess EXCEPT ![s] = Blank] /\ s \notin live'
    BY ZenonT(40), <1>8 DEF ConnectBadWill, RemoveSession
  <2>4. /\ sess' \in [Sids -> Session]
        /\ \A s \in Sids : Len(sess'[s].outbox) <= OutboxDepth
    BY SMTT(40), <2>3, BlankTyped
  <2>5. \A s \in live \cap live' : sess'[s] = sess[s]
    BY SMTT(40), <2>3
  <2>6. /\ owner' \in [Sids -> Conns \cup {NoConn}]
        /\ signal' \in [Sids -> BOOLEAN]
        /\ \A x \in live' \cap Sids : signal'[x] = signal[x]
    BY Zenon, <1>3, <2>2
  <2> QED
    BY Zenon, <2>1, <2>4, <2>5, <2>6
<1> HIDE DEF SharedOK, SidsOK
<1> QED
  BY Zenon, <1>4, <1>5, <1>6, <1>7, <1>8 DEF Connects

(* A connection past the flush has an empty outbox or a raised signal. *)
Served(c) ==
  pc[c] \in {"check", "retryWrite", "wait"} /\ sess[sid[c]].outbox # <<>>
    => signal[sid[c]]

(* Work on a session keeps the clients of all others, signals what it       *)
(* pushes to them, and removes at most its own session, in its last step.   *)
LEMMA WorksTyped ==
  ASSUME PsTypeOK, SidsOK, SharedOK, NEW c \in Conns, Works(c)
  PROVE  /\ SharedOK'
         /\ \A s \in Sids : s # sid[c] \/ pc'[c] # "close" =>
              sess'[s].client = sess[s].client
         /\ \A s \in Sids \ {sid[c]} :
              \/ sess'[s].outbox = sess[s].outbox /\ signal'[s] = signal[s]
              \/ signal'[s] = TRUE
         /\ live' = IF pc'[c] = "close" THEN live \ {sid[c]} ELSE live
         /\ Present(c) /\ Served(c) => Served(c)'
<1> DEFINE Goal ==
         /\ SharedOK'
         /\ \A s \in Sids : s # sid[c] \/ pc'[c] # "close" =>
              sess'[s].client = sess[s].client
         /\ \A s \in Sids \ {sid[c]} :
              \/ sess'[s].outbox = sess[s].outbox /\ signal'[s] = signal[s]
              \/ signal'[s] = TRUE
         /\ live' = IF pc'[c] = "close" THEN live \ {sid[c]} ELSE live
         /\ Present(c) /\ Served(c) => Served(c)'
<1> SUFFICES Goal
  BY Zenon
<1>1. /\ sid' = sid /\ sid[c] \in Sids /\ pc \in [Conns -> PCs]
      /\ sess \in [Sids -> Session] /\ signal \in [Sids -> BOOLEAN]
      /\ sess[sid[c]] \in Session
  BY ZenonT(40), WorksShape DEF SidsOK, SharedOK, Working
<1>2. ASSUME UNCHANGED <<signal, retained, published, cmds, deliveries, owner, live>>,
             pc'[c] # "close", NEW r \in Session, sess' = [sess EXCEPT ![sid[c]] = r],
             r.client = sess[sid[c]].client, Len(r.outbox) <= OutboxDepth,
             \/ r.outbox = <<>>
             \/ pc'[c] \notin {"check", "retryWrite", "wait"}
      PROVE  Goal
  BY Zenon, <1>1, <1>2 DEF SharedOK, Served
<1>3. CASE Flush(c)
  <2> DEFINE x == sess[sid[c]]
  <2>0. x \in Session /\ Len(x.outbox) <= OutboxDepth /\ x.outbox \in Seq(Frame)
        /\ 0 \in 0..DropsCap
    <3>1. x \in Session /\ Len(x.outbox) <= OutboxDepth
      BY Zenon, <1>1 DEF SharedOK
    <3>2. x.outbox \in Seq(Frame)
      BY Zenon, <3>1 DEF Session
    <3>3. 0 \in 0..DropsCap
      BY BrokerConstantsOK
    <3> QED
      BY <3>1, <3>2, <3>3
  <2>1. /\ UNCHANGED <<signal, retained, published, cmds, deliveries, owner, live>>
    BY <1>3 DEF Flush, psVars
  <2>2. CASE Goto(c, "flush", "check") /\ Present(c) /\ x.outbox = <<>>
             /\ sess' = [sess EXCEPT ![sid[c]].drops = 0]
    <3> DEFINE r == [x EXCEPT !.drops = 0]
    <3>1. r \in Session /\ r.client = x.client /\ r.outbox = x.outbox
      BY <2>0 DEF Session
    <3>2. sess' = [sess EXCEPT ![sid[c]] = r] /\ pc'[c] # "close"
      BY <1>1, <2>2 DEF Goto
    <3> HIDE DEF r
    <3> QED
      BY Zenon, <1>2, <2>0, <2>1, <2>2, <3>1, <3>2
  <2>3. CASE Goto(c, "flush", "flushWrite") /\ x.outbox # <<>>
             /\ sess' = [sess EXCEPT ![sid[c]].outbox = Tail(@)]
    <3> DEFINE r == [x EXCEPT !.outbox = Tail(@)]
    <3>1. Tail(x.outbox) \in Seq(Frame) /\ Len(Tail(x.outbox)) <= OutboxDepth
      BY <2>0, <2>3, BrokerConstantsOK
    <3>2. r \in Session /\ r.client = x.client /\ r.outbox = Tail(x.outbox)
      BY ZenonT(40), <2>0, <3>1 DEF Session
    <3>3. /\ sess' = [sess EXCEPT ![sid[c]] = r]
          /\ pc'[c] \notin {"close", "check", "retryWrite", "wait"}
      BY <1>1, <2>3 DEF Goto
    <3> HIDE DEF r
    <3> QED
      BY Zenon, <1>2, <2>1, <3>1, <3>2, <3>3
  <2>4. CASE Goto(c, "flush", "check") /\ ~Present(c) /\ UNCHANGED sess
    BY ZenonT(40), <1>1, <2>1, <2>4 DEF Goto, SharedOK
  <2> QED
    BY Zenon, <1>3, <2>2, <2>3, <2>4 DEF Flush
<1>4. ASSUME UNCHANGED <<sharedVars, deliveries, owner, live>>, pc'[c] # "close",
             pc'[c] \in {"check", "retryWrite", "wait"} =>
               pc[c] \in {"check", "retryWrite", "wait"}
      PROVE  Goal
  BY Zenon, <1>1, <1>4 DEF SharedOK, Served, sharedVars
<1>5. CASE CheckEnds(c) \/ CheckPasses(c) \/ CheckRetries(c) \/ RetryWrite(c)
  <2>1. UNCHANGED <<sharedVars, deliveries, owner, live>>
    BY Zenon, <1>5
       DEF CheckEnds, CheckPasses, CheckRetries, RetryWrite, RetryBegin, RetrySent,
                psVars
  <2>2. pc'[c] \in {"lwt", "wait", "retryWrite", "check"} /\ pc[c] \in {"check", "retryWrite"}
    BY Zenon, <1>1, <1>5 DEF CheckEnds, CheckPasses, CheckRetries, RetryWrite, Goto
  <2> QED
    BY Zenon, <1>4, <2>1, <2>2
<1>6. CASE WakeBySignal(c)
  <2>1. /\ UNCHANGED <<sess, retained, published, cmds, deliveries, owner, live>>
        /\ signal' = [signal EXCEPT ![sid[c]] = FALSE] /\ pc'[c] = "flush"
    BY Zenon, <1>1, <1>6 DEF WakeBySignal, Goto, psVars
  <2> QED
    BY ZenonT(40), <1>1, <2>1 DEF SharedOK, Served
<1>7. CASE CleanupWill(c)
  <2>1. /\ UNCHANGED <<sess, signal, published, cmds, owner, live>>
        /\ pc'[c] \in {"remove", "lwtPush"}
    BY ZenonT(40), <1>1, <1>7 DEF CleanupWill, Goto, psVars
  <2>2. CASE UNCHANGED <<retained, deliveries>>
    BY ZenonT(40), <1>1, <2>1, <2>2 DEF SharedOK, Served
  <2>3. CASE Present(c) /\ sess[sid[c]].lwt # NoLwt
    <3> DEFINE will == sess[sid[c]].lwt
               full == RetainFails(will.topic, will.retain, TRUE)
               to == IF full THEN {} ELSE WillTargets(sid[c])
    <3>1. /\ retained' = IF full THEN retained ELSE Retain(will.topic, will.retain)
          /\ deliveries' = [deliveries EXCEPT ![c] = Recorded(to, will)]
      BY ZenonT(40), <1>7, <2>3 DEF CleanupWill
    <3>2. will \in Wills
      BY Zenon, <1>1, <2>3 DEF Session
    <3>3. will.topic \in Topics /\ will.retain \in {"none", "set", "clear"}
      BY Zenon, <3>2, BrokerConstantsOK
    <3>4. /\ retained' \subseteq Topics /\ IsFiniteSet(retained')
          /\ Cardinality(retained') <= MaxRetained
      BY ZenonT(40), <3>1, <3>3, RetainBounded DEF SharedOK
    <3>5. WillTargets(sid[c]) \subseteq Sids \X QoSLevels
      <4>1. ASSUME NEW u \in Subscribers(will.topic)
            PROVE  u \in Sids /\ sess[u].subs[will.topic] \in QoSLevels
        <5>1. u \in Sids /\ sess[u].subs[will.topic] # NoSub
          BY Zenon DEF Subscribers, SidsOK
        <5>2. sess[u] \in Session
          BY Zenon, <1>1, <5>1
        <5>3. sess[u].subs \in [Topics -> QoSLevels \cup {NoSub}]
          BY Zenon, <5>2 DEF Session
        <5> QED
          BY ZenonT(40), <3>3, <5>1, <5>3
      <4>2. \A u \in Sids, q \in QoSLevels : <<u, q>> \in Sids \X QoSLevels
        OBVIOUS
      <4>3. ASSUME NEW d \in WillTargets(sid[c]) PROVE d \in Sids \X QoSLevels
        <5>1. PICK u \in Subscribers(will.topic) : d = <<u, sess[u].subs[will.topic]>>
          BY Zenon DEF WillTargets
        <5> QED
          BY Zenon, <4>1, <4>2, <5>1
      <4> QED
        BY Zenon, <4>3
    <3>6. Recorded(to, will) \subseteq Sids \X QoSLevels
      BY Zenon, <3>5 DEF Recorded
    <3>7. deliveries' \in [Conns -> SUBSET (Sids \X QoSLevels)]
      BY ZenonT(40), <3>1, <3>6 DEF SharedOK
    <3> QED
      BY Zenon, <1>1, <2>1, <3>4, <3>7 DEF SharedOK, Served
  <2> QED
    BY Zenon, <1>7, <2>2, <2>3 DEF CleanupWill
<1>8. CASE CleanupPush(c)
  <2>1. Pushed
    BY SMTT(40), <1>8, WillPushes
  <2>2. /\ UNCHANGED <<published, cmds, owner, retained, live>>
        /\ deliveries' = [deliveries EXCEPT ![c] = {}] /\ pc'[c] = "remove"
    BY SMTT(40), <1>1, <1>8 DEF CleanupPush, Goto, psVars
  <2>3. deliveries' \in [Conns -> SUBSET (Sids \X QoSLevels)]
    BY SMTT(40), <2>2 DEF SharedOK
  <2>4. SharedOK'
    BY Zenon, <2>1, <2>2, <2>3, PushesTyped DEF SharedOK
  <2> QED
    BY Zenon, <2>1, <2>2, <2>4 DEF Pushed, Served
<1>9. CASE CleanupRemove(c)
  <2>1. /\ UNCHANGED <<published, cmds, owner, retained, deliveries>>
        /\ sess' = [sess EXCEPT ![sid[c]] = Blank]
        /\ signal' = [signal EXCEPT ![sid[c]] = FALSE] /\ pc'[c] = "close"
        /\ live' = live \ {sid[c]}
    BY Zenon, <1>1, <1>9 DEF CleanupRemove, Goto, Present, RemoveSession, psVars
  <2>2. SharedOK'
    BY Zenon, <1>1, <2>1, BlankTyped DEF SharedOK
  <2> QED
    BY ZenonT(40), <1>1, <2>1, <2>2 DEF Served
<1>10. CASE \E pid \in 1..PidMax : PubackPacket(c, pid)
  <2>1. UNCHANGED <<sharedVars, deliveries, owner, live>> /\ pc'[c] = "flush"
    BY Zenon, <1>1, <1>10 DEF PubackPacket, Goto, Puback
  <2> QED
    BY Zenon, <1>4, <2>1
<1>11. CASE \/ \E t \in Topics, q \in QoSLevels : Subscribe(c, t, q)
            \/ \E t \in Topics : Unsubscribe(c, t)
  <2>1. /\ UNCHANGED <<signal, retained, published, cmds, deliveries, owner, live>>
        /\ pc'[c] = "reply"
    BY ZenonT(40), <1>1, <1>11 DEF Subscribe, Unsubscribe, Goto, psVars
  <2>2. CASE UNCHANGED sess
    BY Zenon, <1>4, <2>1, <2>2 DEF sharedVars
  <2>3. ASSUME NEW t \in Topics, NEW q \in QoSLevels \cup {NoSub},
               sess' = [sess EXCEPT ![sid[c]].subs[t] = q]
        PROVE  Goal
    <3> DEFINE x == sess[sid[c]]
               r == [x EXCEPT !.subs[t] = q]
    <3>1. r \in Session /\ r.client = x.client /\ r.outbox = x.outbox
      BY Zenon, <1>1 DEF Session
    <3>2. sess' = [sess EXCEPT ![sid[c]] = r] /\ Len(x.outbox) <= OutboxDepth
      BY Zenon, <1>1, <2>3 DEF SharedOK
    <3> HIDE DEF r
    <3> QED
      BY Zenon, <1>2, <2>1, <3>1, <3>2
  <2> QED
    BY Zenon, <1>11, <2>2, <2>3 DEF Subscribe, Unsubscribe
<1>12. ASSUME NEW t \in Topics, NEW q \in QoSLevels, NEW op \in Retains, NEW m \in Msgs,
              NEW size \in Sizes, NEW storable \in Storables,
              Publish(c, t, q, op, m, size, storable)
       PROVE  Goal
  <2>1. SharedOK' /\ Pushed
    BY Zenon, <1>12, PublishTyped
  <2>2. live' = live
    BY Zenon, <1>12
       DEF Publish, Fanout, Route, RouteUntracked, RouteUnstorable, RouteTracked
  <2>3. pc'[c] \in {"lwt", "reply", "flush"}
    BY Zenon, <1>1, <1>12 DEF Publish, Acknowledge, Goto
  <2> QED
    BY Zenon, <2>1, <2>2, <2>3 DEF Pushed, Served
<1> HIDE DEF Goal
<1> QED
  BY SMTT(40), <1>3, <1>5, <1>6, <1>7, <1>8, <1>9, <1>10, <1>11, <1>12 DEF Works

(* Steps that only move a connection leave what is shared alone; Close is   *)
(* the one that gives a slot's ownership up.                                *)
LEMMA MovesTyped ==
  ASSUME SidsOK, SharedOK, NEW c \in Conns, Moves(c)
  PROVE  SharedOK'
<1>1. UNCHANGED <<sharedVars, deliveries>>
  BY Zenon, MovesShape
<1>2. owner' \in [Sids -> Conns \cup {NoConn}]
  BY Zenon DEF SharedOK, Moves, HelloFails, Connack, Reject, Close, FlushWrite, WakeByTimer,
         Reply, ReadFails, Disconnect, PacketWithoutSession, Ping, Dial, PublishLimited,
         PublishNotRetained, Leave
<1> QED
  BY ZenonT(40), <1>1, <1>2 DEF SharedOK, sharedVars

(* Every step keeps the types of the shared state. *)
LEMMA SharedStep ==
  ASSUME PsTypeOK, SidsOK, SharedOK, [BrokerNext]_brokerVars
  PROVE  SharedOK'
<1>1. CASE \E c \in Conns : Moves(c) \/ Works(c) \/ Connects(c)
  BY Zenon, <1>1, MovesTyped, WorksTyped, ConnectsTyped
<1>2. CASE \/ UNCHANGED brokerVars \/ \E s \in Sids : RetryTimeout(s)
           \/ TakeCommand
  <2>1. /\ UNCHANGED <<sess, signal, retained, published, deliveries, owner>>
        /\ cmds' = cmds \/ (cmds > 0 /\ cmds' = cmds - 1)
    BY Zenon, <1>2 DEF brokerVars, RetryTimeout, TakeCommand, sharedVars, connVars
  <2>2. cmds' \in 0..InboundN
    BY <2>1, BrokerConstantsOK DEF SharedOK
  <2> QED
    BY Zenon, <2>1, <2>2 DEF SharedOK
<1>3. CASE \E t \in Topics, q \in QoSLevels, op \in Retains, m \in Msgs, size \in Sizes :
             OutboundPublish(t, q, op, m, size)
  BY ZenonT(40), <1>3, PublishTyped
<1> QED
  BY <1>1, <1>2, <1>3, StepKinds DEF Control
-----------------------------------------------------------------------------
(* Who is in a retry write holds the lock, and the other way round. *)
LockOK ==
  /\ lock \in Conns \cup {NoConn} /\ retrySlot \in Slots \cup {0}
  /\ \A c \in Conns : pc[c] = "retryWrite" => lock = c
  /\ RetryHoldsEntry

(* Every step keeps that. *)
LEMMA LockStep ==
  ASSUME PsTypeOK, SidsOK, LockOK, [BrokerNext]_brokerVars
  PROVE  LockOK'
<1>1. lock # NoConn =>
        /\ lock \in Conns /\ pc[lock] \in {"check", "retryWrite"} /\ sid[lock] \in live
        /\ pc[lock] = "retryWrite" =>
             \E e \in inflight[sid[lock]] :
               e.slot = retrySlot /\ e.due /\ e.retries \in 1..MaxRetries
  BY SMTT(40) DEF LockOK, RetryHoldsEntry
<1>2. ASSUME NEW c \in Conns, UNCHANGED <<lockVars, psVars>>,
             \A d \in Conns \ {c} : pc'[d] = pc[d] /\ sid'[d] = sid[d],
             pc[c] \notin {"check", "retryWrite"}, pc'[c] # "retryWrite"
      PROVE  LockOK'
  BY Zenon, <1>1, <1>2 DEF LockOK, RetryHoldsEntry, lockVars, psVars
<1>3. ASSUME LockFree, UNCHANGED lockVars,
             \A c \in Conns : pc'[c] = "retryWrite" => pc[c] = "retryWrite"
      PROVE  LockOK'
  BY Zenon, <1>3, BrokerConstantsOK DEF LockOK, LockFree, RetryHoldsEntry, lockVars
<1>4. ASSUME NEW c \in Conns, Moves(c) PROVE LockOK'
  BY ZenonT(40), <1>2, <1>4, MovesShape
<1>5. ASSUME NEW c \in Conns, Connects(c) PROVE LockOK'
  BY Zenon, <1>3, <1>5, ConnectsShape
<1>6. ASSUME NEW c \in Conns, Works(c) PROVE LockOK'
  <2>1. /\ sid' = sid /\ \A d \in Conns \ {c} : pc'[d] = pc[d]
        /\ pc \in [Conns -> PCs]
    BY SMTT(40), <1>6, WorksShape DEF SidsOK
  <2>2. CASE WakeBySignal(c)
    <3>1. UNCHANGED <<lockVars, psVars>> /\ pc[c] = "wait" /\ pc'[c] = "flush"
      BY SMTT(40), <2>1, <2>2 DEF WakeBySignal, Goto
    <3> QED
      BY SMTT(40), <1>2, <2>1, <3>1
  <2>3. CASE CheckEnds(c) \/ CheckPasses(c)
    <3>1. /\ lock \in {NoConn, c} /\ lock' = NoConn /\ retrySlot' = retrySlot
          /\ pc[c] = "check" /\ pc'[c] \in {"lwt", "wait"}
      BY ZenonT(40), <2>1, <2>3 DEF CheckEnds, CheckPasses, Goto
    <3> QED
      BY Zenon, <2>1, <3>1, BrokerConstantsOK DEF LockOK, RetryHoldsEntry
  <2>4. CASE CheckRetries(c)
    <3>1. PICK e \in Due(sid[c]) :
             /\ RetryBegin(sid[c], e)
             /\ \/ pc'[c] = "lwt" /\ lock' = NoConn /\ retrySlot' = retrySlot
                \/ /\ pc'[c] = "retryWrite" /\ lock' = c /\ retrySlot' = e.slot
                   /\ e.retries < MaxRetries
      BY Zenon, <2>1, <2>4 DEF CheckRetries, Goto
    <3>2. /\ lock \in {NoConn, c} /\ pc[c] = "check" /\ sid[c] \in live /\ sid[c] \in Sids
      BY Zenon, <2>4 DEF CheckRetries, Ended, Present, SidsOK
    <3>3. e \in InflightEntry /\ e.due
      BY Zenon, <3>1, <3>2 DEF Due, PsTypeOK
    <3> DEFINE f == [e EXCEPT !.retries = IF @ > MaxRetries THEN @ ELSE @ + 1]
    <3>4. live' = live /\ f \in inflight'[sid[c]]
      BY <3>1, <3>2 DEF RetryBegin, Replace, PsTypeOK
    <3>5. f.slot = e.slot /\ f.due /\ e.slot \in Slots
      BY Zenon, <3>3 DEF InflightEntry
    <3>a. ASSUME e.retries < MaxRetries PROVE f.retries \in 1..MaxRetries
      <4>1. e.retries \in Nat /\ MaxRetries \in Nat
        BY <3>3, ConstantsOK DEF InflightEntry
      <4>2. f.retries = IF e.retries > MaxRetries THEN e.retries ELSE e.retries + 1
        BY Zenon, <3>3 DEF InflightEntry
      <4> QED
        BY <3>a, <4>1, <4>2
    <3> HIDE DEF f
    <3>6. CASE pc'[c] = "lwt" /\ lock' = NoConn /\ retrySlot' = retrySlot
      BY ZenonT(40), <2>1, <3>2, <3>6, BrokerConstantsOK DEF LockOK, RetryHoldsEntry
    <3>7. CASE /\ pc'[c] = "retryWrite" /\ lock' = c /\ retrySlot' = e.slot
               /\ e.retries < MaxRetries
      <4>1. RetryHoldsEntry'
        BY Zenon, <2>1, <3>2, <3>4, <3>5, <3>7, <3>a DEF RetryHoldsEntry
      <4>2. \A d \in Conns : pc'[d] = "retryWrite" => lock' = d
        BY Zenon, <2>1, <3>2, <3>7, BrokerConstantsOK DEF LockOK
      <4> QED
        BY Zenon, <3>5, <3>7, <4>1, <4>2 DEF LockOK
    <3> QED
      BY ZenonT(40), <3>1, <3>6, <3>7
  <2>5. CASE RetryWrite(c)
    <3>1. pc[c] = "retryWrite" /\ lock = c /\ sid[c] \in live /\ retrySlot' = 0
      BY Zenon, <1>1, <2>5, BrokerConstantsOK DEF RetryWrite, Goto, LockOK
    <3>2. \/ pc'[c] = "check" /\ lock' = lock /\ live' = live
          \/ pc'[c] = "lwt" /\ lock' = NoConn
      BY Zenon, <2>1, <2>5 DEF RetryWrite, Goto, RetrySent
    <3> QED
      BY ZenonT(40), <2>1, <3>1, <3>2, BrokerConstantsOK DEF LockOK, RetryHoldsEntry
  <2>6. CASE \/ Flush(c) \/ CleanupWill(c) \/ CleanupPush(c) \/ CleanupRemove(c)
             \/ \E pid \in 1..PidMax : PubackPacket(c, pid)
             \/ \E t \in Topics, q \in QoSLevels : Subscribe(c, t, q)
             \/ \E t \in Topics : Unsubscribe(c, t)
    <3>1. LockFree /\ UNCHANGED lockVars /\ pc'[c] # "retryWrite"
      BY Zenon, <2>1, <2>6
         DEF Flush, CleanupWill, CleanupPush, CleanupRemove, PubackPacket,
                        Subscribe, Unsubscribe, Goto
    <3> QED
      BY SMTT(40), <1>3, <2>1, <3>1
  <2>7. ASSUME NEW t \in Topics, NEW q \in QoSLevels, NEW op \in Retains, NEW m \in Msgs,
               NEW size \in Sizes, NEW storable \in Storables,
               Publish(c, t, q, op, m, size, storable)
        PROVE  LockOK'
    <3>1. LockFree /\ UNCHANGED lockVars /\ pc'[c] # "retryWrite"
      BY ZenonT(40), <2>1, <2>7 DEF Publish, Acknowledge, Goto
    <3> QED
      BY SMTT(40), <1>3, <2>1, <3>1
  <2> QED
    BY SMTT(40), <1>6, <2>2, <2>3, <2>4, <2>5, <2>6, <2>7 DEF Works
<1>7. CASE Control \/ \E s \in Sids : RetryTimeout(s)
  <2>1. CASE LockFree /\ UNCHANGED <<lockVars, pc>>
    BY <1>3, <2>1
  <2>2. CASE TakeCommand
    BY ZenonT(40), <2>2
       DEF TakeCommand, LockOK, RetryHoldsEntry, connVars, lockVars, psVars
  <2> QED
    BY Zenon, <1>7, <2>1, <2>2 DEF Control, OutboundPublish, RetryTimeout, connVars
<1>8. CASE UNCHANGED brokerVars
  BY Zenon, <1>8 DEF brokerVars, LockOK, RetryHoldsEntry, connVars, lockVars, psVars
<1> QED
  BY SMTT(40), <1>4, <1>5, <1>6, <1>7, <1>8, StepKinds

(* Every step keeps one session per client. *)
LEMMA OneSessionStep ==
  ASSUME PsTypeOK, SidsOK, SharedOK, OneSessionPerClient, [BrokerNext]_brokerVars
  PROVE  OneSessionPerClient'
<1>1. ASSUME live' \subseteq live, \A s \in live' : sess'[s].client = sess[s].client
      PROVE  OneSessionPerClient'
  BY <1>1 DEF OneSessionPerClient
<1>2. ASSUME NEW c \in Conns, Moves(c) PROVE OneSessionPerClient'
  BY ZenonT(40), <1>1, <1>2, MovesShape DEF sharedVars, psVars
<1>3. ASSUME NEW c \in Conns, Works(c) PROVE OneSessionPerClient'
  <2>1. /\ live' = IF pc'[c] = "close" THEN live \ {sid[c]} ELSE live
        /\ \A s \in Sids : s # sid[c] \/ pc'[c] # "close" =>
             sess'[s].client = sess[s].client
    BY Zenon, <1>3, WorksTyped
  <2> QED
    BY Zenon, <1>1, <2>1 DEF SidsOK
<1>4. ASSUME NEW c \in Conns, Connects(c) PROVE OneSessionPerClient'
  <2> USE DEF SidsOK, SharedOK
  <2>1. CASE ConnectRefused(c)
    BY Zenon, <1>1, <2>1 DEF ConnectRefused, psVars
  <2>2. ASSUME NEW will \in Wills \cup {NoLwt}, ConnectResume(c, will)
        PROVE  OneSessionPerClient'
    <3>1. live' = live
      BY <2>2 DEF ConnectResume, psVars
    <3>2. PICK s \in Sids :
            sess' = [sess EXCEPT ![s].lwt = will, ![s].quarantined = FALSE, ![s].drops = 0]
      BY Zenon, <2>2 DEF ConnectResume
    <3>3. \A x \in Sids : sess'[x].client = sess[x].client
      <4>1. sess'[s] = [sess[s] EXCEPT !.lwt = will, !.quarantined = FALSE, !.drops = 0]
        BY <3>2
      <4>2. sess[s] \in Session
        BY Zenon
      <4>3. sess'[s].client = sess[s].client
        BY SMTT(40), <4>1, <4>2 DEF Session
      <4> QED
        BY <3>2, <4>3
    <3> QED
      BY Zenon, <1>1, <3>1, <3>3
  <2>3. ASSUME NEW will \in Wills \cup {NoLwt}, ConnectNew(c, will)
        PROVE  OneSessionPerClient'
    <3>1. CASE UNCHANGED <<sess, live>>
      BY Zenon, <1>1, <3>1
    <3>2. ASSUME NEW s \in Sids, InsertSession(s), SessionsOf(who[c]) = {},
                 sess' = [sess EXCEPT ![s] = NewSession(who[c], will)]
          PROVE  OneSessionPerClient'
      <4>1. sess'[s].client = who[c]
        BY Zenon, <3>2, BlankTyped
      <4>2. \A x \in live : x # s /\ sess'[x] = sess[x] /\ sess[x].client # who[c]
        BY Zenon, <3>2 DEF InsertSession, SessionsOf
      <4> QED
        BY <3>2, <4>1, <4>2 DEF InsertSession, OneSessionPerClient
    <3> QED
      BY Zenon, <2>3, <3>1, <3>2 DEF ConnectNew, psVars
  <2>4. ASSUME NEW will \in Wills \cup {NoLwt}, ConnectReplace(c, will)
        PROVE  OneSessionPerClient'
    <3>1. PICK s \in Sids, t \in Sids :
            /\ IsSessionOf(s, who[c]) /\ ReplaceSession(s, t)
            /\ sess' = [[sess EXCEPT ![s] = Blank] EXCEPT ![t] = NewSession(who[c], will)]
      BY Zenon, <2>4 DEF ConnectReplace
    <3>2. sess'[t].client = who[c] /\ live' = (live \ {s}) \cup {t}
      BY Zenon, <3>1, BlankTyped DEF ReplaceSession
    <3>3. s \in live /\ sess[s].client = who[c]
      BY Zenon, <3>1 DEF IsSessionOf, SessionsOf
    <3>4. \A x \in live \ {s} : x # t => sess'[x] = sess[x] /\ sess[x].client # who[c]
      BY Zenon, <3>1, <3>3 DEF OneSessionPerClient
    <3> QED
      BY <3>2, <3>4 DEF OneSessionPerClient
  <2>5. ASSUME NEW clean \in BOOLEAN, ConnectBadWill(c, clean)
        PROVE  OneSessionPerClient'
    <3>1. \/ UNCHANGED <<sess, live>>
          \/ \E s \in Sids : sess' = [sess EXCEPT ![s] = Blank] /\ live' = live \ {s}
      BY Zenon, <2>5 DEF ConnectBadWill, RemoveSession, psVars
    <3> QED
      BY Zenon, <1>1, <3>1
  <2> QED
    BY Zenon, <1>4, <2>1, <2>2, <2>3, <2>4, <2>5 DEF Connects
<1>5. CASE \/ UNCHANGED brokerVars \/ TakeCommand \/ \E s \in Sids : RetryTimeout(s)
  BY ZenonT(40), <1>1, <1>5
     DEF brokerVars, sharedVars, psVars, TakeCommand, RetryTimeout, Expire
<1>6. ASSUME NEW t \in Topics, NEW q \in QoSLevels, NEW op \in Retains, NEW m \in Msgs,
             NEW size \in Sizes, OutboundPublish(t, q, op, m, size)
      PROVE  OneSessionPerClient'
  <2>1. live' = live
    BY Zenon, <1>6
       DEF OutboundPublish, Fanout, Route, RouteUntracked, RouteUnstorable, RouteTracked
  <2>2. Pushed
    BY ZenonT(40), <1>6, PublishTyped
  <2> QED
    BY Zenon, <1>1, <2>1, <2>2 DEF Pushed, SidsOK
<1> QED
  BY ZenonT(40), <1>2, <1>3, <1>4, <1>5, <1>6, StepKinds DEF Control
-----------------------------------------------------------------------------
(* The inductive invariant, whether or not clients dial twice. *)
BrokerInv == PsInv /\ SidsOK /\ SharedOK /\ LockOK /\ OneSessionPerClient

(* It holds initially. *)
LEMMA BrokerInitInv == BrokerInit => BrokerInv
<1> SUFFICES ASSUME BrokerInit PROVE BrokerInv
  BY SMTT(40)
<1>1. PsInv /\ live = {}
  BY Zenon, PsInitInv DEF BrokerInit, PsInit
<1>2. SharedOK
  <2>1. /\ Blank \in Session /\ Len(Blank.outbox) <= OutboxDepth
        /\ IsFiniteSet({}) /\ Cardinality({}) = 0
    BY Zenon, BlankTyped, FS_EmptySet
  <2>2. /\ OutboxDepth \in Nat /\ MaxRetained \in Nat /\ InboundN \in Nat
        /\ MaxSessions \in Nat
    BY ZenonT(40), BrokerConstantsOK, ConstantsOK
  <2> QED
    BY <2>1, <2>2 DEF BrokerInit, SharedOK
<1>3. LockOK
  BY Zenon DEF BrokerInit, LockOK, RetryHoldsEntry
<1> QED
  BY SMTT(40), <1>1, <1>2, <1>3, SidsInit DEF BrokerInv, OneSessionPerClient

(* Every step keeps it. *)
LEMMA BrokerStepInv ==
  ASSUME BrokerInv, [BrokerNext]_brokerVars
  PROVE  BrokerInv'
<1> USE DEF BrokerInv
<1>1. PsTypeOK
  BY DEF PsInv
<1>2. PsInv'
  BY StoreStep, PsStepInv
<1>3. SidsOK'
  BY SidsStep
<1> QED
  BY SMTT(40), <1>1, <1>2, <1>3, SharedStep, LockStep, OneSessionStep

(* It holds throughout. *)
LEMMA BrokerInvariant == BrokerSpec => []BrokerInv
  BY BrokerInitInv, BrokerStepInv, PTL DEF BrokerSpec

(* Types and capacities: no outbox, retained store, will queue or command   *)
(* channel of the broker outgrows its fixed size.                           *)
THEOREM BrokerTypeCorrect == BrokerSpec => []BrokerTypeOK
<1>1. BrokerInv => BrokerTypeOK
  BY Zenon DEF BrokerInv, PsInv, SidsOK, SharedOK, LockOK, BrokerTypeOK
<1> QED
  BY <1>1, BrokerInvariant, PTL

(* prepare_connect never leaves two sessions for one client id, also when   *)
(* clients dial again while they are connected.                             *)
THEOREM OneSession == BrokerSpec => []OneSessionPerClient
<1>1. BrokerInv => OneSessionPerClient
  BY DEF BrokerInv
<1> QED
  BY <1>1, BrokerInvariant, PTL

(* The registry mutex is held across an await only by a connection whose    *)
(* session is in the registry and has the entry that is being written.      *)
THEOREM RetriesHoldEntries == BrokerSpec => []RetryHoldsEntry
<1>1. BrokerInv => RetryHoldsEntry
  BY DEF BrokerInv, LockOK
<1> QED
  BY <1>1, BrokerInvariant, PTL
-----------------------------------------------------------------------------
(* Connected clients are known and differ. *)
Distinct ==
  /\ \A c \in Conns : pc[c] # "idle" => who[c] \in Clients
  /\ \A c, d \in Conns : who[c] \in Clients /\ who[c] = who[d] => c = d

(* A connection at work has the session of its client, and its signal       *)
(* covers what it has not flushed.                                          *)
HasSession(c) ==
  pc[c] \in Working =>
    sid[c] \in live /\ sess[sid[c]].client = who[c] /\ Served(c)

(* What holds when no client dials twice. *)
Alone == Distinct /\ \A c \in Conns : HasSession(c)

(* A CONNECT keeps the sessions of other clients, and when it is accepted   *)
(* the connection has a session of its client.                              *)
LEMMA ConnectsKeeps ==
  ASSUME SidsOK, SharedOK, NEW c \in Conns, Connects(c)
  PROVE  /\ \A s \in live : sess[s].client # who[c] => s \in live'
         /\ pc'[c] = "connack" =>
              sid'[c] \in live' /\ sess'[sid'[c]].client = who[c]
<1> DEFINE Goal ==
         /\ \A s \in live : sess[s].client # who[c] => s \in live'
         /\ pc'[c] = "connack" =>
              sid'[c] \in live' /\ sess'[sid'[c]].client = who[c]
<1> SUFFICES Goal
  BY Zenon
<1> USE DEF SidsOK, SharedOK
<1>1. ASSUME NEW s \in Sids, NEW S, Accept(c, s, S) PROVE sid'[c] = s
  BY Zenon, <1>1 DEF Accept
<1>2. ASSUME NEW S, Leave(c, S) PROVE pc'[c] # "connack"
  BY Zenon, <1>2 DEF Leave
<1>3. ASSUME NEW s, IsSessionOf(s, who[c]) PROVE s \in live /\ sess[s].client = who[c]
  BY Zenon, <1>3 DEF IsSessionOf, SessionsOf
<1>4. CASE ConnectRefused(c)
  BY Zenon, <1>4 DEF ConnectRefused, Goto, psVars
<1>5. ASSUME NEW will \in Wills \cup {NoLwt}, ConnectResume(c, will)
      PROVE  Goal
  <2>1. PICK s \in Sids :
          /\ IsSessionOf(s, who[c]) /\ Accept(c, s, {})
          /\ sess' = [sess EXCEPT ![s].lwt = will, ![s].quarantined = FALSE, ![s].drops = 0]
    BY Zenon, <1>5 DEF ConnectResume
  <2>2. live' = live
    BY <1>5 DEF ConnectResume, psVars
  <2>3. sess'[s] = [sess[s] EXCEPT !.lwt = will, !.quarantined = FALSE, !.drops = 0]
    BY <2>1
  <2>4. sess[s] \in Session
    OBVIOUS
  <2>5. sess'[s].client = sess[s].client
    BY ZenonT(40), <2>3, <2>4 DEF Session
  <2> QED
    BY SMTT(40), <1>1, <1>3, <2>1, <2>2, <2>5
<1>6. ASSUME NEW will \in Wills \cup {NoLwt}, ConnectNew(c, will)
      PROVE  Goal
  <2>1. CASE live' = live /\ pc'[c] = "reject"
    BY ZenonT(40), <2>1
  <2>2. ASSUME NEW s \in Sids, InsertSession(s), Accept(c, s, {}),
               sess' = [sess EXCEPT ![s] = NewSession(who[c], will)]
        PROVE  Goal
    <3>1. sess'[s].client = who[c]
      BY ZenonT(40), <2>2, BlankTyped
    <3>2. live' = live \cup {s} /\ sid'[c] = s
      BY Zenon, <1>1, <2>2 DEF InsertSession
    <3> QED
      BY ZenonT(40), <3>1, <3>2
  <2> QED
    BY Zenon, <1>6, <2>1, <2>2 DEF ConnectNew, Goto, psVars
<1>7. ASSUME NEW will \in Wills \cup {NoLwt}, ConnectReplace(c, will)
      PROVE  Goal
  <2>1. PICK s \in Sids, t \in Sids :
          /\ IsSessionOf(s, who[c]) /\ ReplaceSession(s, t)
          /\ sess' = [[sess EXCEPT ![s] = Blank] EXCEPT ![t] = NewSession(who[c], will)]
          /\ Accept(c, t, {s}) \/ Leave(c, {s})
    BY ZenonT(40), <1>7 DEF ConnectReplace
  <2>2. sess'[t].client = who[c] /\ live' = (live \ {s}) \cup {t}
    BY Zenon, <2>1, BlankTyped DEF ReplaceSession
  <2> QED
    BY Zenon, <1>1, <1>2, <1>3, <2>1, <2>2
<1>8. ASSUME NEW clean \in BOOLEAN, ConnectBadWill(c, clean)
      PROVE  Goal
  <2>1. \/ live' = live
        \/ \E s \in Sids : IsSessionOf(s, who[c]) /\ live' = live \ {s}
    BY Zenon, <1>8 DEF ConnectBadWill, RemoveSession, psVars
  <2>2. pc'[c] # "connack"
    BY Zenon, <1>2, <1>8 DEF ConnectBadWill
  <2> QED
    BY Zenon, <1>3, <2>1, <2>2
<1> HIDE DEF Goal
<1> QED
  BY ZenonT(40), <1>4, <1>5, <1>6, <1>7, <1>8 DEF Connects, Goal

(* A connection keeps its session while others leave the session's client   *)
(* alone and signal what they put in its outbox.                            *)
LEMMA SessionKept ==
  ASSUME NEW d \in Conns, HasSession(d),
         pc'[d] = pc[d], sid'[d] = sid[d], who'[d] = who[d],
         pc[d] \in Working =>
           /\ sid[d] \in live' /\ sess'[sid[d]].client = sess[sid[d]].client
           /\ \/ /\ sess'[sid[d]].outbox = sess[sid[d]].outbox
                 /\ signal'[sid[d]] = signal[sid[d]]
              \/ signal'[sid[d]] = TRUE
  PROVE  HasSession(d)'
  BY Zenon DEF HasSession, Served

(* Every step keeps connections alone when no client dials twice. *)
LEMMA AloneStep ==
  ASSUME Takeover = FALSE, BrokerInv, Alone, [BrokerNext]_brokerVars
  PROVE  Alone'
<1>0. PsTypeOK /\ SidsOK /\ SharedOK
  BY ZenonT(40) DEF BrokerInv, PsInv
<1>a. /\ \A c \in Conns : HasSession(c)
      /\ \A c \in Conns : pc[c] # "idle" => who[c] \in Clients
      /\ \A c, d \in Conns : who[c] \in Clients /\ who[c] = who[d] => c = d
  BY Zenon DEF Alone, Distinct
<1>b. ASSUME NEW c \in Conns, HasSession(c)', \A d \in Conns \ {c} : HasSession(d)',
             Distinct'
      PROVE  Alone'
  <2>1. \A d \in Conns : HasSession(d)'
    BY <1>b
  <2> QED
    BY SMTT(40), <1>b, <2>1 DEF Alone
<1>1. ASSUME UNCHANGED <<pc, who, sid>>,
             \A s \in live : s \in live' /\ sess'[s].client = sess[s].client,
             \A s \in live : \/ sess'[s].outbox = sess[s].outbox /\ signal'[s] = signal[s]
                           \/ signal'[s] = TRUE
      PROVE  Alone'
  <2>1. Distinct'
    BY Zenon, <1>1, <1>a DEF Distinct
  <2>2. ASSUME NEW d \in Conns PROVE HasSession(d)'
    <3>1. HasSession(d) /\ pc'[d] = pc[d] /\ sid'[d] = sid[d] /\ who'[d] = who[d]
      BY Zenon, <1>1, <1>a
    <3>2. pc[d] \in Working => sid[d] \in live
      BY Zenon, <3>1 DEF HasSession
    <3> QED
      BY Zenon, <1>1, <3>1, <3>2, SessionKept
  <2> QED
    BY SMTT(40), <2>1, <2>2 DEF Alone
<1>2. ASSUME NEW c \in Conns, Moves(c) PROVE Alone'
  <2>1. /\ UNCHANGED <<live, sess, signal>>
        /\ \A d \in Conns \ {c} : pc'[d] = pc[d] /\ sid'[d] = sid[d] /\ who'[d] = who[d]
    BY Zenon, <1>0, <1>2, MovesShape DEF sharedVars, psVars
  <2>2. /\ pc'[c] \notin {"check", "retryWrite", "wait"}
        /\ pc'[c] \in Working => pc[c] \in Working /\ sid'[c] = sid[c] /\ who'[c] = who[c]
    BY Zenon, <1>0, <1>2, MovesShape
  <2>3. \/ pc[c] # "idle" /\ pc'[c] # "idle" /\ who'[c] = who[c]
        \/ pc'[c] = "idle" /\ who'[c] = NoClient
        \/ pc'[c] = "hello" /\ who'[c] \in Clients /\ \A d \in Conns : who[d] # who'[c]
    BY Zenon, <1>0, <1>2, MovesShape
  <2>4. Distinct'
    <3>1. NoClient \notin Clients
      BY BrokerConstantsOK
    <3>2. \A d \in Conns : pc'[d] # "idle" => who'[d] \in Clients
      BY Zenon, <1>a, <2>1, <2>3
    <3>3. ASSUME NEW d \in Conns \ {c}, who'[c] \in Clients PROVE who'[c] # who'[d]
      <4>1. who'[d] = who[d]
        BY Zenon, <2>1
      <4> QED
        BY Zenon, <1>a, <2>3, <3>1, <3>3, <4>1
    <3>4. ASSUME NEW d \in Conns, NEW e \in Conns, who'[d] \in Clients, who'[d] = who'[e]
          PROVE  d = e
      <4>1. CASE d = c \/ e = c
        BY Zenon, <3>3, <3>4, <4>1
      <4>2. CASE d # c /\ e # c
        BY Zenon, <1>a, <2>1, <3>4, <4>2
      <4> QED
        BY <4>1, <4>2
    <3> QED
      BY SMTT(40), <3>2, <3>4 DEF Distinct
  <2>5. ASSUME NEW d \in Conns \ {c} PROVE HasSession(d)'
    <3>1. HasSession(d) /\ pc'[d] = pc[d] /\ sid'[d] = sid[d] /\ who'[d] = who[d]
      BY Zenon, <1>a, <2>1
    <3>2. pc[d] \in Working => sid[d] \in live
      BY ZenonT(40), <3>1 DEF HasSession
    <3> QED
      BY Zenon, <2>1, <3>1, <3>2, SessionKept
  <2>6. HasSession(c)'
    <3>1. HasSession(c)
      BY <1>a
    <3> QED
      BY Zenon, <2>1, <2>2, <3>1 DEF HasSession, Served
  <2> QED
    BY SMTT(40), <1>b, <2>4, <2>5, <2>6
<1>3. ASSUME NEW c \in Conns, Works(c) PROVE Alone'
  <2>1. /\ UNCHANGED <<who, sid>> /\ \A d \in Conns \ {c} : pc'[d] = pc[d]
        /\ pc[c] \in Working /\ pc[c] # "idle" /\ sid[c] \in Sids
    BY Zenon, <1>0, <1>3, WorksShape DEF Working, Looping, Cleanup, SidsOK
  <2>2. /\ \A s \in Sids : s # sid[c] \/ pc'[c] # "close" =>
              sess'[s].client = sess[s].client
        /\ \A s \in Sids \ {sid[c]} :
              \/ sess'[s].outbox = sess[s].outbox /\ signal'[s] = signal[s]
              \/ signal'[s] = TRUE
        /\ live' = IF pc'[c] = "close" THEN live \ {sid[c]} ELSE live
        /\ Present(c) /\ Served(c) => Served(c)'
    BY Zenon, <1>0, <1>3, WorksTyped
  <2>3. sid[c] \in live /\ sess[sid[c]].client = who[c] /\ Served(c) /\ who[c] \in Clients
    BY ZenonT(40), <1>a, <2>1 DEF HasSession
  <2>4. HasSession(c)'
    <3>1. pc'[c] \in Working => pc'[c] # "close"
      BY DEF Working, Looping, Cleanup
    <3> QED
      BY Zenon, <2>1, <2>2, <2>3, <3>1 DEF Present, HasSession
  <2>5. ASSUME NEW d \in Conns \ {c} PROVE HasSession(d)'
    <3>1. HasSession(d) /\ pc'[d] = pc[d] /\ sid'[d] = sid[d] /\ who'[d] = who[d]
      BY Zenon, <1>a, <2>1
    <3>2. ASSUME pc[d] \in Working
          PROVE  sid[d] \in live /\ sid[d] # sid[c] /\ sid[d] \in Sids
      <4>1. sid[d] \in live /\ sess[sid[d]].client = who[d] /\ who[d] # who[c]
        BY Zenon, <1>a, <2>3, <3>1, <3>2 DEF HasSession
      <4> QED
        BY Zenon, <1>0, <2>3, <4>1 DEF SidsOK
    <3>3. pc[d] \in Working => sid[d] \in live'
      BY ZenonT(40), <2>2, <3>2
    <3> QED
      BY ZenonT(40), <2>2, <3>1, <3>2, <3>3, SessionKept
  <2>6. Distinct'
    BY Zenon, <1>a, <2>1, <2>3 DEF Distinct
  <2> QED
    BY SMTT(40), <1>b, <2>4, <2>5, <2>6
<1>4. ASSUME NEW c \in Conns, Connects(c) PROVE Alone'
  <2>1. /\ pc[c] = "hello"
        /\ \A d \in Conns \ {c} : pc'[d] = pc[d] /\ sid'[d] = sid[d] /\ who'[d] = who[d]
        /\ \/ pc'[c] = "reject" /\ who'[c] = who[c]
           \/ pc'[c] = "idle" /\ who'[c] = NoClient
           \/ pc'[c] = "connack" /\ sid'[c] \in Sids /\ who'[c] = who[c]
    BY Zenon, <1>0, <1>4, ConnectsShape
  <2>2. /\ \A s \in live : sess[s].client # who[c] => s \in live'
        /\ pc'[c] = "connack" => sid'[c] \in live' /\ sess'[sid'[c]].client = who[c]
    BY Zenon, <1>0, <1>4, ConnectsKeeps
  <2>3. \A s \in live \cap live' : sess[s].client # who[c] =>
          /\ sess'[s].client = sess[s].client /\ sess'[s].outbox = sess[s].outbox
          /\ pc'[c] # "connack" \/ s # sid'[c] => signal'[s] = signal[s]
    BY Zenon, <1>0, <1>4, ConnectsTyped
  <2>4. ASSUME NEW s \in live, sess[s].client # who[c]
        PROVE  /\ s \in live' /\ sess'[s].client = sess[s].client
               /\ sess'[s].outbox = sess[s].outbox /\ signal'[s] = signal[s]
    <3>1. s \in live' /\ sess'[s].client = sess[s].client /\ sess'[s].outbox = sess[s].outbox
      BY ZenonT(40), <2>2, <2>3, <2>4
    <3>2. pc'[c] # "connack" \/ s # sid'[c]
      BY Zenon, <2>2, <2>4, <3>1
    <3> QED
      BY ZenonT(40), <2>3, <2>4, <3>1, <3>2
  <2>5. ASSUME NEW d \in Conns \ {c} PROVE HasSession(d)'
    <3>1. HasSession(d) /\ pc'[d] = pc[d] /\ sid'[d] = sid[d] /\ who'[d] = who[d]
      BY Zenon, <1>a, <2>1
    <3>2. who[c] \in Clients /\ who[d] # who[c]
      BY Zenon, <1>a, <2>1
    <3>3. pc[d] \in Working => sid[d] \in live /\ sess[sid[d]].client # who[c]
      BY Zenon, <3>1, <3>2 DEF HasSession
    <3> QED
      BY Zenon, <2>4, <3>1, <3>3, SessionKept
  <2>6. HasSession(c)'
    BY ZenonT(40), <2>1, <2>2 DEF HasSession, Served, Working, Looping, Cleanup
  <2>7. Distinct'
    <3>1. who'[c] \in Clients => who'[c] = who[c]
      BY Zenon, <2>1, BrokerConstantsOK
    <3>2. \A d, e \in Conns : who'[d] \in Clients /\ who'[d] = who'[e] => d = e
      <4>1. ASSUME NEW d \in Conns, who'[d] \in Clients PROVE who'[d] = who[d]
        BY Zenon, <2>1, <3>1, <4>1
      <4>2. \A d, e \in Conns : who[d] \in Clients /\ who[d] = who[e] => d = e
        BY Zenon, <1>a
      <4> QED
        BY Zenon, <4>1, <4>2
    <3>3. \A d \in Conns : pc'[d] # "idle" => who'[d] \in Clients
      BY Zenon, <1>a, <2>1
    <3> QED
      BY Zenon, <3>2, <3>3 DEF Distinct
  <2> QED
    BY SMTT(40), <1>b, <2>5, <2>6, <2>7
<1>5. CASE \/ UNCHANGED brokerVars \/ TakeCommand \/ \E s \in Sids : RetryTimeout(s)
  <2>1. UNCHANGED <<pc, who, sid, sess, signal, live>>
    BY Zenon, <1>5
       DEF brokerVars, connVars, sharedVars, psVars, TakeCommand, RetryTimeout, Expire
  <2> QED
    BY Zenon, <1>1, <2>1
<1>6. ASSUME NEW t \in Topics, NEW q \in QoSLevels, NEW op \in Retains, NEW m \in Msgs,
             NEW size \in Sizes, OutboundPublish(t, q, op, m, size)
      PROVE  Alone'
  <2>1. live' = live /\ UNCHANGED <<pc, who, sid>>
    BY Zenon, <1>6
       DEF OutboundPublish, Fanout, Route, RouteUntracked, RouteUnstorable, RouteTracked,
           connVars
  <2>2. Pushed
    BY Zenon, <1>0, <1>6, PublishTyped
  <2> QED
    BY Zenon, <1>0, <1>1, <2>1, <2>2 DEF Pushed, SidsOK
<1> QED
  BY Zenon, <1>2, <1>3, <1>4, <1>5, <1>6, StepKinds DEF Control

(* Connections are alone throughout. *)
LEMMA AloneInvariant ==
  ASSUME Takeover = FALSE
  PROVE  BrokerSpec => []Alone
<1>1. BrokerInit => Alone
  BY Zenon, BrokerConstantsOK
     DEF BrokerInit, Alone, Distinct, HasSession, Working, Looping, Cleanup
<1>2. BrokerInv /\ Alone /\ [BrokerNext]_brokerVars => Alone'
  BY ZenonT(40), AloneStep
<1> QED
  BY <1>1, <1>2, BrokerInvariant, PTL DEF BrokerSpec

(* When no client dials again while it is connected, nothing that other     *)
(* connections do takes a connection's session away or puts another         *)
(* client's session under it.                                               *)
THEOREM OwnersKeepSessions ==
  ASSUME Takeover = FALSE
  PROVE  BrokerSpec => []OwnerKeepsSession
<1>1. Alone => OwnerKeepsSession
  BY ZenonT(40) DEF Alone, HasSession, OwnerKeepsSession, Serves, Working
<1> QED
  BY <1>1, AloneInvariant, PTL

(* When no client dials again while it is connected, no connection sleeps   *)
(* in its select with a frame in its outbox and its signal down, whatever   *)
(* publishers, cleanups and CONNECTs run between its flush and its wait.    *)
THEOREM NoWakeupLost ==
  ASSUME Takeover = FALSE
  PROVE  BrokerSpec => []NoLostWakeup
<1>1. Alone => NoLostWakeup
  BY Zenon DEF Alone, HasSession, NoLostWakeup, Served, Serves, Working
<1> QED
  BY <1>1, AloneInvariant, PTL
-----------------------------------------------------------------------------
(* A session that a step passes by. *)
LEMMA PassedBy ==
  ASSUME NEW s, sess'[s] = sess[s], signal'[s] = signal[s], inflight'[s] = inflight[s]
  PROVE  OnlyAdds(s)
  BY Zenon DEF OnlyAdds

(* Routing a publish adds entries at most. *)
LEMMA RouteAdds ==
  ASSUME PsTypeOK, NEW targets, NEW tracked, NEW m, NEW storable,
         Route(targets, tracked, m, storable), NEW s \in Sids
  PROVE  inflight[s] \subseteq inflight'[s]
<1>1. CASE inflight' = inflight
  BY Zenon, <1>1
<1>2. CASE RouteTracked(targets, tracked, m)
  BY Zenon, <1>2 DEF RouteTracked
<1> QED
  BY Zenon, <1>1, <1>2 DEF Route, RouteUntracked, RouteUnstorable

(* The fan-out of a publish only adds to the sessions. *)
LEMMA FanoutAdds ==
  ASSUME SharedOK, PsTypeOK, NEW t \in Topics, NEW q \in QoSLevels, NEW m, NEW size,
         NEW storable, NEW subs \in SUBSET Subscribers(t),
         Fanout(subs, t, q, m, size, storable), NEW s \in Sids
  PROVE  OnlyAdds(s)
<1> DEFINE eff(x) == Lower(q, sess[x].subs[t])
           misfit == {x \in subs : ~Fits(size, eff(x))}
           reached == {x \in subs : \A y \in misfit : x < y}
           drawn == {x \in subs : eff(x) # 0 /\ \A y \in misfit : x <= y}
           pushed == {x \in reached : HasRoom(x)}
           frame(x) == [kind |-> "publish", qos |-> eff(x),
                        pid |-> IF eff(x) = 0 THEN 0 ELSE NextPacketId(nextPid[x])]
           drops(x) == IF sess[x].drops = DropsCap THEN DropsCap
                       ELSE sess[x].drops + 1
<1>1. /\ Route(drawn, {x \in pushed : eff(x) = 1}, m, storable)
      /\ sess' = [x \in Sids |->
           IF x \in pushed
           THEN [sess[x] EXCEPT !.outbox = Append(@, frame(x))]
           ELSE IF x \in reached
           THEN [sess[x] EXCEPT !.drops = drops(x),
                   !.quarantined = @ \/ drops(x) >= MaxOutboxDrops]
           ELSE sess[x]]
      /\ signal' = [x \in Sids |-> signal[x] \/ x \in pushed]
  BY Zenon DEF Fanout, SignalSessions
<1>2. inflight[s] \subseteq inflight'[s]
  BY Zenon, <1>1, RouteAdds
<1>3. sess[s] \in Session /\ signal[s] \in BOOLEAN
  BY Zenon DEF SharedOK
<1>4. ASSUME s \in pushed PROVE frame(s) \in Frame
  <2>1. sess[s].subs[t] \in QoSLevels
    <3>1. sess[s].subs[t] # NoSub
      BY Zenon, <1>4 DEF Subscribers
    <3>2. sess[s].subs \in [Topics -> QoSLevels \cup {NoSub}]
      BY Zenon, <1>3 DEF Session
    <3> QED
      BY Zenon, <3>1, <3>2
  <2>2. eff(s) \in QoSLevels
    BY Zenon, <2>1 DEF Lower
  <2>3. nextPid[s] \in 0..PidMax
    BY Zenon DEF PsTypeOK
  <2>4. 0 \in 0..PidMax /\ NextPacketId(nextPid[s]) \in 0..PidMax
    BY <2>3, ConstantsOK DEF NextPacketId
  <2> HIDE DEF eff
  <2> QED
    BY Zenon, <2>2, <2>4 DEF Frame
<1> HIDE DEF frame, drops, pushed, reached
<1>5. CASE s \in pushed
  <2>1. sess'[s] = [sess[s] EXCEPT !.outbox = Append(@, frame(s))] /\ signal'[s]
    BY Zenon, <1>1, <1>5
  <2>2. /\ sess'[s].client = sess[s].client /\ sess'[s].subs = sess[s].subs
        /\ sess'[s].lwt = sess[s].lwt /\ sess'[s].quarantined = sess[s].quarantined
        /\ sess'[s].outbox = Append(sess[s].outbox, frame(s))
    BY Zenon, <1>3, <2>1 DEF Session
  <2> QED
    BY Zenon, <1>2, <1>4, <1>5, <2>1, <2>2 DEF OnlyAdds
<1>6. CASE s \notin pushed /\ s \in reached
  <2> DEFINE quar == sess[s].quarantined \/ drops(s) >= MaxOutboxDrops
  <2>1. sess'[s] = [sess[s] EXCEPT !.drops = drops(s), !.quarantined = quar]
    BY Zenon, <1>1, <1>6
  <2>2. signal'[s] = signal[s]
    BY Zenon, <1>1, <1>3, <1>6
  <2>3. sess[s].quarantined => quar
    BY Zenon
  <2> HIDE DEF quar
  <2>4. /\ sess'[s].client = sess[s].client /\ sess'[s].subs = sess[s].subs
        /\ sess'[s].lwt = sess[s].lwt /\ sess'[s].quarantined = quar
        /\ sess'[s].outbox = sess[s].outbox
    BY Zenon, <1>3, <2>1 DEF Session
  <2> QED
    BY Zenon, <1>2, <2>2, <2>3, <2>4 DEF OnlyAdds
<1>7. CASE s \notin pushed /\ s \notin reached
  <2>1. sess'[s] = sess[s]
    BY Zenon, <1>1, <1>7
  <2>2. signal'[s] = signal[s]
    BY Zenon, <1>1, <1>3, <1>7
  <2> QED
    BY Zenon, <1>2, <2>1, <2>2 DEF OnlyAdds
<1> QED
  BY Zenon, <1>5, <1>6, <1>7

(* So does the delivery of a will. *)
LEMMA WillAdds ==
  ASSUME SharedOK, NEW c \in Conns, CleanupPush(c), NEW s \in Sids
  PROVE  OnlyAdds(s)
<1> DEFINE pushed == {d \in deliveries[c] : d[1] \in live /\ HasRoom(d[1])}
           qos == (CHOOSE d \in pushed : d[1] = s)[2]
<1>1. /\ sess'[s] = IF \E d \in pushed : d[1] = s
                    THEN [sess[s] EXCEPT !.outbox = Append(@, LwtFrame(qos))]
                    ELSE sess[s]
      /\ signal' = [x \in Sids |-> signal[x] \/ x \in {d[1] : d \in pushed}]
      /\ inflight' = inflight
  BY Zenon DEF CleanupPush, SignalSessions, psVars
<1>2. sess[s] \in Session /\ signal[s] \in BOOLEAN
  BY Zenon DEF SharedOK
<1>3. CASE \E d \in pushed : d[1] = s
  <2>1. deliveries[c] \in SUBSET (Sids \X QoSLevels)
    BY Zenon DEF SharedOK
  <2>2. qos \in QoSLevels
    BY <1>3, <2>1
  <2>3. LwtFrame(qos) \in Frame
    <3>1. 0 \in 0..PidMax /\ 1 \in 0..PidMax
      BY ConstantsOK
    <3> HIDE DEF qos
    <3> QED
      BY Zenon, <2>2, <3>1 DEF LwtFrame, Frame
  <2> HIDE DEF qos
  <2>4. sess'[s] = [sess[s] EXCEPT !.outbox = Append(@, LwtFrame(qos))]
    BY Zenon, <1>1, <1>3
  <2>5. signal'[s]
    BY Zenon, <1>1, <1>3
  <2>6. /\ sess'[s].client = sess[s].client /\ sess'[s].subs = sess[s].subs
        /\ sess'[s].lwt = sess[s].lwt /\ sess'[s].quarantined = sess[s].quarantined
        /\ sess'[s].outbox = Append(sess[s].outbox, LwtFrame(qos))
    BY Zenon, <1>2, <2>4 DEF Session
  <2> QED
    BY Zenon, <1>1, <2>3, <2>5, <2>6 DEF OnlyAdds
<1>4. CASE ~\E d \in pushed : d[1] = s
  <2>1. sess'[s] = sess[s]
    BY Zenon, <1>1, <1>4
  <2>2. s \notin {d[1] : d \in pushed}
    BY Zenon, <1>4
  <2>3. signal'[s] = signal[s]
    BY Zenon, <1>1, <1>2, <2>2
  <2> QED
    BY Zenon, <1>1, <2>1, <2>3, PassedBy
<1> QED
  BY Zenon, <1>3, <1>4

(* Work on one session only adds to the others, and moves the connection. *)
LEMMA WorksAdds ==
  ASSUME PsTypeOK, SidsOK, SharedOK, NEW c \in Conns, Works(c)
  PROVE  /\ pc'[c] # pc[c]
         /\ \A s \in Sids \ {sid[c]} : OnlyAdds(s)
<1> DEFINE Goal == pc'[c] # pc[c] /\ \A s \in Sids \ {sid[c]} : OnlyAdds(s)
<1>1. ASSUME NEW from, NEW to, from # to, Goto(c, from, to) PROVE pc'[c] # pc[c]
  BY Zenon, <1>1 DEF Goto, SidsOK
<1>2. sid[c] \in Sids
  BY Zenon, WorksShape DEF SidsOK, Working
<1>3. ASSUME NEW s \in Sids \ {sid[c]},
             \/ sess' = sess
             \/ \E r : sess' = [sess EXCEPT ![sid[c]] = r],
             \/ signal' = signal
             \/ \E b : signal' = [signal EXCEPT ![sid[c]] = b],
             \/ inflight' = inflight
             \/ \E E : inflight' = [inflight EXCEPT ![sid[c]] = E]
      PROVE  OnlyAdds(s)
  <2>1. sess'[s] = sess[s] /\ inflight'[s] = inflight[s]
    BY Zenon, <1>3 DEF SharedOK, PsTypeOK
  <2>2. signal'[s] = signal[s]
    BY Zenon, <1>3 DEF SharedOK
  <2> QED
    BY Zenon, <2>1, <2>2, PassedBy
<1>4. CASE Flush(c)
  <2>1. \E r : sess' = sess \/ sess' = [sess EXCEPT ![sid[c]] = r]
    BY Zenon, <1>4 DEF Flush
  <2>2. pc'[c] # pc[c] /\ signal' = signal /\ inflight' = inflight
    BY Zenon, <1>1, <1>4 DEF Flush, psVars
  <2> QED
    BY Zenon, <1>3, <2>1, <2>2
<1>5. CASE CheckEnds(c) \/ CheckPasses(c)
  <2>1. pc'[c] # pc[c] /\ sess' = sess /\ signal' = signal /\ inflight' = inflight
    BY Zenon, <1>1, <1>5 DEF CheckEnds, CheckPasses, sharedVars, psVars
  <2> QED
    BY Zenon, <1>3, <2>1
<1>6. CASE CheckRetries(c)
  <2>1. pc'[c] # pc[c] /\ sess' = sess /\ signal' = signal
    BY Zenon, <1>1, <1>6 DEF CheckRetries, sharedVars
  <2>2. \E E : inflight' = [inflight EXCEPT ![sid[c]] = E]
    BY Zenon, <1>6 DEF CheckRetries, RetryBegin, Replace
  <2> QED
    BY Zenon, <1>3, <2>1, <2>2
<1>7. CASE RetryWrite(c)
  <2>1. pc'[c] # pc[c] /\ sess' = sess /\ signal' = signal
    BY Zenon, <1>1, <1>7 DEF RetryWrite, sharedVars
  <2>2. inflight' = inflight \/ \E E : inflight' = [inflight EXCEPT ![sid[c]] = E]
    BY Zenon, <1>7 DEF RetryWrite, RetrySent, Replace, psVars
  <2> QED
    BY Zenon, <1>3, <2>1, <2>2
<1>8. CASE WakeBySignal(c)
  <2>1. pc'[c] # pc[c] /\ sess' = sess /\ inflight' = inflight
    BY Zenon, <1>1, <1>8 DEF WakeBySignal, psVars
  <2>2. \E b : signal' = [signal EXCEPT ![sid[c]] = b]
    BY Zenon, <1>8 DEF WakeBySignal
  <2> QED
    BY Zenon, <1>3, <2>1, <2>2
<1>9. CASE CleanupWill(c)
  <2>1. pc'[c] # pc[c]
    <3>1. Goto(c, "lwt", "remove") \/ Goto(c, "lwt", "lwtPush")
      BY Zenon, <1>9 DEF CleanupWill
    <3> QED
      BY Zenon, <1>1, <3>1
  <2>2. sess' = sess /\ signal' = signal /\ inflight' = inflight
    BY Zenon, <1>9 DEF CleanupWill, psVars
  <2> QED
    BY Zenon, <1>3, <2>1, <2>2
<1>10. CASE CleanupPush(c)
  <2>1. pc'[c] # pc[c]
    BY Zenon, <1>1, <1>10 DEF CleanupPush
  <2> QED
    BY Zenon, <1>10, <2>1, WillAdds
<1>11. CASE CleanupRemove(c)
  <2>1. pc'[c] # pc[c]
    BY Zenon, <1>1, <1>11 DEF CleanupRemove
  <2>2. /\ \E r : sess' = [sess EXCEPT ![sid[c]] = r]
        /\ \E b : signal' = [signal EXCEPT ![sid[c]] = b]
        /\ inflight' = inflight \/ \E E : inflight' = [inflight EXCEPT ![sid[c]] = E]
    BY Zenon, <1>11 DEF CleanupRemove, RemoveSession, psVars
  <2> QED
    BY Zenon, <1>3, <2>1, <2>2
<1>12. ASSUME NEW pid \in 1..PidMax, PubackPacket(c, pid) PROVE Goal
  <2>1. pc'[c] # pc[c] /\ sess' = sess /\ signal' = signal
    BY Zenon, <1>1, <1>12 DEF PubackPacket, sharedVars
  <2>2. inflight' = inflight \/ \E E : inflight' = [inflight EXCEPT ![sid[c]] = E]
    BY Zenon, <1>12 DEF PubackPacket, Puback
  <2> QED
    BY Zenon, <1>3, <2>1, <2>2
<1>13. ASSUME NEW t \in Topics, Unsubscribe(c, t) \/ \E q \in QoSLevels : Subscribe(c, t, q)
       PROVE  Goal
  <2>1. pc'[c] # pc[c] /\ signal' = signal /\ inflight' = inflight
    BY Zenon, <1>1, <1>13 DEF Subscribe, Unsubscribe, psVars
  <2>2. sess' = sess \/ \E r : sess' = [sess EXCEPT ![sid[c]] = r]
    BY Zenon, <1>13 DEF Subscribe, Unsubscribe
  <2> QED
    BY Zenon, <1>3, <2>1, <2>2
<1>14. ASSUME NEW t \in Topics, NEW q \in QoSLevels, NEW op \in Retains, NEW m \in Msgs,
              NEW size \in Sizes, NEW storable \in Storables,
              Publish(c, t, q, op, m, size, storable)
       PROVE  Goal
  <2>1. Fanout(Subscribers(t) \ {sid[c]}, t, q, m, size, storable)
    BY Zenon, <1>14 DEF Publish
  <2>2. Subscribers(t) \ {sid[c]} \in SUBSET Subscribers(t)
    BY Zenon
  <2>3. pc'[c] # pc[c]
    <3>1. Goto(c, "wait", "lwt") \/ Goto(c, "wait", "reply") \/ Goto(c, "wait", "flush")
      BY Zenon, <1>14 DEF Publish, Acknowledge
    <3> QED
      BY Zenon, <1>1, <3>1
  <2>4. \A s \in Sids : OnlyAdds(s)
    BY Zenon, <2>1, <2>2, FanoutAdds
  <2> QED
    BY Zenon, <2>3, <2>4
<1> HIDE DEF Goal
<1> QED
  BY Zenon, <1>4, <1>5, <1>6, <1>7, <1>8, <1>9, <1>10, <1>11, <1>12, <1>13, <1>14
     DEF Works, Goal

(* A CONNECT does not touch the sessions of other clients. *)
LEMMA ConnectsSpare ==
  ASSUME PsTypeOK, SidsOK, SharedOK, NEW c \in Conns, Connects(c),
         NEW s \in live, sess[s].client # who[c]
  PROVE  OnlyAdds(s)
<1>1. s \in Sids /\ s \in live'
  BY Zenon, ConnectsKeeps DEF SidsOK
<1>2. signal'[s] = signal[s]
  <2>1. sess'[s].client # who[c]
    BY Zenon, <1>1, ConnectsTyped
  <2>2. pc'[c] = "connack" => s # sid'[c]
    BY Zenon, <2>1, ConnectsKeeps
  <2> QED
    BY Zenon, <1>1, <2>2, ConnectsTyped
<1>3. ASSUME NEW x, IsSessionOf(x, who[c]) PROVE x # s
  BY Zenon, <1>3 DEF IsSessionOf, SessionsOf
<1>4. sess'[s] = sess[s] /\ inflight'[s] = inflight[s]
  <2>1. CASE UNCHANGED <<sess, inflight>>
    BY Zenon, <2>1
  <2>2. ASSUME NEW will, ConnectResume(c, will)
        PROVE  sess'[s] = sess[s] /\ inflight'[s] = inflight[s]
    <3>1. PICK x \in Sids :
            /\ IsSessionOf(x, who[c])
            /\ sess' = [sess EXCEPT ![x].lwt = will, ![x].quarantined = FALSE, ![x].drops = 0]
      BY Zenon, <2>2 DEF ConnectResume
    <3>2. sess'[s] = sess[s]
      BY Zenon, <1>1, <1>3, <3>1 DEF SharedOK
    <3> QED
      BY Zenon, <2>2, <3>2 DEF ConnectResume, psVars
  <2>3. ASSUME NEW x \in Sids, NEW r, InsertSession(x), sess' = [sess EXCEPT ![x] = r]
        PROVE  sess'[s] = sess[s] /\ inflight'[s] = inflight[s]
    BY Zenon, <1>1, <2>3 DEF InsertSession, SharedOK, PsTypeOK
  <2>4. ASSUME NEW x \in Sids, NEW y \in Sids, NEW r, IsSessionOf(x, who[c]),
               ReplaceSession(x, y), sess' = [[sess EXCEPT ![x] = Blank] EXCEPT ![y] = r]
        PROVE  sess'[s] = sess[s] /\ inflight'[s] = inflight[s]
    <3>1. x # s
      BY Zenon, <1>3, <2>4
    <3>2. y # s
      BY Zenon, <2>4, <3>1 DEF ReplaceSession
    <3> QED
      BY Zenon, <1>1, <2>4, <3>1, <3>2 DEF ReplaceSession, SharedOK, PsTypeOK
  <2>5. ASSUME NEW x \in Sids, IsSessionOf(x, who[c]), RemoveSession(x),
               sess' = [sess EXCEPT ![x] = Blank]
        PROVE  sess'[s] = sess[s] /\ inflight'[s] = inflight[s]
    <3>1. x # s
      BY Zenon, <1>3, <2>5
    <3> QED
      BY Zenon, <1>1, <2>5, <3>1 DEF RemoveSession, SharedOK, PsTypeOK
  <2>6. ASSUME NEW will, ConnectNew(c, will)
        PROVE  \/ UNCHANGED <<sess, inflight>>
               \/ \E x \in Sids : InsertSession(x) /\ \E r : sess' = [sess EXCEPT ![x] = r]
    BY Zenon, <2>6 DEF ConnectNew, psVars
  <2>7. ASSUME NEW will, ConnectReplace(c, will)
        PROVE  \E x, y \in Sids :
                 /\ IsSessionOf(x, who[c]) /\ ReplaceSession(x, y)
                 /\ \E r : sess' = [[sess EXCEPT ![x] = Blank] EXCEPT ![y] = r]
    BY Zenon, <2>7 DEF ConnectReplace
  <2>8. ASSUME NEW clean, ConnectBadWill(c, clean)
        PROVE  \/ UNCHANGED <<sess, inflight>>
               \/ \E x \in Sids : /\ IsSessionOf(x, who[c]) /\ RemoveSession(x)
                                  /\ sess' = [sess EXCEPT ![x] = Blank]
    BY Zenon, <2>8 DEF ConnectBadWill, psVars
  <2>9. CASE ConnectRefused(c)
    BY Zenon, <2>9 DEF ConnectRefused, psVars
  <2> QED
    BY Zenon, <2>1, <2>2, <2>3, <2>4, <2>5, <2>6, <2>7, <2>8, <2>9 DEF Connects
<1> QED
  BY Zenon, <1>2, <1>4, PassedBy

(* The retry timeout of an entry makes it due and does nothing else. *)
LEMMA TimeoutAdds ==
  ASSUME PsTypeOK, NEW x \in Sids, RetryTimeout(x), NEW s \in Sids
  PROVE  OnlyAdds(s)
<1>1. sess' = sess /\ signal' = signal
  BY Zenon DEF RetryTimeout, sharedVars
<1>2. PICK e \in inflight[x] :
        inflight' = [inflight EXCEPT ![x] = (@ \ {e}) \cup {[e EXCEPT !.due = TRUE]}]
  BY Zenon DEF RetryTimeout, Expire, Replace
<1>3. \A f \in inflight[s] : f \in inflight'[s] \/ [f EXCEPT !.due = TRUE] \in inflight'[s]
  <2>1. CASE x # s
    BY Zenon, <1>2, <2>1 DEF PsTypeOK
  <2>2. CASE x = s
    <3>1. inflight'[s] = (inflight[s] \ {e}) \cup {[e EXCEPT !.due = TRUE]}
      BY Zenon, <1>2, <2>2 DEF PsTypeOK
    <3> QED
      BY Zenon, <3>1
  <2> QED
    BY Zenon, <2>1, <2>2
<1> QED
  BY Zenon, <1>1, <1>3 DEF OnlyAdds

(* When no client dials twice, a step in which the connection of a session  *)
(* does not move only adds to the session.                                  *)
LEMMA OthersStep ==
  ASSUME Takeover = FALSE, BrokerInv, Alone, [BrokerNext]_brokerVars,
         NEW c \in Conns, NEW s \in Sids, Serves(c, s), pc'[c] = pc[c]
  PROVE  OnlyAdds(s)
<1>1. PsTypeOK /\ SidsOK /\ SharedOK
  BY Zenon DEF BrokerInv, PsInv
<1>2. sid[c] = s /\ pc[c] \in Working /\ pc[c] \notin {"hello", "idle"}
  BY Zenon DEF Serves, Working, Looping
<1>3. s \in live /\ sess[s].client = who[c] /\ who[c] \in Clients
  BY Zenon, <1>2 DEF Alone, Distinct, HasSession
<1>4. ASSUME UNCHANGED <<sess, signal, inflight>> PROVE OnlyAdds(s)
  BY Zenon, <1>4, PassedBy
<1>5. ASSUME NEW d \in Conns, Moves(d) PROVE OnlyAdds(s)
  BY Zenon, <1>1, <1>4, <1>5, MovesShape DEF sharedVars, psVars
<1>6. ASSUME NEW d \in Conns, Works(d) PROVE OnlyAdds(s)
  <2>1. d # c
    BY Zenon, <1>1, <1>6, WorksAdds
  <2>2. pc[d] \in Working
    BY Zenon, <1>1, <1>6, WorksShape DEF Working
  <2>3. sess[sid[d]].client = who[d]
    BY Zenon, <2>2 DEF Alone, HasSession
  <2>4. who[d] # who[c]
    BY Zenon, <1>3, <2>1 DEF Alone, Distinct
  <2>5. s # sid[d]
    BY Zenon, <1>3, <2>3, <2>4
  <2> QED
    BY Zenon, <1>1, <1>6, <2>5, WorksAdds
<1>7. ASSUME NEW d \in Conns, Connects(d) PROVE OnlyAdds(s)
  <2>1. pc[d] = "hello"
    BY Zenon, <1>1, <1>7, ConnectsShape
  <2>2. d # c
    BY Zenon, <1>2, <2>1
  <2>3. sess[s].client # who[d]
    BY Zenon, <1>3, <2>2 DEF Alone, Distinct
  <2> QED
    BY Zenon, <1>1, <1>3, <1>7, <2>3, ConnectsSpare
<1>8. ASSUME NEW t \in Topics, NEW q \in QoSLevels, NEW op \in Retains, NEW m \in Msgs,
             NEW size \in Sizes, OutboundPublish(t, q, op, m, size)
      PROVE  OnlyAdds(s)
  <2>1. Fanout(Subscribers(t), t, q, m, size, TRUE)
    BY Zenon, <1>8 DEF OutboundPublish
  <2>2. Subscribers(t) \in SUBSET Subscribers(t)
    BY Zenon
  <2> QED
    BY Zenon, <1>1, <2>1, <2>2, FanoutAdds
<1>9. CASE TakeCommand \/ UNCHANGED brokerVars
  BY Zenon, <1>4, <1>9 DEF TakeCommand, brokerVars, sharedVars, psVars
<1>10. ASSUME NEW x \in Sids, RetryTimeout(x) PROVE OnlyAdds(s)
  BY Zenon, <1>1, <1>10, TimeoutAdds
<1> QED
  BY Zenon, <1>5, <1>6, <1>7, <1>8, <1>9, <1>10, StepKinds DEF Control

(* When no client dials again while it is connected, other tasks only add   *)
(* to the session of a connection between two of its steps: they never take *)
(* a frame, a subscription, the will or an unacknowledged publish from it,  *)
(* and never add a frame without raising its signal.                        *)
THEOREM OthersOnlyAdds ==
  ASSUME Takeover = FALSE
  PROVE  BrokerSpec => OthersOnlyAdd
<1>1. BrokerInv /\ Alone /\ [BrokerNext]_brokerVars =>
        [\A c \in Conns, s \in Sids :
           Serves(c, s) /\ pc'[c] = pc[c] => OnlyAdds(s)]_brokerVars
  BY Zenon, OthersStep
<1> QED
  BY <1>1, BrokerInvariant, AloneInvariant, PTL DEF BrokerSpec, OthersOnlyAdd
-----------------------------------------------------------------------------
(* What is proved of the publish store holds inside the whole broker,       *)
(* whichever way connections end: an inflight entry is retried with the     *)
(* publish it was made for, reference counts are exact, and no stored       *)
(* publish outlives its last holder.                                        *)
THEOREM BrokerStoreSound ==
  BrokerSpec => [](RetryResendsOriginal /\ RefcountExact /\ NoLeakedPublish)
  BY BrokerImplementsStore, RetriesResendOriginal, RefcountsExact, NoPublishLeaks, PTL

(* To each session the broker's shared store looks like copies of its own.  *)
THEOREM BrokerSharesInvisibly == BrokerSpec => PrivateCopies
  BY BrokerImplementsStore, StoreActsAsCopies, PTL
-----------------------------------------------------------------------------
(* Vacant slots have nothing queued. *)
VacantEmpty == \A s \in Sids \ live : sess[s].outbox = <<>>

(* A step that leaves sessions and outboxes alone. *)
LEMMA BoxesKept ==
  ASSUME live' = live, \A s \in Sids : sess'[s].outbox = sess[s].outbox
  PROVE  UNCHANGED Boxes!boxVars
  BY Zenon DEF Boxes!boxVars

(* A step that changes the outbox of one slot at most. *)
LEMMA BoxChanged ==
  ASSUME NEW s \in Sids, NEW b, sess'[s].outbox = b,
         \A x \in Sids \ {s} : sess'[x].outbox = sess[x].outbox
  PROVE  [x \in Sids |-> sess[x].outbox]' = [[x \in Sids |-> sess[x].outbox] EXCEPT ![s] = b]
<1>1. \A x \in Sids : [x1 \in Sids |-> sess[x1].outbox]'[x] =
                       [[x1 \in Sids |-> sess[x1].outbox] EXCEPT ![s] = b][x]
  BY Zenon
<1> QED
  BY Zenon, <1>1

(* The fan-out of a publish posts a frame to those with room. *)
LEMMA FanoutPosts ==
  ASSUME SharedOK, PsTypeOK, NEW t \in Topics, NEW q \in QoSLevels, NEW m, NEW size,
         NEW storable, NEW subs \in SUBSET Subscribers(t),
         Fanout(subs, t, q, m, size, storable)
  PROVE  Boxes!BoxNext
<1> DEFINE eff(x) == Lower(q, sess[x].subs[t])
           misfit == {x \in subs : ~Fits(size, eff(x))}
           reached == {x \in subs : \A y \in misfit : x < y}
           pushed == {x \in reached : HasRoom(x)}
           frame(x) == [kind |-> "publish", qos |-> eff(x),
                        pid |-> IF eff(x) = 0 THEN 0 ELSE NextPacketId(nextPid[x])]
           drops(x) == IF sess[x].drops = DropsCap THEN DropsCap
                       ELSE sess[x].drops + 1
           B == [x \in Sids |-> sess[x].outbox]
<1>1. sess' = [x \in Sids |->
           IF x \in pushed
           THEN [sess[x] EXCEPT !.outbox = Append(@, frame(x))]
           ELSE IF x \in reached
           THEN [sess[x] EXCEPT !.drops = drops(x),
                   !.quarantined = @ \/ drops(x) >= MaxOutboxDrops]
           ELSE sess[x]]
  BY Zenon DEF Fanout
<1>2. live' = live
  BY Zenon DEF Fanout, Route, RouteUntracked, RouteUnstorable, RouteTracked
<1>3. ASSUME NEW x \in pushed PROVE frame(x) \in Frame
  <2>1. x \in Sids /\ sess[x].subs[t] # NoSub
    BY Zenon DEF Subscribers, PsTypeOK
  <2>2. sess[x].subs \in [Topics -> QoSLevels \cup {NoSub}]
    BY Zenon, <2>1 DEF SharedOK, Session
  <2>3. eff(x) \in QoSLevels
    BY Zenon, <2>1, <2>2 DEF Lower
  <2>4. nextPid[x] \in 0..PidMax
    BY Zenon, <2>1 DEF PsTypeOK
  <2>5. 0 \in 0..PidMax /\ NextPacketId(nextPid[x]) \in 0..PidMax
    BY <2>4, ConstantsOK DEF NextPacketId
  <2> HIDE DEF eff
  <2> QED
    BY Zenon, <2>3, <2>5 DEF Frame
<1>4. pushed \in SUBSET live
  BY Zenon DEF Subscribers
<1>5. \A x \in pushed : HasRoom(x)
  BY Zenon
<1> HIDE DEF frame, drops, pushed, reached
<1>6. ASSUME NEW x \in Sids
      PROVE  sess'[x].outbox = IF x \in pushed THEN Append(sess[x].outbox, frame(x))
                               ELSE sess[x].outbox
  <2>1. sess[x] \in Session
    BY Zenon DEF SharedOK
  <2>2. CASE x \in pushed
    <3>1. sess'[x] = [sess[x] EXCEPT !.outbox = Append(@, frame(x))]
      BY Zenon, <1>1, <2>2
    <3> QED
      BY Zenon, <2>1, <2>2, <3>1 DEF Session
  <2>3. CASE x \notin pushed /\ x \in reached
    <3> DEFINE quar == sess[x].quarantined \/ drops(x) >= MaxOutboxDrops
    <3>1. sess'[x] = [sess[x] EXCEPT !.drops = drops(x), !.quarantined = quar]
      BY Zenon, <1>1, <2>3
    <3> HIDE DEF quar
    <3> QED
      BY Zenon, <2>1, <2>3, <3>1 DEF Session
  <2>4. CASE x \notin pushed /\ x \notin reached
    BY Zenon, <1>1, <2>4
  <2> QED
    BY Zenon, <2>2, <2>3, <2>4
<1> DEFINE g == [x \in pushed |-> frame(x)]
<1>7. g \in [pushed -> Frame]
  BY Zenon, <1>3
<1>8. pushed \subseteq Sids
  BY Zenon, <1>4 DEF PsTypeOK
<1>9. B' = [x \in Sids |-> IF x \in pushed THEN Append(B[x], g[x]) ELSE B[x]]
  BY Zenon, <1>6
<1>10. \A x \in pushed : Len(B[x]) < OutboxDepth
  BY Zenon, <1>5, <1>8 DEF HasRoom
<1> HIDE DEF g, B
<1>11. /\ \A x \in pushed : Len(B[x]) < OutboxDepth
       /\ \E f \in [pushed -> Frame] :
            B' = [x \in Sids |-> IF x \in pushed THEN Append(B[x], f[x]) ELSE B[x]]
       /\ live' = live
  BY Zenon, <1>2, <1>7, <1>9, <1>10
<1>12. Boxes!Post(pushed)
  BY Zenon, <1>11 DEF Boxes!Post, B
<1> QED
  BY Zenon, <1>4, <1>12 DEF Boxes!BoxNext, Boxes!Post

(* So does the delivery of a will. *)
LEMMA WillPosts ==
  ASSUME PsTypeOK, SharedOK, NEW c \in Conns, CleanupPush(c)
  PROVE  Boxes!BoxNext
<1> DEFINE to == {d \in deliveries[c] : d[1] \in live /\ HasRoom(d[1])}
           qos(x) == (CHOOSE d \in to : d[1] = x)[2]
           pushed == {x \in live : \E d \in to : d[1] = x}
           g == [x \in pushed |-> LwtFrame(qos(x))]
           B == [x \in Sids |-> sess[x].outbox]
<1>1. /\ sess' = [x \in Sids |->
           IF \E d \in to : d[1] = x
           THEN [sess[x] EXCEPT !.outbox = Append(@, LwtFrame(qos(x)))]
           ELSE sess[x]]
      /\ live' = live
  BY Zenon DEF CleanupPush, psVars
<1>2. ASSUME NEW x \in pushed PROVE LwtFrame(qos(x)) \in Frame
  <2>1. deliveries[c] \in SUBSET (Sids \X QoSLevels)
    BY Zenon DEF SharedOK
  <2>2. \E d \in to : d[1] = x
    BY Zenon
  <2>3. qos(x) \in QoSLevels
    BY <2>1, <2>2
  <2>4. 0 \in 0..PidMax /\ 1 \in 0..PidMax
    BY ConstantsOK
  <2> HIDE DEF qos
  <2> QED
    BY Zenon, <2>3, <2>4 DEF LwtFrame, Frame
<1>3. g \in [pushed -> Frame]
  BY Zenon, <1>2
<1>4. \A x \in pushed : x \in Sids /\ HasRoom(x)
  BY Zenon DEF PsTypeOK
<1>5. \A x \in Sids : (\E d \in to : d[1] = x) <=> x \in pushed
  BY Zenon
<1> HIDE DEF to, qos, pushed
<1>6. ASSUME NEW x \in Sids
      PROVE  sess'[x].outbox = IF x \in pushed THEN Append(sess[x].outbox, g[x])
                               ELSE sess[x].outbox
  <2>1. sess[x] \in Session
    BY Zenon DEF SharedOK
  <2>2. CASE x \in pushed
    <3>1. sess'[x] = [sess[x] EXCEPT !.outbox = Append(@, LwtFrame(qos(x)))]
      BY Zenon, <1>1, <1>5, <2>2
    <3> QED
      BY Zenon, <2>1, <2>2, <3>1 DEF Session
  <2>3. CASE x \notin pushed
    BY Zenon, <1>1, <1>5, <2>3
  <2> QED
    BY Zenon, <2>2, <2>3
<1> HIDE DEF g
<1>7. B' = [x \in Sids |-> IF x \in pushed THEN Append(B[x], g[x]) ELSE B[x]]
  BY Zenon, <1>6
<1>8. \A x \in pushed : Len(B[x]) < OutboxDepth
  BY Zenon, <1>4 DEF HasRoom
<1> HIDE DEF B
<1>9. /\ \A x \in pushed : Len(B[x]) < OutboxDepth
      /\ \E f \in [pushed -> Frame] :
           B' = [x \in Sids |-> IF x \in pushed THEN Append(B[x], f[x]) ELSE B[x]]
      /\ live' = live
  BY Zenon, <1>1, <1>3, <1>7, <1>8
<1>10. Boxes!Post(pushed)
  BY Zenon, <1>9 DEF Boxes!Post, B
<1>11. pushed \in SUBSET live
  BY Zenon DEF pushed
<1> QED
  BY Zenon, <1>10, <1>11 DEF Boxes!BoxNext, Boxes!Post

(* Outboxes only loses frames with their session, so vacant slots stay empty. *)
LEMMA VacantStep ==
  ASSUME live \subseteq Sids, VacantEmpty, [Boxes!BoxNext]_(Boxes!boxVars)
  PROVE  VacantEmpty'
<1> DEFINE B == [x \in Sids |-> sess[x].outbox]
<1> SUFFICES ASSUME NEW u \in Sids, u \notin live' PROVE B'[u] = <<>>
  BY Zenon DEF VacantEmpty
<1>1. u \notin live => B[u] = <<>>
  BY Zenon DEF VacantEmpty
<1>2. \A x \in Sids : B[x] = sess[x].outbox
  BY Zenon
<1>3. DOMAIN B = Sids
  BY Zenon
<1>4. CASE UNCHANGED Boxes!boxVars
  <2>1. live' = live /\ B' = B
    BY Zenon, <1>4 DEF Boxes!boxVars
  <2> QED
    BY Zenon, <1>1, <2>1
<1>5. ASSUME NEW x \in Sids, Boxes!Open(x) \/ Boxes!Discard(x) PROVE B'[u] = <<>>
  <2>1. B' = [B EXCEPT ![x] = <<>>] /\ (live' = live \cup {x} \/ live' = live \ {x})
    BY Zenon, <1>5 DEF Boxes!Open, Boxes!Discard
  <2> HIDE DEF B
  <2> QED
    BY Zenon, <1>1, <1>3, <2>1
<1>6. ASSUME NEW x \in Sids, NEW y \in Sids, Boxes!Reopen(x, y) PROVE B'[u] = <<>>
  <2>1. B' = [B EXCEPT ![x] = <<>>, ![y] = <<>>] /\ live' = (live \ {x}) \cup {y}
    BY Zenon, <1>6 DEF Boxes!Reopen
  <2> HIDE DEF B
  <2> QED
    BY Zenon, <1>1, <1>3, <2>1
<1>7. ASSUME NEW S \in SUBSET live, Boxes!Post(S) PROVE B'[u] = <<>>
  <2>1. PICK f \in [S -> Frame] :
          B' = [y \in Sids |-> IF y \in S THEN Append(B[y], f[y]) ELSE B[y]]
    BY Zenon, <1>7 DEF Boxes!Post
  <2>2. live' = live
    BY Zenon, <1>7 DEF Boxes!Post
  <2> HIDE DEF B
  <2>3. B'[u] = B[u]
    BY Zenon, <2>1, <2>2
  <2> QED
    BY Zenon, <1>1, <2>2, <2>3
<1>8. ASSUME NEW x \in live, Boxes!Take(x) PROVE B'[u] = <<>>
  <2>1. B' = [B EXCEPT ![x] = Tail(@)] /\ live' = live
    BY Zenon, <1>8 DEF Boxes!Take
  <2> HIDE DEF B
  <2> QED
    BY Zenon, <1>1, <1>3, <2>1
<1> QED
  BY Zenon, <1>4, <1>5, <1>6, <1>7, <1>8 DEF Boxes!BoxNext

(* A CONNECT opens, reopens or discards a session, or leaves the outboxes.  *)
LEMMA ConnectsBoxes ==
  ASSUME PsTypeOK, SharedOK, NEW c \in Conns, Connects(c)
  PROVE  [Boxes!BoxNext]_(Boxes!boxVars)
<1> DEFINE B == [x \in Sids |-> sess[x].outbox]
           Goal == [Boxes!BoxNext]_(Boxes!boxVars)
<1>1. ASSUME live' = live, sess' = sess PROVE Goal
  BY Zenon, <1>1, BoxesKept
<1>2. ASSUME NEW will, ConnectResume(c, will) PROVE Goal
  <2>1. PICK x \in Sids :
          sess' = [sess EXCEPT ![x].lwt = will, ![x].quarantined = FALSE, ![x].drops = 0]
    BY Zenon, <1>2 DEF ConnectResume
  <2>2. live' = live
    BY Zenon, <1>2 DEF ConnectResume, psVars
  <2>3. ASSUME NEW y \in Sids PROVE sess'[y].outbox = sess[y].outbox
    <3>1. sess[y] \in Session
      BY Zenon DEF SharedOK
    <3>2. \/ sess'[y] = sess[y]
          \/ sess'[y] = [sess[y] EXCEPT !.lwt = will, !.quarantined = FALSE, !.drops = 0]
      BY Zenon, <2>1 DEF SharedOK
    <3> QED
      BY Zenon, <3>1, <3>2 DEF Session
  <2> QED
    BY Zenon, <2>2, <2>3, BoxesKept
<1>3. Blank.outbox = <<>>
  BY Zenon DEF Blank
<1>4. \A will : NewSession(who[c], will).outbox = <<>>
  BY Zenon DEF NewSession, Blank
<1>5. ASSUME NEW x \in Sids, NEW r, r.outbox = <<>>, sess' = [sess EXCEPT ![x] = r]
      PROVE  B' = [B EXCEPT ![x] = <<>>]
  <2>1. sess'[x].outbox = <<>> /\ \A y \in Sids \ {x} : sess'[y].outbox = sess[y].outbox
    BY Zenon, <1>5 DEF SharedOK
  <2> QED
    BY Zenon, <2>1, BoxChanged
<1>6. ASSUME NEW x \in Sids, NEW r, InsertSession(x), r.outbox = <<>>,
             sess' = [sess EXCEPT ![x] = r]
      PROVE  Goal
  <2>1. Boxes!Open(x)
    BY Zenon, <1>5, <1>6 DEF Boxes!Open, InsertSession
  <2> QED
    BY Zenon, <2>1 DEF Boxes!BoxNext
<1>7. ASSUME NEW x \in Sids, NEW y \in Sids, NEW r, r.outbox = <<>>,
             ReplaceSession(x, y), sess' = [[sess EXCEPT ![x] = Blank] EXCEPT ![y] = r]
      PROVE  Goal
  <2>1. \A u \in Sids : sess'[u].outbox = IF u = x \/ u = y THEN <<>> ELSE sess[u].outbox
    BY Zenon, <1>3, <1>7 DEF SharedOK
  <2>2. \A u \in Sids : B'[u] = [B EXCEPT ![x] = <<>>, ![y] = <<>>][u]
    BY Zenon, <2>1
  <2>3. B' = [B EXCEPT ![x] = <<>>, ![y] = <<>>]
    BY Zenon, <2>2
  <2>4. Boxes!Reopen(x, y)
    BY Zenon, <1>7, <2>3 DEF Boxes!Reopen, ReplaceSession
  <2> QED
    BY Zenon, <2>4 DEF Boxes!BoxNext
<1>8. ASSUME NEW x \in Sids, RemoveSession(x), sess' = [sess EXCEPT ![x] = Blank]
      PROVE  Goal
  <2>1. Boxes!Discard(x)
    BY Zenon, <1>3, <1>5, <1>8 DEF Boxes!Discard, RemoveSession
  <2> QED
    BY Zenon, <2>1 DEF Boxes!BoxNext
<1> HIDE DEF Goal
<1>9. ASSUME NEW will, ConnectNew(c, will) PROVE Goal
  <2>1. \/ live' = live /\ sess' = sess
        \/ \E x \in Sids :
             InsertSession(x) /\ sess' = [sess EXCEPT ![x] = NewSession(who[c], will)]
    BY Zenon, <1>9 DEF ConnectNew, psVars
  <2> QED
    BY Zenon, <1>1, <1>4, <1>6, <2>1
<1>10. ASSUME NEW will, ConnectReplace(c, will) PROVE Goal
  <2>1. PICK x, y \in Sids :
          /\ ReplaceSession(x, y)
          /\ sess' = [[sess EXCEPT ![x] = Blank] EXCEPT ![y] = NewSession(who[c], will)]
    BY Zenon, <1>10 DEF ConnectReplace
  <2> QED
    BY Zenon, <1>4, <1>7, <2>1
<1>11. ASSUME NEW clean, ConnectBadWill(c, clean) PROVE Goal
  <2>1. \/ live' = live /\ sess' = sess
        \/ \E x \in Sids : RemoveSession(x) /\ sess' = [sess EXCEPT ![x] = Blank]
    BY Zenon, <1>11 DEF ConnectBadWill, psVars
  <2> QED
    BY Zenon, <1>1, <1>8, <2>1
<1>12. ASSUME ConnectRefused(c) PROVE Goal
  BY Zenon, <1>1, <1>12 DEF ConnectRefused, psVars
<1>13. Goal
  BY Zenon, <1>2, <1>9, <1>10, <1>11, <1>12 DEF Connects
<1> QED
  BY Zenon, <1>13 DEF Goal

(* Work on a session takes one frame, posts, discards, or leaves the        *)
(* outboxes.                                                                *)
LEMMA WorksBoxes ==
  ASSUME PsTypeOK, SidsOK, SharedOK, VacantEmpty, NEW c \in Conns, Works(c)
  PROVE  [Boxes!BoxNext]_(Boxes!boxVars)
<1> DEFINE B == [x \in Sids |-> sess[x].outbox]
           Goal == [Boxes!BoxNext]_(Boxes!boxVars)
<1>1. sid[c] \in Sids
  BY Zenon, WorksShape DEF SidsOK, Working
<1>2. sess[sid[c]] \in Session
  BY Zenon, <1>1 DEF SharedOK
<1>3. ASSUME live' = live, sess' = sess PROVE Goal
  BY Zenon, <1>3, BoxesKept
<1>4. ASSUME NEW r, r.outbox = sess[sid[c]].outbox, live' = live,
             sess' = [sess EXCEPT ![sid[c]] = r]
      PROVE  Goal
  <2>1. \A x \in Sids : sess'[x].outbox = sess[x].outbox
    BY Zenon, <1>1, <1>4 DEF SharedOK
  <2> QED
    BY Zenon, <1>4, <2>1, BoxesKept
<1>5. ASSUME NEW r, NEW b, r.outbox = b, sess' = [sess EXCEPT ![sid[c]] = r]
      PROVE  B' = [B EXCEPT ![sid[c]] = b]
  <2>1. sess'[sid[c]].outbox = b /\ \A y \in Sids \ {sid[c]} : sess'[y].outbox = sess[y].outbox
    BY Zenon, <1>1, <1>5 DEF SharedOK
  <2> QED
    BY Zenon, <1>1, <2>1, BoxChanged
<1>6. ASSUME Flush(c) PROVE Goal
  <2>1. live' = live
    BY Zenon, <1>6 DEF Flush, psVars
  <2>2. CASE sess' = sess
    BY Zenon, <1>3, <2>1, <2>2
  <2>3. CASE sess' = [sess EXCEPT ![sid[c]].drops = 0]
    <3> DEFINE r == [sess[sid[c]] EXCEPT !.drops = 0]
    <3>1. r.outbox = sess[sid[c]].outbox
      BY Zenon, <1>2 DEF Session
    <3>2. sess' = [sess EXCEPT ![sid[c]] = r]
      BY Zenon, <2>3
    <3> HIDE DEF r
    <3> QED
      BY Zenon, <1>4, <2>1, <3>1, <3>2
  <2>4. CASE /\ Present(c) /\ sess[sid[c]].outbox # <<>>
             /\ sess' = [sess EXCEPT ![sid[c]].outbox = Tail(@)]
    <3> DEFINE r == [sess[sid[c]] EXCEPT !.outbox = Tail(@)]
    <3>1. r.outbox = Tail(sess[sid[c]].outbox)
      BY Zenon, <1>2 DEF Session
    <3>2. sess' = [sess EXCEPT ![sid[c]] = r]
      BY Zenon, <2>4
    <3> HIDE DEF r
    <3>3. B' = [B EXCEPT ![sid[c]] = Tail(sess[sid[c]].outbox)]
      BY Zenon, <1>5, <3>1, <3>2
    <3>4. B[sid[c]] = sess[sid[c]].outbox
      BY Zenon, <1>1
    <3>5. B[sid[c]] # <<>> /\ B' = [B EXCEPT ![sid[c]] = Tail(@)]
      BY Zenon, <2>4, <3>3, <3>4
    <3>6. sid[c] \in live
      BY Zenon, <2>4 DEF Present
    <3>7. \E x \in live : B[x] # <<>> /\ B' = [B EXCEPT ![x] = Tail(@)] /\ live' = live
      BY Zenon, <2>1, <3>5, <3>6
    <3> QED
      BY Zenon, <3>7 DEF Boxes!BoxNext, Boxes!Take
  <2> QED
    BY Zenon, <1>6, <2>2, <2>3, <2>4 DEF Flush
<1>7. ASSUME CheckEnds(c) \/ CheckPasses(c) PROVE Goal
  BY Zenon, <1>3, <1>7 DEF CheckEnds, CheckPasses, sharedVars, psVars
<1>8. ASSUME CheckRetries(c) PROVE Goal
  BY Zenon, <1>3, <1>8 DEF CheckRetries, RetryBegin, sharedVars
<1>9. ASSUME RetryWrite(c) PROVE Goal
  BY Zenon, <1>3, <1>9 DEF RetryWrite, RetrySent, sharedVars, psVars
<1>10. ASSUME WakeBySignal(c) PROVE Goal
  BY Zenon, <1>3, <1>10 DEF WakeBySignal, psVars
<1>11. ASSUME CleanupWill(c) PROVE Goal
  BY Zenon, <1>3, <1>11 DEF CleanupWill, psVars
<1>12. ASSUME CleanupPush(c) PROVE Goal
  BY Zenon, <1>12, WillPosts
<1>13. ASSUME CleanupRemove(c) PROVE Goal
  <2>1. Blank.outbox = <<>> /\ sess' = [sess EXCEPT ![sid[c]] = Blank]
    BY Zenon, <1>13 DEF CleanupRemove, Blank
  <2>2. CASE ~Present(c) /\ live' = live
    <3>1. sess[sid[c]].outbox = <<>>
      BY Zenon, <1>1, <2>2 DEF VacantEmpty, Present
    <3> QED
      BY Zenon, <1>4, <2>1, <2>2, <3>1
  <2>3. CASE Present(c) /\ RemoveSession(sid[c])
    <3>1. B' = [B EXCEPT ![sid[c]] = <<>>]
      BY Zenon, <1>5, <2>1
    <3>2. \E x \in Sids : x \in live /\ live' = live \ {x} /\ B' = [B EXCEPT ![x] = <<>>]
      BY Zenon, <1>1, <2>3, <3>1 DEF RemoveSession
    <3> QED
      BY Zenon, <3>2 DEF Boxes!BoxNext, Boxes!Discard
  <2> QED
    BY Zenon, <1>13, <2>2, <2>3 DEF CleanupRemove, psVars
<1>14. ASSUME NEW pid \in 1..PidMax, PubackPacket(c, pid) PROVE Goal
  BY Zenon, <1>3, <1>14 DEF PubackPacket, Puback, sharedVars
<1>15. ASSUME NEW t \in Topics, Unsubscribe(c, t) \/ \E q \in QoSLevels : Subscribe(c, t, q)
       PROVE  Goal
  <2>1. live' = live
    BY Zenon, <1>15 DEF Subscribe, Unsubscribe, psVars
  <2>2. sess' = sess \/ \E S : sess' = [sess EXCEPT ![sid[c]] = [sess[sid[c]] EXCEPT !.subs = S]]
    BY Zenon, <1>15 DEF Subscribe, Unsubscribe
  <2>3. \A S : [sess[sid[c]] EXCEPT !.subs = S].outbox = sess[sid[c]].outbox
    BY Zenon, <1>2 DEF Session
  <2> QED
    BY Zenon, <1>3, <1>4, <2>1, <2>2, <2>3
<1>16. ASSUME NEW t \in Topics, NEW q \in QoSLevels, NEW op \in Retains, NEW m \in Msgs,
              NEW size \in Sizes, NEW storable \in Storables,
              Publish(c, t, q, op, m, size, storable)
       PROVE  Goal
  <2>1. Fanout(Subscribers(t) \ {sid[c]}, t, q, m, size, storable)
    BY Zenon, <1>16 DEF Publish
  <2>2. Subscribers(t) \ {sid[c]} \in SUBSET Subscribers(t)
    BY Zenon
  <2> QED
    BY Zenon, <2>1, <2>2, FanoutPosts
<1>17. Goal
  <2> HIDE DEF Goal
  <2> QED
    BY Zenon, <1>6, <1>7, <1>8, <1>9, <1>10, <1>11, <1>12, <1>13, <1>14, <1>15, <1>16
       DEF Works
<1> QED
  BY Zenon, <1>17

(* Every step of the broker is one of the outboxes, or leaves them alone. *)
LEMMA BoxStep ==
  ASSUME BrokerInv, VacantEmpty, [BrokerNext]_brokerVars
  PROVE  [Boxes!BoxNext]_(Boxes!boxVars) /\ VacantEmpty'
<1> DEFINE Goal == [Boxes!BoxNext]_(Boxes!boxVars)
<1>1. PsTypeOK /\ SidsOK /\ SharedOK /\ live \subseteq Sids
  BY Zenon DEF BrokerInv, PsInv, SidsOK
<1>2. ASSUME live' = live, sess' = sess PROVE Goal
  BY Zenon, <1>2, BoxesKept
<1>3. ASSUME UNCHANGED brokerVars PROVE Goal
  BY Zenon, <1>2, <1>3 DEF brokerVars, psVars, sharedVars
<1>4. ASSUME NEW c \in Conns, Moves(c) PROVE Goal
  BY Zenon, <1>1, <1>2, <1>4, MovesShape DEF psVars, sharedVars
<1>5. ASSUME NEW c \in Conns, Works(c) PROVE Goal
  BY Zenon, <1>1, <1>5, WorksBoxes
<1>6. ASSUME NEW c \in Conns, Connects(c) PROVE Goal
  BY Zenon, <1>1, <1>6, ConnectsBoxes
<1>7. ASSUME NEW s \in Sids, RetryTimeout(s) PROVE Goal
  BY Zenon, <1>2, <1>7 DEF RetryTimeout, Expire, sharedVars
<1>8. ASSUME TakeCommand PROVE Goal
  BY Zenon, <1>2, <1>8 DEF TakeCommand, psVars
<1>9. ASSUME NEW t \in Topics, NEW q \in QoSLevels, NEW op \in Retains, NEW m \in Msgs,
             NEW size \in Sizes, OutboundPublish(t, q, op, m, size)
      PROVE  Goal
  <2>1. Fanout(Subscribers(t), t, q, m, size, TRUE)
    BY Zenon, <1>9 DEF OutboundPublish
  <2>2. Subscribers(t) \in SUBSET Subscribers(t)
    BY Zenon
  <2> QED
    BY Zenon, <1>1, <2>1, <2>2, FanoutPosts
<1>10. Goal
  <2> HIDE DEF Goal
  <2> QED
    BY Zenon, <1>3, <1>4, <1>5, <1>6, <1>7, <1>8, <1>9, StepKinds DEF Control
<1> QED
  BY Zenon, <1>1, <1>10, VacantStep

(* The outboxes of the broker are bounded queues: what fan-outs and wills   *)
(* put into them is written in that order and once, and is lost only with   *)
(* the session, for every number of connections and also when clients dial  *)
(* twice.                                                                   *)
THEOREM OutboxesAreFifo == BrokerSpec => FifoOutboxes
<1>1. BrokerInit => Boxes!BoxInit /\ VacantEmpty
  <2> SUFFICES ASSUME BrokerInit PROVE Boxes!BoxInit /\ VacantEmpty
    OBVIOUS
  <2>1. live = {} /\ sess = [s \in Sids |-> Blank] /\ Blank.outbox = <<>>
    BY Zenon DEF BrokerInit, PsInit, Blank
  <2>2. \A s \in Sids : sess[s].outbox = <<>>
    BY Zenon, <2>1
  <2>3. [s \in Sids |-> sess[s].outbox] = [s \in Sids |-> <<>>]
    BY Zenon, <2>2
  <2> QED
    BY Zenon, <2>1, <2>2, <2>3 DEF Boxes!BoxInit, VacantEmpty
<1>2. BrokerInv /\ VacantEmpty /\ [BrokerNext]_brokerVars
        => [Boxes!BoxNext]_(Boxes!boxVars) /\ VacantEmpty'
  BY BoxStep
<1> QED
  BY <1>1, <1>2, BrokerInvariant, PTL DEF BrokerSpec, FifoOutboxes, Boxes!BoxSpec
=============================================================================
