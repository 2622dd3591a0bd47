------------------------------- MODULE Broker -------------------------------
(***************************************************************************)
(* The GatoMQTT broker: connection_loop tasks that share the session       *)
(* registry, the retained store and one wake-up signal per session slot.   *)
(*                                                                         *)
(* A locked section without an await inside is one action.  The points     *)
(* where other tasks can slip in are program counter values: the transport *)
(* reads and writes, the select on packet, timer and signal, and the gaps  *)
(* between two locked sections.  The library leaves the executor open, and *)
(* with several executors other tasks may run in such a gap; on the one    *)
(* cooperative executor of the firmware (OneExecutor) they may not.  The   *)
(* registry mutex is held across an await in one place, the retry write,   *)
(* and "lock" is that holder.  The retained mutex is only taken under the  *)
(* registry mutex and never held across an await: it needs no variable.    *)
(*                                                                         *)
(* What peers send, whether a write succeeds, when a timer fires and what  *)
(* the rate limiter decides are nondeterministic.                          *)
(***************************************************************************)
EXTENDS PublishStore, Sequences

CONSTANTS
  Conns,           \* connection tasks (the worker pool of the firmware)
  Clients,         \* client identifiers
  Topics,
  CommandTopics,   \* those that match sb/+/device/+/set
  QoSLevels,       \* QoS values that clients use
  Wills,           \* wills that clients register
  Sizes,           \* frame sizes that publishers use
  Retains,         \* what publishes ask of the retained store
  Storables,       \* do topic and payload fit 128 and 512 bytes?
  MaxSubs,         \* MAX_SUBS
  OutboxDepth,     \* MAX_OUTBOX_DEPTH
  MaxOutboxDrops,  \* GATOMQTT_CONFIG.max_outbox_drops
  DropsCap,        \* u8::MAX, where outbox_drops saturates
  MaxRetained,     \* MAX_RETAINED
  InboundN,        \* capacity of the command channel
  Takeover,        \* may a client dial again while it is still connected?
  OneExecutor,     \* do all tasks share one cooperative executor?
  NoConn, NoClient, NoLwt

ASSUME BrokerConstantsOK ==
  /\ CommandTopics \subseteq Topics /\ QoSLevels \subseteq 0..2
  /\ Retains \subseteq {"none", "set", "clear"} /\ Storables \subseteq BOOLEAN
  /\ Sizes \subseteq {"small", "edge", "large"}
  /\ Wills \subseteq [topic : Topics, retain : {"none", "set", "clear"},
                      size : {"small", "edge", "large"}]
  /\ {MaxSubs, OutboxDepth, MaxOutboxDrops, MaxRetained, InboundN} \subseteq Nat
  /\ DropsCap \in Nat /\ MaxOutboxDrops <= DropsCap
  /\ Takeover \in BOOLEAN /\ OneExecutor \in BOOLEAN
  /\ NoConn \notin Conns /\ NoClient \notin Clients /\ NoLwt \notin Wills

VARIABLES
  pc,         \* where each connection task is
  who,        \* the client behind a connection (not known to the loop)
  sid,        \* session_id, the loop's local copy
  sess,       \* registry slots: the fields of SessionState
  signal,     \* outbox_signals
  retained,   \* topics with a retained entry
  published,  \* length of published_lwts
  cmds,       \* intents in the command channel
  lock,       \* the connection inside a retry write, else NoConn
  retrySlot,  \* store slot of the entry being retried
  deliveries, \* will recipients recorded by cleanup: set of <<sid, qos>>
  owner       \* history: the connection that a slot was last accepted for

connVars == <<pc, who, sid, deliveries>>
sharedVars == <<sess, signal, retained, published, cmds>>
lockVars == <<lock, retrySlot>>
brokerVars == <<connVars, owner, sharedVars, lockVars, psVars>>

NoSid == MaxSessions
NoSub == -1
Frame == [kind : {"publish", "lwt"}, qos : QoSLevels, pid : 0..PidMax]
Blank == [client |-> NoClient, subs |-> [t \in Topics |-> NoSub],
          outbox |-> <<>>, drops |-> 0, quarantined |-> FALSE, lwt |-> NoLwt]
Session ==
  [client : Clients \cup {NoClient}, subs : [Topics -> QoSLevels \cup {NoSub}],
   outbox : Seq(Frame), drops : 0..DropsCap,
   quarantined : BOOLEAN, lwt : Wills \cup {NoLwt}]

Looping == {"flush", "flushWrite", "check", "retryWrite", "wait", "reply"}
Cleanup == {"lwt", "lwtPush", "remove"}
PCs == {"idle", "hello", "connack", "reject", "close"} \cup Looping \cup Cleanup

BrokerInit ==
  /\ PsInit
  /\ pc = [c \in Conns |-> "idle"]
  /\ who = [c \in Conns |-> NoClient]
  /\ sid = [c \in Conns |-> NoSid]
  /\ sess = [s \in Sids |-> Blank]
  /\ signal = [s \in Sids |-> FALSE]
  /\ retained = {} /\ published = 0 /\ cmds = 0
  /\ lock = NoConn /\ retrySlot = 0
  /\ deliveries = [c \in Conns |-> {}]
  /\ owner = [s \in Sids |-> NoConn]
-----------------------------------------------------------------------------
(* A task between two of its awaits.  While there is one, a single executor *)
(* polls nothing else.                                                      *)
Running(c) ==
  pc[c] \in {"flush", "check"} \cup Cleanup /\ lock \in {NoConn, c}

PollsOther == OneExecutor => \A d \in Conns : ~Running(d)
Polls(c) == Running(c) \/ PollsOther

Goto(c, from, to) == pc[c] = from /\ Polls(c) /\ pc' = [pc EXCEPT ![c] = to]

(* Mutant of LockFree: sections do not wait for the registry mutex. *)
LockIgnored == TRUE

LockFree == lock = NoConn

(* The session that connection c works on is still in its slot.  The test   *)
(* compares nothing but the slot index, as registry.get does.               *)
Present(c) == sid[c] \in live

(* Mutant of SessionsOf: the client id is not compared. *)
SessionsOfAnyone(k) == live

(* Mutant of SessionsOf: an existing session is never found. *)
SessionsOfNobody(k) == {}

(* find_by_client_id: the lowest slot with that client. *)
SessionsOf(k) == {s \in live : sess[s].client = k}
IsSessionOf(s, k) == s \in SessionsOf(k) /\ \A t \in SessionsOf(k) : s <= t

(* Mutant of ResetSignals: the signals of occupied slots are reset too. *)
ResetAllSignals(S) == signal' = [s \in Sids |-> FALSE]

(* reset_empty_session_signals, and reset_session_signal for those in S. *)
ResetSignals(S) ==
  signal' = [s \in Sids |-> signal[s] /\ s \in live' /\ s \notin S]

(* signal_session for those in S. *)
SignalSessions(S) == signal' = [s \in Sids |-> signal[s] \/ s \in S]

(* A frame fits the 192 byte buffer: at the edge only without packet id. *)
Fits(size, q) == size = "small" \/ (size = "edge" /\ q = 0)

(* Mutant of HasRoom: one frame too many. *)
HasRoomForOneMore(s) == Len(sess[s].outbox) <= OutboxDepth

(* outbox.push_back succeeds. *)
HasRoom(s) == Len(sess[s].outbox) < OutboxDepth

Lower(q, r) == IF q <= r THEN q ELSE r
-----------------------------------------------------------------------------
(* A worker accepts a socket and enters connection_loop, which waits up to  *)
(* 10 s for CONNECT.                                                        *)
Dial(c, k) ==
  /\ Goto(c, "idle", "hello")
  /\ Takeover \/ \A d \in Conns : who[d] # k
  /\ who' = [who EXCEPT ![c] = k]
  /\ UNCHANGED <<sid, deliveries, owner, sharedVars, lockVars, psVars>>

(* Timeout, unreadable packet or another packet first. *)
HelloFails(c) ==
  /\ Goto(c, "hello", "close")
  /\ UNCHANGED <<who, sid, deliveries, owner, sharedVars, lockVars, psVars>>

(* In the history variable "owner", a session that a CONNECT removes is no  *)
(* longer anybody's.                                                        *)
Leave(c, displaced) ==
  /\ Polls(c)
  /\ pc' = [pc EXCEPT ![c] = "idle"]
  /\ who' = [who EXCEPT ![c] = NoClient]
  /\ sid' = [sid EXCEPT ![c] = NoSid]
  /\ owner' = [s \in Sids |-> IF owner[s] = c \/ s \in displaced
                               THEN NoConn ELSE owner[s]]
  /\ UNCHANGED deliveries

Accept(c, s, displaced) ==
  /\ Polls(c)
  /\ pc' = [pc EXCEPT ![c] = "connack"]
  /\ sid' = [sid EXCEPT ![c] = s]
  /\ ResetSignals({s})
  /\ owner' = [x \in Sids |-> IF x = s THEN c
                               ELSE IF x \in displaced THEN NoConn
                               ELSE owner[x]]
  /\ UNCHANGED <<who, deliveries>>

(* Wrong protocol, empty client id or wrong house token. *)
ConnectRefused(c) ==
  /\ LockFree /\ Goto(c, "hello", "reject")
  /\ UNCHANGED <<who, sid, deliveries, owner, sess, retained, published, cmds,
                 lockVars, psVars>>
  /\ ResetSignals({})

(* clean_session = 0 and a session of that client exists: it is taken over  *)
(* with its subscriptions, inflight list and outbox.                        *)
ConnectResume(c, will) ==
  /\ pc[c] = "hello" /\ LockFree
  /\ UNCHANGED <<retained, published, cmds, lockVars, psVars>>
  /\ \E s \in Sids :
       /\ IsSessionOf(s, who[c])
       /\ sess' = [sess EXCEPT ![s].lwt = will, ![s].quarantined = FALSE,
                               ![s].drops = 0]
       /\ Accept(c, s, {})

NewSession(k, will) == [Blank EXCEPT !.client = k, !.lwt = will]

(* No session of that client: the lowest vacant slot, or refusal. *)
ConnectNew(c, will) ==
  /\ pc[c] = "hello" /\ LockFree /\ SessionsOf(who[c]) = {}
  /\ \/ /\ live = Sids
        /\ Goto(c, "hello", "reject")
        /\ UNCHANGED <<who, sid, deliveries, owner, sess, psVars>>
        /\ ResetSignals({})
     \/ \E s \in Sids :
          /\ InsertSession(s)
          /\ sess' = [sess EXCEPT ![s] = NewSession(who[c], will)]
          /\ Accept(c, s, {})
  /\ UNCHANGED <<retained, published, cmds, lockVars>>

(* clean_session = 1 and a session of that client exists: the old session   *)
(* is removed, the new one inserted, and then the old will is queued.  When *)
(* the queue is full the handler returns an error, after the insert.        *)
ConnectReplace(c, will) ==
  /\ pc[c] = "hello" /\ LockFree
  /\ \E s, t \in Sids :
       /\ IsSessionOf(s, who[c])
       /\ ReplaceSession(s, t)
       /\ sess' = [[sess EXCEPT ![s] = Blank]
                     EXCEPT ![t] = NewSession(who[c], will)]
       /\ \/ /\ sess[s].lwt = NoLwt
             /\ Accept(c, t, {s}) /\ UNCHANGED published
          \/ /\ sess[s].lwt # NoLwt /\ published < MaxSessions
             /\ Accept(c, t, {s}) /\ published' = published + 1
          \/ /\ sess[s].lwt # NoLwt /\ published = MaxSessions
             /\ Leave(c, {s}) /\ ResetSignals({}) /\ UNCHANGED published
  /\ UNCHANGED <<retained, cmds, lockVars>>

(* The will does not fit its fixed buffers.  With clean_session the old     *)
(* session has been removed by then.                                        *)
ConnectBadWill(c, clean) ==
  /\ pc[c] = "hello" /\ LockFree
  /\ \/ /\ IF SessionsOf(who[c]) = {} THEN live # Sids ELSE ~clean
        /\ UNCHANGED <<sess, psVars>> /\ Leave(c, {})
     \/ /\ clean
        /\ \E s \in Sids :
             /\ IsSessionOf(s, who[c])
             /\ RemoveSession(s)
             /\ sess' = [sess EXCEPT ![s] = Blank]
             /\ Leave(c, {s})
  /\ ResetSignals({})
  /\ UNCHANGED <<retained, published, cmds, lockVars>>

(* CONNACK: when the write fails the task ends and the session stays. *)
Connack(c) ==
  /\ Goto(c, "connack", "flush") \/ Goto(c, "connack", "close")
  /\ UNCHANGED <<who, sid, deliveries, owner, sharedVars, lockVars, psVars>>

Reject(c) ==
  /\ Goto(c, "reject", "close")
  /\ UNCHANGED <<who, sid, deliveries, owner, sharedVars, lockVars, psVars>>

Close(c) ==
  /\ pc[c] = "close" /\ Leave(c, {})
  /\ UNCHANGED <<sharedVars, lockVars, psVars>>
-----------------------------------------------------------------------------
(* flush_outbox_for_session: one frame per locked section, written without  *)
(* the lock, until the outbox is found empty.                               *)
Flush(c) ==
  /\ pc[c] = "flush" /\ LockFree
  /\ \/ /\ ~Present(c) /\ Goto(c, "flush", "check") /\ UNCHANGED sess
     \/ /\ Present(c) /\ sess[sid[c]].outbox = <<>>
        /\ Goto(c, "flush", "check")
        /\ sess' = [sess EXCEPT ![sid[c]].drops = 0]
     \/ /\ Present(c) /\ sess[sid[c]].outbox # <<>>
        /\ Goto(c, "flush", "flushWrite")
        /\ sess' = [sess EXCEPT ![sid[c]].outbox = Tail(@)]
  /\ UNCHANGED <<who, sid, deliveries, owner, signal, retained, published, cmds,
                 lockVars, psVars>>

FlushWrite(c) ==
  /\ Goto(c, "flushWrite", "flush") \/ Goto(c, "flushWrite", "lwt")
  /\ UNCHANGED <<who, sid, deliveries, owner, sharedVars, lockVars, psVars>>

(* Mutant of Ended: the quarantine flag is not looked at. *)
EndedWhenGone(c) == ~Present(c)

Ended(c) == ~Present(c) \/ sess[sid[c]].quarantined

Due(s) == {e \in inflight[s] : e.due}

(* The locked section before the select.  It is entered with the lock free, *)
(* and re-entered by its owner after each retry write.                      *)
CheckEnds(c) ==
  /\ pc[c] = "check" /\ lock \in {NoConn, c}
  /\ Ended(c)
  /\ Goto(c, "check", "lwt")
  /\ lock' = NoConn
  /\ UNCHANGED <<who, sid, deliveries, owner, sharedVars, retrySlot, psVars>>

CheckPasses(c) ==
  /\ pc[c] = "check" /\ lock \in {NoConn, c}
  /\ ~Ended(c) /\ Due(sid[c]) = {}
  /\ Goto(c, "check", "wait")
       \/ Goto(c, "check", "lwt")   \* keepalive expired
  /\ lock' = NoConn
  /\ UNCHANGED <<who, sid, deliveries, owner, sharedVars, retrySlot, psVars>>

CheckRetries(c) ==
  /\ pc[c] = "check" /\ lock \in {NoConn, c}
  /\ ~Ended(c)
  /\ \E e \in Due(sid[c]) :
       /\ RetryBegin(sid[c], e)
       /\ \/ /\ e.retries >= MaxRetries
             /\ Goto(c, "check", "lwt") /\ lock' = NoConn
             /\ UNCHANGED retrySlot
          \/ /\ e.retries < MaxRetries
             /\ Goto(c, "check", "retryWrite") /\ lock' = c
             /\ retrySlot' = e.slot
  /\ UNCHANGED <<who, sid, deliveries, owner, sharedVars>>

RetryWrite(c) ==
  /\ \/ /\ Goto(c, "retryWrite", "check") /\ UNCHANGED lock
        /\ \E e \in Due(sid[c]) : e.slot = retrySlot /\ RetrySent(sid[c], e)
     \/ /\ Goto(c, "retryWrite", "lwt") /\ lock' = NoConn
        /\ UNCHANGED psVars
  /\ retrySlot' = 0
  /\ UNCHANGED <<who, sid, deliveries, owner, sharedVars>>

(* Time passes.  A retry pass works with the time at which it began. *)
RetryTimeout(s) ==
  /\ LockFree
  /\ \E e \in inflight[s] : Expire(s, e)
  /\ UNCHANGED <<connVars, owner, sharedVars, lockVars>>
-----------------------------------------------------------------------------
(* Mutant of WakeByTimer: a timer wake-up only runs the checks. *)
WakeByTimerSkipsFlush(c) ==
  /\ Goto(c, "wait", "check")
  /\ UNCHANGED <<who, sid, deliveries, owner, sharedVars, lockVars, psVars>>

(* The select: a complete packet, the timer or the signal.  A wake-up by    *)
(* timer or signal only restarts the loop.                                  *)
WakeByTimer(c) ==
  /\ Goto(c, "wait", "flush")
  /\ UNCHANGED <<who, sid, deliveries, owner, sharedVars, lockVars, psVars>>

WakeBySignal(c) ==
  /\ Goto(c, "wait", "flush")
  /\ signal[sid[c]] /\ signal' = [signal EXCEPT ![sid[c]] = FALSE]
  /\ UNCHANGED <<who, sid, deliveries, owner, sess, retained, published, cmds,
                 lockVars, psVars>>

(* End of stream or a read error: an unclean end. *)
ReadFails(c) ==
  /\ Goto(c, "wait", "lwt")
  /\ UNCHANGED <<who, sid, deliveries, owner, sharedVars, lockVars, psVars>>

Disconnect(c) ==
  /\ Goto(c, "wait", "remove")
  /\ UNCHANGED <<who, sid, deliveries, owner, sharedVars, lockVars, psVars>>

(* Any packet but DISCONNECT finds the session gone. *)
PacketWithoutSession(c) ==
  /\ LockFree /\ ~Present(c)
  /\ Goto(c, "wait", "lwt")
  /\ UNCHANGED <<who, sid, deliveries, owner, sharedVars, lockVars, psVars>>

(* PINGREQ is answered; other packets only count as activity. *)
Ping(c) ==
  /\ LockFree /\ Present(c)
  /\ Goto(c, "wait", "reply") \/ Goto(c, "wait", "flush")
  /\ UNCHANGED <<who, sid, deliveries, owner, sharedVars, lockVars, psVars>>

PubackPacket(c, pid) ==
  /\ LockFree /\ Present(c)
  /\ Goto(c, "wait", "flush")
  /\ Puback(sid[c], pid)
  /\ UNCHANGED <<who, sid, deliveries, owner, sharedVars, lockVars>>

Subscribed(s) == {t \in Topics : sess[s].subs[t] # NoSub}

(* A known filter is updated, a new one needs room. *)
Subscribe(c, t, q) ==
  /\ LockFree /\ Present(c)
  /\ Goto(c, "wait", "reply")
  /\ IF t \in Subscribed(sid[c]) \/ Cardinality(Subscribed(sid[c])) < MaxSubs
     THEN sess' = [sess EXCEPT ![sid[c]].subs[t] = q]
     ELSE UNCHANGED sess
  /\ UNCHANGED <<who, sid, deliveries, owner, signal, retained, published, cmds,
                 lockVars, psVars>>

Unsubscribe(c, t) ==
  /\ LockFree /\ Present(c)
  /\ Goto(c, "wait", "reply")
  /\ sess' = [sess EXCEPT ![sid[c]].subs[t] = NoSub]
  /\ UNCHANGED <<who, sid, deliveries, owner, signal, retained, published, cmds,
                 lockVars, psVars>>

(* PUBACK, SUBACK with retained messages, UNSUBACK, PINGRESP. *)
Reply(c) ==
  /\ Goto(c, "reply", "flush") \/ Goto(c, "reply", "lwt")
  /\ UNCHANGED <<who, sid, deliveries, owner, sharedVars, lockVars, psVars>>
-----------------------------------------------------------------------------
(* retained.set, called when the retain flag is set: an empty payload       *)
(* ("clear") deletes the entry, a new topic needs room, and a topic or      *)
(* payload that is too long is an error.                                    *)
RetainFails(t, op, storable) ==
  \/ op # "none" /\ ~storable
  \/ op = "set" /\ t \notin retained /\ Cardinality(retained) >= MaxRetained

Retain(t, op) ==
  CASE op = "none" -> retained
    [] op = "set" -> retained \cup {t}
    [] op = "clear" -> retained \ {t}

(* The fan-out of a publish on t to the sessions in subs, in slot order.    *)
(* The first subscriber whose frame does not fit ends it with an error; it  *)
(* has drawn its packet id by then.  A full outbox costs the subscriber the *)
(* frame and counts towards its quarantine.                                 *)
Fanout(subs, t, q, m, size, storable) ==
  LET eff(s) == Lower(q, sess[s].subs[t])
      misfit == {s \in subs : ~Fits(size, eff(s))}
      reached == {s \in subs : \A x \in misfit : s < x}
      drawn == {s \in subs : eff(s) # 0 /\ \A x \in misfit : s <= x}
      pushed == {s \in reached : HasRoom(s)}
      frame(s) == [kind |-> "publish", qos |-> eff(s),
                   pid |-> IF eff(s) = 0 THEN 0 ELSE NextPacketId(nextPid[s])]
      drops(s) == IF sess[s].drops = DropsCap THEN DropsCap
                  ELSE sess[s].drops + 1
  IN  /\ Route(drawn, {s \in pushed : eff(s) = 1}, m, storable)
      /\ sess' = [s \in Sids |->
           IF s \in pushed
           THEN [sess[s] EXCEPT !.outbox = Append(@, frame(s))]
           ELSE IF s \in reached
           THEN [sess[s] EXCEPT !.drops = drops(s),
                   !.quarantined = @ \/ drops(s) >= MaxOutboxDrops]
           ELSE sess[s]]
      /\ SignalSessions(pushed)

(* find_subscribers and find_all_subscribers. *)
Subscribers(t) == {s \in live : sess[s].subs[t] # NoSub}

FanoutFails(subs, t, q, size) ==
  \E s \in subs : ~Fits(size, Lower(q, sess[s].subs[t]))

(* The rate limiter refuses: QoS 0 is dropped, or the client is cut off. *)
PublishLimited(c, q) ==
  /\ LockFree /\ Present(c)
  /\ \/ q = 0 /\ Goto(c, "wait", "flush")
     \/ Goto(c, "wait", "lwt")
  /\ UNCHANGED <<who, sid, deliveries, owner, sharedVars, lockVars, psVars>>

(* After an error that is neither rate limit nor overload the loop goes on  *)
(* as after a success: a QoS 1 publish is acknowledged.                     *)
Acknowledge(c, q) == Goto(c, "wait", IF q = 1 THEN "reply" ELSE "flush")

PublishNotRetained(c, t, q, op, storable) ==
  /\ LockFree /\ Present(c)
  /\ RetainFails(t, op, storable)
  /\ Acknowledge(c, q)
  /\ UNCHANGED <<who, sid, deliveries, owner, sharedVars, lockVars, psVars>>

(* command_handler.handle: try_send on the bounded channel succeeds. *)
HandlerAccepts == cmds < InboundN

(* handle_publish past the limiter and the retained store.  A command topic *)
(* goes to the command channel last, when the fan-out succeeded and it fits *)
(* an MqttIntent.                                                           *)
Publish(c, t, q, op, m, size, storable) ==
  LET subs == Subscribers(t) \ {sid[c]}
      command == t \in CommandTopics /\ ~FanoutFails(subs, t, q, size) /\ storable
  IN  /\ LockFree /\ Present(c)
      /\ ~RetainFails(t, op, storable)
      /\ retained' = Retain(t, op)
      /\ Fanout(subs, t, q, m, size, storable)
      /\ IF command /\ HandlerAccepts
         THEN cmds' = cmds + 1 /\ Acknowledge(c, q)
         ELSE /\ UNCHANGED cmds
              /\ IF command /\ q # 0 THEN Goto(c, "wait", "lwt")
                                     ELSE Acknowledge(c, q)
      /\ UNCHANGED <<who, sid, deliveries, owner, published, lockVars>>

(* process_outbound_publish, called by the control domain; an MqttPublish   *)
(* always fits the stores.                                                  *)
OutboundPublish(t, q, op, m, size) ==
  /\ PollsOther /\ LockFree
  /\ ~RetainFails(t, op, TRUE)
  /\ retained' = Retain(t, op)
  /\ Fanout(Subscribers(t), t, q, m, size, TRUE)
  /\ UNCHANGED <<connVars, owner, published, cmds, lockVars>>

(* The application takes an intent from the command channel. *)
TakeCommand ==
  /\ PollsOther /\ cmds > 0 /\ cmds' = cmds - 1
  /\ UNCHANGED <<connVars, owner, sess, signal, retained, published, lockVars, psVars>>
-----------------------------------------------------------------------------
(* cleanup_connection, first section: who gets the will of the session that *)
(* is in the slot now.  A retained will that finds no room goes to nobody.  *)
WillTargets(s) ==
  {<<t, sess[t].subs[sess[s].lwt.topic]>> :
     t \in {u \in Subscribers(sess[s].lwt.topic) : sess[u].client # sess[s].client}}

(* The broadcaster's record for the cloned will.  The recipients whose      *)
(* frame will not fit are passed over when the frames are made.             *)
Recorded(to, will) == {d \in to : Fits(will.size, d[2])}

CleanupWill(c) ==
  /\ pc[c] = "lwt" /\ LockFree
  /\ \/ /\ ~Present(c) \/ sess[sid[c]].lwt = NoLwt
        /\ Goto(c, "lwt", "remove") /\ UNCHANGED <<retained, deliveries>>
     \/ /\ Present(c) /\ sess[sid[c]].lwt # NoLwt
        /\ LET will == sess[sid[c]].lwt
               full == RetainFails(will.topic, will.retain, TRUE)
               to == IF full THEN {} ELSE WillTargets(sid[c])
           IN  /\ retained' = IF full THEN retained
                              ELSE Retain(will.topic, will.retain)
               /\ Goto(c, "lwt", IF to = {} THEN "remove" ELSE "lwtPush")
               /\ deliveries' = [deliveries EXCEPT ![c] = Recorded(to, will)]
  /\ UNCHANGED <<who, sid, owner, sess, signal, published, cmds, lockVars, psVars>>

(* Every will frame with a packet id carries id 1. *)
LwtFrame(q) == [kind |-> "lwt", qos |-> q, pid |-> IF q = 0 THEN 0 ELSE 1]

(* Second section: frames for the recorded recipients whose slots are still *)
(* occupied.  A full outbox swallows the will without counting a drop.      *)
CleanupPush(c) ==
  LET pushed == {d \in deliveries[c] :
                   d[1] \in live /\ HasRoom(d[1])}
  IN  /\ LockFree
      /\ Goto(c, "lwtPush", "remove")
      /\ sess' = [s \in Sids |->
           IF \E d \in pushed : d[1] = s
           THEN [sess[s] EXCEPT !.outbox =
                   Append(@, LwtFrame((CHOOSE d \in pushed : d[1] = s)[2]))]
           ELSE sess[s]]
      /\ SignalSessions({d[1] : d \in pushed})
      /\ deliveries' = [deliveries EXCEPT ![c] = {}]
      /\ UNCHANGED <<who, sid, owner, retained, published, cmds, lockVars, psVars>>

(* Mutant of CleanupRemove: the inflight references are not released. *)
CleanupRemoveLeaks(c) ==
  /\ LockFree
  /\ Goto(c, "remove", "close")
  /\ live' = live \ {sid[c]}
  /\ inflight' = [inflight EXCEPT ![sid[c]] = {}]
  /\ nextPid' = [nextPid EXCEPT ![sid[c]] = 0]
  /\ sess' = [sess EXCEPT ![sid[c]] = Blank]
  /\ signal' = [signal EXCEPT ![sid[c]] = FALSE]
  /\ UNCHANGED <<store, nextGen, who, sid, deliveries, owner, retained, published,
                 cmds, lockVars>>

(* Third section: whatever session is in the slot is removed. *)
CleanupRemove(c) ==
  /\ LockFree
  /\ Goto(c, "remove", "close")
  /\ \/ Present(c) /\ RemoveSession(sid[c])
     \/ ~Present(c) /\ UNCHANGED psVars
  /\ sess' = [sess EXCEPT ![sid[c]] = Blank]
  /\ signal' = [signal EXCEPT ![sid[c]] = FALSE]
  /\ UNCHANGED <<who, sid, deliveries, owner, retained, published, cmds, lockVars>>
-----------------------------------------------------------------------------
(* Steps the executor owes to a connection: every write ends (the sockets   *)
(* have a 30 s timeout), every timer fires, every woken task is polled.     *)
Progress(c) ==
  \/ HelloFails(c) \/ Connack(c) \/ Reject(c) \/ Close(c)
  \/ Flush(c) \/ FlushWrite(c)
  \/ CheckEnds(c) \/ CheckPasses(c) \/ CheckRetries(c) \/ RetryWrite(c)
  \/ WakeByTimer(c) \/ WakeBySignal(c) \/ Reply(c)
  \/ CleanupWill(c) \/ CleanupPush(c) \/ CleanupRemove(c)

(* What the peer may send, and when it may come and go. *)
Peer(c) ==
  \/ \E k \in Clients : Dial(c, k)
  \/ ConnectRefused(c)
  \/ \E will \in Wills \cup {NoLwt} :
       ConnectResume(c, will) \/ ConnectNew(c, will) \/ ConnectReplace(c, will)
  \/ \E clean \in BOOLEAN : ConnectBadWill(c, clean)
  \/ ReadFails(c) \/ Disconnect(c) \/ PacketWithoutSession(c) \/ Ping(c)
  \/ \E pid \in 1..PidMax : PubackPacket(c, pid)
  \/ \E t \in Topics, q \in QoSLevels : Subscribe(c, t, q)
  \/ \E t \in Topics : Unsubscribe(c, t)
  \/ \E q \in QoSLevels : PublishLimited(c, q)
  \/ \E t \in Topics, q \in QoSLevels, op \in Retains, storable \in Storables :
       PublishNotRetained(c, t, q, op, storable)
  \/ \E t \in Topics, q \in QoSLevels, op \in Retains, m \in Msgs,
        size \in Sizes, storable \in Storables :
       Publish(c, t, q, op, m, size, storable)

Control ==
  \/ TakeCommand
  \/ \E t \in Topics, q \in QoSLevels, op \in Retains, m \in Msgs, size \in Sizes :
       OutboundPublish(t, q, op, m, size)

BrokerNext ==
  \/ \E c \in Conns : Progress(c) \/ Peer(c)
  \/ \E s \in Sids : RetryTimeout(s)
  \/ Control

BrokerSpec == BrokerInit /\ [][BrokerNext]_brokerVars

Fairness == \A c \in Conns : WF_brokerVars(Progress(c))

FairBrokerSpec == BrokerSpec /\ Fairness
-----------------------------------------------------------------------------
BrokerTypeOK ==
  /\ PsTypeOK
  /\ pc \in [Conns -> PCs]
  /\ who \in [Conns -> Clients \cup {NoClient}]
  /\ sid \in [Conns -> Sids \cup {NoSid}]
  /\ sess \in [Sids -> Session]
  /\ \A s \in Sids : Len(sess[s].outbox) <= OutboxDepth
  /\ signal \in [Sids -> BOOLEAN]
  /\ retained \subseteq Topics /\ Cardinality(retained) <= MaxRetained
  /\ published \in 0..MaxSessions /\ cmds \in 0..InboundN
  /\ lock \in Conns \cup {NoConn}
  /\ retrySlot \in Slots \cup {0}
  /\ deliveries \in [Conns -> SUBSET (Sids \X QoSLevels)]
  /\ owner \in [Sids -> Conns \cup {NoConn}]

Serves(c, s) == owner[s] = c /\ sid[c] = s /\ pc[c] \in Looping

(* The connection that a session was last accepted for keeps it: while that *)
(* connection is in its loop, the slot holds its client's session.  Nothing *)
(* that other connections do, their cleanup included, takes it away or puts *)
(* another client's session under it.  (It needs Takeover = FALSE, although *)
(* prepare_connect says of a session that is resumed: "subscriptions,       *)
(* inflight, and outbox are preserved".)                                    *)
OwnerKeepsSession ==
  \A c \in Conns, s \in Sids :
    Serves(c, s) => s \in live /\ sess[s].client = who[c]

(* What a step of others may do to session s: put one frame at the end of   *)
(* its outbox and raise its signal, and count a lost frame; entries of its  *)
(* inflight list are added or become due.                                   *)
OnlyAdds(s) ==
  /\ sess'[s].client = sess[s].client /\ sess'[s].subs = sess[s].subs
  /\ sess'[s].lwt = sess[s].lwt
  /\ sess[s].quarantined => sess'[s].quarantined
  /\ \/ sess'[s].outbox = sess[s].outbox /\ signal'[s] = signal[s]
     \/ signal'[s] /\ \E f \in Frame : sess'[s].outbox = Append(sess[s].outbox, f)
  /\ \A e \in inflight[s] :
       e \in inflight'[s] \/ [e EXCEPT !.due = TRUE] \in inflight'[s]

(* Between two steps of the connection that a session belongs to, other     *)
(* tasks only add to the session.  Their fan-outs, cleanups and CONNECTs    *)
(* never take a frame, a subscription, the will or an unacknowledged        *)
(* publish from it, and never add a frame without raising its signal.  (It  *)
(* needs Takeover = FALSE.)                                                 *)
OthersOnlyAdd ==
  [][\A c \in Conns, s \in Sids :
       Serves(c, s) /\ pc'[c] = pc[c] => OnlyAdds(s)]_brokerVars

(* The outboxes are bounded queues, whatever CONNECTs, cleanups and flushes *)
(* meet in a slot: flush_outbox_for_session writes what route_publish and   *)
(* cleanup_connection pushed, in that order and once.                       *)
Boxes == INSTANCE Outboxes WITH
           Frames <- Frame, Depth <- OutboxDepth, boxes <- [s \in Sids |-> sess[s].outbox]
FifoOutboxes == Boxes!BoxSpec

(* prepare_connect never leaves two sessions for one client id. *)
OneSessionPerClient ==
  \A s, t \in live : sess[s].client = sess[t].client => s = t

(* No frame is left in the outbox of a connection that sleeps in select     *)
(* unless its signal is raised: push_back and signal_session cannot fall    *)
(* between the flush that found the outbox empty and the wait.  (It needs   *)
(* Takeover = FALSE: two connections that serve one slot share its signal,  *)
(* and the one that is displaced may consume it.)                           *)
NoLostWakeup ==
  \A c \in Conns, s \in Sids :
    Serves(c, s) /\ pc[c] = "wait" /\ sess[s].outbox # <<>> => signal[s]

(* The mutex is held across an await only by a connection whose session is  *)
(* in the registry and has the retried entry, with retries left: the holder *)
(* can always record the retry and go on, so nobody waits for ever.         *)
RetryHoldsEntry ==
  lock # NoConn =>
    /\ pc[lock] \in {"check", "retryWrite"} /\ sid[lock] \in live
    /\ pc[lock] = "retryWrite" =>
         \E e \in inflight[sid[lock]] :
           e.slot = retrySlot /\ e.due /\ e.retries \in 1..MaxRetries

(* A queued frame is taken for writing, or the connection leaves its loop:  *)
(* no cycle of the loop passes by a non-empty outbox for ever.  (It needs   *)
(* Takeover = FALSE: a CONNECT that replaces the session drops its outbox.) *)
OutboxServed ==
  \A c \in Conns :
    pc[c] \in Looping /\ Present(c) /\ sess[sid[c]].outbox # <<>>
      ~> pc[c] = "flushWrite" \/ pc[c] \notin Looping

Quarantined(s) == \E c \in Conns : Serves(c, s) /\ sess[s].quarantined

(* A quarantined subscriber is disconnected, unless frames keep arriving:   *)
(* the flag is only looked at once the outbox was found empty.              *)
QuarantineActsWhenDrained ==
  \A s \in Sids :
    (Quarantined(s) ~> ~Quarantined(s)) \/ []<>(sess[s].outbox # <<>>)
=============================================================================
