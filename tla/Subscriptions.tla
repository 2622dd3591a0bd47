--------------------------- MODULE Subscriptions ---------------------------
(***************************************************************************)
(* What one client sees of retained topics: handler/subscribe.rs with      *)
(* router/subscriptions.rs, router/dispatcher.rs and router/retained.rs,   *)
(* driven by the connection loop of that client's session.  A SUBSCRIBE is *)
(* prepared under the registry and retained locks, one filter and then one *)
(* retained entry after the other; its SUBACK and retained messages are    *)
(* written after both are released, while other tasks go on publishing     *)
(* into the outbox of the same session.  The will of a connection that     *)
(* ends is retained under the locks too, but reaches the outbox under the  *)
(* registry lock taken once more.  Topics and filters are sequences of     *)
(* levels (split('/')).  The session stays connected, and what is          *)
(* published has QoS 0, so that nothing is sent twice; Broker has the life *)
(* cycle, QoS 1 and quarantine.  A session is never sent what it publishes *)
(* itself: the publishes and wills here are those of others.               *)
(***************************************************************************)
EXTENDS Integers, Sequences

CONSTANTS
  Topics,        \* topics that are published to
  ProbeTopics,   \* more topics, to compare matching with its definition
  Requests,      \* filters that the client sends, with the QoS it asks for
  LongFilters,   \* those of more than 128 bytes
  PlusLevels,    \* levels with a '+' in them
  HashLevels,    \* levels with a '#' in them
  DollarLevels,  \* levels that begin with '$'
  Payloads,      \* with "" for the empty one
  MaxPacket,     \* MAX_SUBSCRIBE_TOPICS
  MaxSubs,       \* MAX_SUBS
  MaxRetained,   \* MAX_RETAINED
  Depth,         \* OUTBOX_DEPTH
  Publishes,     \* messages that others publish
  Dying,         \* connections that end
  Wills,         \* messages that they leave as their wills
  OneExecutor    \* do all tasks share one cooperative executor?

(* Stands for any payload published without the retain flag. *)
NotRetained == "not retained"

QoS == {"qos0", "qos1", "qos2"}

Frames == [topic : Topics, payload : Payloads \cup {NotRetained}]

(* split('/') gives one level at least. *)
Levels == Seq(STRING) \ {<<>>}

ASSUME SubscriptionConstantsOK ==
  /\ Topics \cup ProbeTopics \subseteq Levels
  /\ Requests \subseteq [filter : Levels, qos : QoS]
  /\ "+" \in PlusLevels /\ "#" \in HashLevels /\ "" \in Payloads
  /\ NotRetained \notin Payloads
  /\ {MaxPacket, MaxSubs, MaxRetained, Depth} \subseteq Nat
  /\ Publishes \cup Wills \subseteq Frames /\ OneExecutor \in BOOLEAN

VARIABLES
  pc,         \* what the loop of the session does, see Locked
  subs,       \* SessionState.subscriptions
  outbox,     \* SessionState.outbox
  retained,   \* RetainedStore.entries
  reply,      \* the answer being prepared, then written
  entry,      \* position of retained.matching in the entries
  wills,      \* wills recorded for this session and not pushed yet
  view,       \* history: what the client knows of a retained topic
  missed,     \* history: topics of which the newest value was not sent
  late        \* history: topics of which a will was pushed too late

sessionVars == <<subs, outbox>>
willVars == <<wills, late>>

vars == <<pc, sessionVars, retained, reply, entry, willVars, view, missed>>

Filters == {r.filter : r \in Requests}

(* The filters of the packet and a code for each, the new ones, and the     *)
(* retained messages that follow.                                           *)
NoReply == [asked |-> <<>>, codes |-> <<>>, new |-> <<>>, replay |-> <<>>]

(* The filters of a packet are taken one by one, then the retained entries  *)
(* for each new filter; the loop holds the registry lock all the while.     *)
Locked == pc \in {"upsert", "collect", "remove"}

SubsInit ==
  /\ pc = "wait" /\ subs = <<>> /\ outbox = <<>> /\ retained = <<>>
  /\ reply = NoReply /\ entry = 1
  /\ wills = {} /\ view = [t \in Topics |-> ""] /\ missed = {} /\ late = {}

-----------------------------------------------------------------------------
(* Filters and matching. *)

IsValidFilterHashAnywhere(f) ==
  /\ f # <<"">> /\ f \notin LongFilters
  /\ \A i \in DOMAIN f : f[i] \in HashLevels => f[i] = "#"
  /\ \A i \in DOMAIN f : f[i] \in PlusLevels => f[i] = "+"

IsValidFilter(f) ==
  /\ f # <<"">> /\ f \notin LongFilters
  /\ \A i \in DOMAIN f : f[i] \in HashLevels => f[i] = "#" /\ i = Len(f)
  /\ \A i \in DOMAIN f : f[i] \in PlusLevels => f[i] = "+"

ContainsWildcards(f) == \E i \in DOMAIN f : f[i] \in PlusLevels \cup HashLevels

(* The loop over both iterators ends at the first pair of levels that does  *)
(* not let it go on: at "#", at levels that differ, or where one ends.      *)
TopicMatches(f, t) ==
  LET GoesOn(i) ==
        /\ i \in DOMAIN f \cap DOMAIN t /\ f[i] # "#"
        /\ f[i] = t[i] \/ (f[i] = "+" /\ t[i] # "")
      stop == CHOOSE i \in 1..Len(f) + 1 :
                ~GoesOn(i) /\ \A j \in 1..i - 1 : GoesOn(j)
  IN \/ f = t
     \/ /\ ~(t[1] \in DollarLevels /\ ContainsWildcards(f))
        /\ \/ stop \in DOMAIN f /\ f[stop] = "#"
           \/ stop \notin DOMAIN f \cup DOMAIN t

(* find_subscribers, for this session. *)
Subscribed(t) == \E i \in DOMAIN subs : TopicMatches(subs[i].filter, t)

(* heapless::Vec::remove: what comes after index i moves up. *)
VecRemove(s, i) == SubSeq(s, 1, i - 1) \o SubSeq(s, i + 1, Len(s))

(* position(): i is the first place where the key is k. *)
FirstAt(i, keys, k) == keys[i] = k /\ \A j \in 1..i - 1 : keys[j] # k

-----------------------------------------------------------------------------
(* RetainedStore::set; a full store refuses the message.                    *)

TopicOf(entries) == [i \in DOMAIN entries |-> entries[i].topic]

SetEntry(t, p) ==
  \E i \in DOMAIN retained :
    /\ FirstAt(i, TopicOf(retained), t)
    /\ retained' = IF p = "" THEN VecRemove(retained, i)
                   ELSE [retained EXCEPT ![i].payload = p]

NewEntry(t, p) ==
  /\ \A i \in DOMAIN retained : retained[i].topic # t
  /\ \/ p = "" /\ UNCHANGED retained
     \/ /\ p # "" /\ Len(retained) < MaxRetained
        /\ retained' = Append(retained, [topic |-> t, payload |-> p])

-----------------------------------------------------------------------------
(* The loop of the session.                                                 *)

(* flush_outbox_for_session: one frame popped and written, or none left.    *)
Flush ==
  /\ pc = "flush"
  /\ IF outbox = <<>>
     THEN pc' = "wait" /\ UNCHANGED <<outbox, view>>
     ELSE /\ outbox' = Tail(outbox)
          /\ view' = IF Head(outbox).payload # NotRetained
                     THEN [view EXCEPT ![Head(outbox).topic] = Head(outbox).payload]
                     ELSE view
          /\ UNCHANGED pc
  /\ UNCHANGED <<subs, retained, reply, entry, willVars, missed>>

(* The outbox signal, the timer, or a packet that changes nothing here. *)
Wake ==
  /\ pc = "wait" /\ pc' = "flush"
  /\ UNCHANGED <<sessionVars, retained, reply, entry, willVars, view, missed>>

FilterOf(table) == [i \in DOMAIN table |-> table[i].filter]

Answer(req, code, new) ==
  reply' = [reply EXCEPT !.asked = Append(@, req), !.codes = Append(@, code),
                         !.new = @ \o new]

(* Mutant of UpsertExisting: the QoS is granted and not stored. *)
UpsertForgetsQoS(req) ==
  \E i \in DOMAIN subs :
    /\ IsValidFilter(req.filter) /\ FirstAt(i, FilterOf(subs), req.filter)
    /\ Answer(req, req.qos, <<>>)
    /\ UNCHANGED subs

(* upsert_subscription: the filter is in the table, *)
UpsertExisting(req) ==
  \E i \in DOMAIN subs :
    /\ IsValidFilter(req.filter) /\ FirstAt(i, FilterOf(subs), req.filter)
    /\ subs' = [subs EXCEPT ![i].qos = req.qos]
    /\ Answer(req, req.qos, <<>>)

(* or is added to it, *)
UpsertNew(req) ==
  /\ IsValidFilter(req.filter) /\ \A i \in DOMAIN subs : subs[i].filter # req.filter
  /\ Len(subs) < MaxSubs
  /\ subs' = Append(subs, req)
  /\ Answer(req, req.qos, <<req.filter>>)

(* or is refused. *)
UpsertRefused(req) ==
  /\ \/ ~IsValidFilter(req.filter)
     \/ /\ \A i \in DOMAIN subs : subs[i].filter # req.filter
        /\ Len(subs) >= MaxSubs
  /\ Answer(req, "failure", <<>>)
  /\ UNCHANGED subs

(* prepare_subscribe: the next filter of the packet. *)
Upsert(req) ==
  /\ pc \in {"wait", "upsert"} /\ Len(reply.asked) < MaxPacket
  /\ pc' = "upsert"
  /\ UpsertExisting(req) \/ UpsertNew(req) \/ UpsertRefused(req)
  /\ UNCHANGED <<outbox, retained, entry, willVars, view, missed>>

(* The retained messages about t among the frames. *)
About(frames, t) ==
  {i \in DOMAIN frames : frames[i].topic = t /\ frames[i].payload # NotRetained}

LastIs(frames, t, p) ==
  \E i \in About(frames, t) :
    frames[i].payload = p /\ \A j \in About(frames, t) : j <= i

(* p is the last payload of t on its way to the client, or the one it has:  *)
(* the answer in progress is written before the outbox.                     *)
Arrives(t, p) ==
  \/ LastIs(outbox, t, p)
  \/ About(outbox, t) = {} /\ LastIs(reply.replay, t, p)
  \/ About(outbox, t) = {} /\ About(reply.replay, t) = {} /\ view[t] = p

(* Retained value e goes into the replay if it fits.  It will be the newest *)
(* one to arrive if it fits and nothing about its topic waits in the        *)
(* outbox; if it does not fit it is missed, unless it arrives anyhow.       *)
Deliver(e, fits) ==
  missed' = IF fits
            THEN IF About(outbox, e.topic) = {} THEN missed \ {e.topic} ELSE missed
            ELSE IF Arrives(e.topic, e.payload) THEN missed ELSE missed \cup {e.topic}

(* Mutant of Collect: only the first new filter is looked at. *)
CollectFirstFilter ==
  /\ pc = "collect"
  /\ IF reply.new = <<>> \/ retained = <<>>
     THEN pc' = "reply" /\ reply' = [reply EXCEPT !.new = <<>>] /\ UNCHANGED <<entry, missed>>
     ELSE LET e == retained[entry]
              last == entry = Len(retained)
              matches == TopicMatches(Head(reply.new), e.topic)
              fits == Len(reply.replay) < MaxRetained
          IN /\ entry' = IF last THEN 1 ELSE entry + 1
             /\ reply' = [reply EXCEPT !.new = IF last THEN <<>> ELSE @,
                                       !.replay = IF matches /\ fits THEN Append(@, e) ELSE @]
             /\ IF matches THEN Deliver(e, fits) ELSE UNCHANGED missed
             /\ UNCHANGED pc
  /\ UNCHANGED <<sessionVars, retained, willVars, view>>

(* prepare_subscribe: the next retained entry is compared with the next new *)
(* filter.  retained_deliveries holds MAX_RETAINED messages, and what does  *)
(* not fit is left out.                                                     *)
Collect ==
  /\ pc = "collect"
  /\ IF reply.new = <<>> \/ retained = <<>>
     THEN pc' = "reply" /\ reply' = [reply EXCEPT !.new = <<>>] /\ UNCHANGED <<entry, missed>>
     ELSE LET e == retained[entry]
              last == entry = Len(retained)
              matches == TopicMatches(Head(reply.new), e.topic)
              fits == Len(reply.replay) < MaxRetained
          IN /\ entry' = IF last THEN 1 ELSE entry + 1
             /\ reply' = [reply EXCEPT !.new = IF last THEN Tail(@) ELSE @,
                                       !.replay = IF matches /\ fits THEN Append(@, e) ELSE @]
             /\ IF matches THEN Deliver(e, fits) ELSE UNCHANGED missed
             /\ UNCHANGED pc
  /\ UNCHANGED <<sessionVars, retained, willVars, view>>

(* apply_unsubscribe: the next filter of the packet; the first equal one in *)
(* the table goes.                                                          *)
Unsubscribe(f) ==
  /\ pc \in {"wait", "remove"} /\ Len(reply.asked) < MaxPacket
  /\ pc' = "remove"
  /\ \/ \E i \in DOMAIN subs : FirstAt(i, FilterOf(subs), f) /\ subs' = VecRemove(subs, i)
     \/ (\A i \in DOMAIN subs : subs[i].filter # f) /\ UNCHANGED subs
  /\ Answer([filter |-> f, qos |-> "none"], "removed", <<>>)
  /\ UNCHANGED <<outbox, retained, entry, willVars, view, missed>>

(* The packet has no more filters. *)
LastFilter ==
  /\ \/ pc = "upsert" /\ pc' = "collect"
     \/ pc = "remove" /\ pc' = "reply"
  /\ UNCHANGED <<sessionVars, retained, reply, entry, willVars, view, missed>>

(* The SUBACK or UNSUBACK is written. *)
WriteAck ==
  /\ pc = "reply" /\ pc' = "replay"
  /\ reply' = [NoReply EXCEPT !.replay = reply.replay]
  /\ UNCHANGED <<sessionVars, retained, entry, willVars, view, missed>>

(* write_prepared_subscribe: the retained messages follow one by one. *)
WriteReplay ==
  /\ pc = "replay"
  /\ IF reply.replay = <<>>
     THEN pc' = "flush" /\ UNCHANGED <<reply, view>>
     ELSE /\ view' = [view EXCEPT ![Head(reply.replay).topic] = Head(reply.replay).payload]
          /\ reply' = [reply EXCEPT !.replay = Tail(@)]
          /\ UNCHANGED pc
  /\ UNCHANGED <<sessionVars, retained, entry, willVars, missed>>

-----------------------------------------------------------------------------
(* What others publish.  Nothing is routed when the retained store refuses. *)

Retain(t, p) ==
  IF p = NotRetained THEN UNCHANGED retained ELSE SetEntry(t, p) \/ NewEntry(t, p)

(* encode_publish: does the frame fit MAX_OUTBOUND_FRAME_SIZE?  The longest *)
(* topic does without a payload; with one, any may be too long.             *)
Fit(p) == IF p = "" THEN {TRUE} ELSE BOOLEAN

(* push_back: a full outbox takes no more. *)
Push(m) ==
  outbox' = IF Len(outbox) < Depth
            THEN Append(outbox, [topic |-> m.topic, payload |-> m.payload]) ELSE outbox

(* The newest value of m's topic is sent, or is not. *)
Sent(m) == missed' = missed \ {m.topic} /\ late' = late \ {m.topic}
NotSent(m) == missed' = missed \cup {m.topic} /\ UNCHANGED late

(* The fan-out over the subscribers; it ends at the first frame that does   *)
(* not fit, this one or that of a subscriber before it.                     *)
Route(m, fits) ==
  /\ IF Subscribed(m.topic) /\ fits THEN Push(m) ELSE UNCHANGED outbox
  /\ IF m.payload = NotRetained \/ ~Subscribed(m.topic) THEN UNCHANGED <<missed, late>>
     ELSE IF fits /\ Len(outbox) < Depth THEN Sent(m) ELSE NotSent(m)

(* handle_publish of another session, or process_outbound_publish: all      *)
(* under both locks.                                                        *)
Publish(m, fits) ==
  /\ ~Locked
  /\ Retain(m.topic, m.payload)
  /\ Route(m, fits)
  /\ UNCHANGED <<pc, subs, reply, entry, wills, view>>

(* cleanup_connection, first locked section: the will is retained, and the  *)
(* sessions that subscribe to it are recorded.                              *)
RecordWill(d, m) ==
  /\ ~Locked /\ \A k \in wills : k.by # d
  /\ Retain(m.topic, m.payload)
  /\ wills' = IF Subscribed(m.topic)
              THEN wills \cup {[by |-> d, topic |-> m.topic, payload |-> m.payload]}
              ELSE wills
  /\ UNCHANGED <<pc, sessionVars, reply, entry, view, missed, late>>

(* No other value is retained for the topic of a will. *)
Newest(k) ==
  \A i \in DOMAIN retained : retained[i].topic = k.topic => retained[i].payload = k.payload

(* cleanup_connection, second locked section: the will is pushed to the     *)
(* recorded session, whatever it subscribes to and the store holds by now.  *)
PushWill(k, fits) ==
  /\ ~Locked
  /\ wills' = wills \ {k}
  /\ IF fits THEN Push(k) ELSE UNCHANGED outbox
  /\ IF k.payload = NotRetained THEN UNCHANGED <<missed, late>>
     ELSE IF fits /\ Len(outbox) < Depth
     THEN IF Newest(k) /\ Subscribed(k.topic) THEN Sent(k)
          ELSE late' = late \cup {k.topic} /\ UNCHANGED missed
     ELSE IF Newest(k) /\ ~Arrives(k.topic, k.payload) THEN NotSent(k)
          ELSE UNCHANGED <<missed, late>>
  /\ UNCHANGED <<pc, subs, retained, reply, entry, view>>

(* The locks are free between the two sections, so that a task that shares  *)
(* its executor with all others goes from one to the other at once.         *)
Undisturbed == OneExecutor => wills = {}

SubsNext ==
  \/ Undisturbed /\ Flush
  \/ Undisturbed /\ Wake
  \/ Undisturbed /\ \E req \in Requests : Upsert(req)
  \/ Undisturbed /\ Collect
  \/ Undisturbed /\ \E f \in Filters : Unsubscribe(f)
  \/ Undisturbed /\ LastFilter
  \/ Undisturbed /\ WriteAck
  \/ Undisturbed /\ WriteReplay
  \/ Undisturbed /\ \E m \in Publishes : \E fits \in Fit(m.payload) : Publish(m, fits)
  \/ Undisturbed /\ \E d \in Dying, m \in Wills : RecordWill(d, m)
  \/ \E k \in wills : \E fits \in Fit(k.payload) : PushWill(k, fits)

SubsSpec == SubsInit /\ [][SubsNext]_vars

-----------------------------------------------------------------------------
(* What the code promises. *)

(***************************************************************************)
(* A subscriber ends up with the value that the broker retains: for every  *)
(* retained entry that one of its filters matches, the last message on its *)
(* way to the client is that value, or a will still to be pushed is,       *)
(* whatever SUBSCRIBE, UNSUBSCRIBE, live publishes, wills and replays      *)
(* overtook each other, whenever no SUBSCRIBE is half prepared (the locks  *)
(* are held then).  Excused are topics of which a message was dropped (a   *)
(* full outbox, a frame that does not fit, or a replay longer than         *)
(* MAX_RETAINED) with no newer one since, or none but a replay that goes   *)
(* out before an older message in the outbox.  Without the one executor of *)
(* the firmware a will may be pushed when a newer value is retained or the *)
(* session has unsubscribed; its topic is excused until the next message.  *)
(***************************************************************************)
SubscriberCurrent ==
  pc \notin {"upsert", "collect"} =>
    \A i \in DOMAIN retained :
      LET e == retained[i] IN
      Subscribed(e.topic) /\ e.topic \notin missed /\ (OneExecutor \/ e.topic \notin late)
        => \/ Arrives(e.topic, e.payload)
           \/ \E k \in wills : k.topic = e.topic /\ k.payload = e.payload

(***************************************************************************)
(* While an answer is prepared and written the table agrees with it: a     *)
(* granted filter is in the table with the QoS granted last, a refused or  *)
(* removed one is not there at all (UNSUBSCRIBE takes one entry out, and   *)
(* there are no two).                                                      *)
(***************************************************************************)
AnswerMatchesTable ==
  \A i \in DOMAIN reply.codes :
    LET f == reply.asked[i].filter
        held == {k \in DOMAIN subs : subs[k].filter = f}
    IN IF reply.codes[i] \in {"failure", "removed"}
       THEN held = {}
       ELSE \E k \in held :
              /\ held = {k}
              /\ \/ subs[k].qos = reply.codes[i]
                 \/ \E j \in DOMAIN reply.asked : j > i /\ reply.asked[j].filter = f

(* MQTT's matching, as the tests of router/subscriptions.rs fix it: '#'     *)
(* only as the last level, '+' for exactly one nonempty level, and no       *)
(* wildcard for topics that begin with '$'.                                 *)
Covers(f, t) ==
  LET n == Len(f) IN
  \/ f = t
  \/ /\ ContainsWildcards(f) /\ t[1] \notin DollarLevels
     /\ \A i \in 1..n : f[i] = "#" => i = n
     /\ IF f[n] = "#" THEN Len(t) >= n - 1 ELSE Len(t) = n
     /\ \A i \in 1..n : f[i] # "#" => f[i] = t[i] \/ (f[i] = "+" /\ t[i] # "")

(***************************************************************************)
(* The filters that get into a table are those for which the level loop of *)
(* topic_matches computes exactly MQTT's relation.                         *)
(***************************************************************************)
TableMatchesExactly ==
  \A k \in DOMAIN subs : \A t \in Topics \cup ProbeTopics :
    TopicMatches(subs[k].filter, t) <=> Covers(subs[k].filter, t)
=============================================================================
