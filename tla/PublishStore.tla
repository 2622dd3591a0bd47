---------------------------- MODULE PublishStore ----------------------------
(***************************************************************************)
(* The reference-counted publish store of SessionRegistry and the QoS 1    *)
(* inflight lists of the sessions that point into it.                      *)
(*                                                                         *)
(* A QoS 1 publish that is routed to several subscribers is stored once.   *)
(* Every subscriber's inflight entry holds a handle (slot, generation) and *)
(* owns one reference; a PUBACK or the removal of the session gives the    *)
(* reference back, and the last one frees the slot for another publish.    *)
(*                                                                         *)
(* The registry mutex makes each action below one step.  The actions are   *)
(* offered to every caller in every order here; module Broker takes them   *)
(* as parts of its own steps.                                              *)
(***************************************************************************)
EXTENDS Integers, FiniteSets

CONSTANTS
  MaxSessions,  \* const generic N of SessionRegistry
  MaxInflight,  \* MAX_INFLIGHT: entries per session AND slots of the store
  GenMax,       \* u32::MAX, the last generation before the counter wraps
  PidMax,       \* u16::MAX, the last packet identifier before it wraps
  RefMax,       \* u16::MAX, the largest reference count
  MaxRetries,   \* qos1_max_retries
  Msgs,         \* what is published: topic, payload and retain flag
  NoMsg         \* content of a vacant store slot

ASSUME ConstantsOK ==
  /\ MaxSessions \in Nat /\ MaxInflight \in Nat /\ MaxRetries \in Nat
  /\ GenMax \in Nat \ {0} /\ PidMax \in Nat \ {0}
  /\ RefMax \in Nat
  /\ NoMsg \notin Msgs

(* No publish has more holders than there are sessions, and the builds have *)
(* at most ten of them: checked_add on the u16 count cannot overflow.       *)
ASSUME RefcountFits == MaxSessions <= RefMax

VARIABLES
  live,      \* session slots that are occupied
  inflight,  \* per session, its set of InflightEntry
  nextPid,   \* per session, next_packet_id
  store,     \* stored_publishes
  nextGen    \* next_publish_generation

psVars == <<live, inflight, nextPid, store, nextGen>>

Sids == 0..(MaxSessions - 1)
Slots == 0..(MaxInflight - 1)

(* Generation 0 is skipped by the counter, so it can stand for a vacant slot. *)
NoPublish == [msg |-> NoMsg, gen |-> 0, refcount |-> 0]

StoredPublish ==
  [msg : Msgs \cup {NoMsg}, gen : 0..GenMax, refcount : 0..RefMax]

(* "due" abstracts sent_at: the retry timeout has elapsed.  "msg" is a      *)
(* history field: the publish this entry was created for.                   *)
InflightEntry ==
  [pid : 1..PidMax, slot : Slots, gen : 1..GenMax, msg : Msgs,
   retries : 0..(MaxRetries + 1), due : BOOLEAN]

PsTypeOK ==
  /\ live \in SUBSET Sids
  /\ inflight \in [Sids -> SUBSET InflightEntry]
  /\ nextPid \in [Sids -> 0..PidMax]
  /\ store \in [Slots -> StoredPublish]
  /\ nextGen \in 1..GenMax

PsInit ==
  /\ live = {}
  /\ inflight = [s \in Sids |-> {}]
  /\ nextPid = [s \in Sids |-> 0]
  /\ store = [k \in Slots |-> NoPublish]
  /\ nextGen = 1
-----------------------------------------------------------------------------
(* Both counters wrap past their maximum to 1, never to 0. *)
NextGen(g) == IF g = GenMax THEN 1 ELSE g + 1
NextPacketId(p) == IF p = PidMax THEN 1 ELSE p + 1

(* Mutant of Vacant: a slot with a single holder counts as vacant. *)
VacantIfOneHolder == {k \in Slots : store[k].refcount <= 1}

Vacant == {k \in Slots : store[k].gen = 0}

(* stored_publish(handle): the slot is occupied by the handle's generation. *)
IsStored(e) == store[e.slot].gen = e.gen

Holders(k) == {s \in Sids : \E e \in inflight[s] : e.slot = k}

(* release_stored_publish, once for every entry of E.  A handle whose slot  *)
(* carries another generation is ignored.                                   *)
ReleasedRefs(E, k) == {e \in E : e.slot = k /\ e.gen = store[k].gen}

(* Mutant of Release: the first release frees the slot, whatever its count. *)
ReleaseFrees(E) ==
  [k \in Slots |-> IF ReleasedRefs(E, k) = {} THEN store[k] ELSE NoPublish]

Release(E) ==
  [k \in Slots |->
     LET n == Cardinality(ReleasedRefs(E, k))
     IN  IF n = 0 THEN store[k]
         ELSE IF store[k].refcount <= n THEN NoPublish
         ELSE [store[k] EXCEPT !.refcount = @ - n]]
-----------------------------------------------------------------------------
(* registry.insert of a new SessionState: the lowest vacant slot. *)
InsertSession(s) ==
  /\ s \in Sids \ live
  /\ \A t \in Sids \ live : s <= t
  /\ live' = live \cup {s}
  /\ inflight' = [inflight EXCEPT ![s] = {}]
  /\ nextPid' = [nextPid EXCEPT ![s] = 0]
  /\ UNCHANGED <<store, nextGen>>

(* Mutant of RemoveSession: the references are not released. *)
RemoveSessionLeaks(s) ==
  /\ s \in live
  /\ live' = live \ {s}
  /\ inflight' = [inflight EXCEPT ![s] = {}]
  /\ nextPid' = [nextPid EXCEPT ![s] = 0]
  /\ UNCHANGED <<store, nextGen>>

(* registry.remove: the session goes, then its references are released. *)
RemoveSession(s) ==
  /\ s \in live
  /\ live' = live \ {s}
  /\ inflight' = [inflight EXCEPT ![s] = {}]
  /\ nextPid' = [nextPid EXCEPT ![s] = 0]
  /\ store' = Release(inflight[s])
  /\ UNCHANGED nextGen

(* remove of the previous session of a client followed by the insert of     *)
(* its new one, under one lock: a CONNECT with clean_session.               *)
ReplaceSession(s, t) ==
  /\ s \in live
  /\ t \in (Sids \ live) \cup {s}
  /\ \A u \in (Sids \ live) \cup {s} : t <= u
  /\ live' = (live \ {s}) \cup {t}
  /\ inflight' = [inflight EXCEPT ![s] = {}, ![t] = {}]
  /\ nextPid' = [nextPid EXCEPT ![s] = 0, ![t] = 0]
  /\ store' = Release(inflight[s])
  /\ UNCHANGED nextGen

(* The fan-out loop of one publish m.  "targets" are the subscribers whose  *)
(* effective QoS is not 0: each draws a packet id.  "tracked" are those of  *)
(* them whose outbox took the frame and whose effective QoS is 1.           *)
(* "storable" says that topic and payload fit the store's fixed buffers.    *)
Eligible(tracked) ==
  {s \in tracked : Cardinality(inflight[s]) < MaxInflight}

DrawPids(targets) ==
  nextPid' = [s \in Sids |-> IF s \in targets THEN NextPacketId(nextPid[s])
                             ELSE nextPid[s]]

NewEntry(s, k, m) ==
  [pid |-> NextPacketId(nextPid[s]), slot |-> k, gen |-> nextGen, msg |-> m,
   retries |-> 0, due |-> FALSE]

(* No subscriber needs tracking, or the store is full: frames only. *)
RouteUntracked(targets, tracked) ==
  /\ Eligible(tracked) = {} \/ Vacant = {}
  /\ DrawPids(targets)
  /\ UNCHANGED <<live, inflight, store, nextGen>>

(* store_publish_ref fails on a too long topic, for each subscriber again,  *)
(* after it has advanced the generation.                                    *)
RouteUnstorable(targets, tracked) ==
  /\ Eligible(tracked) # {} /\ Vacant # {}
  /\ DrawPids(targets)
  /\ nextGen' = ((nextGen - 1 + Cardinality(Eligible(tracked))) % GenMax) + 1
  /\ UNCHANGED <<live, inflight, store>>

(* The first eligible subscriber stores the publish (refcount 1) and the    *)
(* others acquire the same handle.                                          *)
RouteTracked(targets, tracked, m) ==
  /\ Eligible(tracked) # {} /\ Vacant # {}
  /\ DrawPids(targets)
  /\ \E k \in Vacant :
       /\ \A j \in Vacant : k <= j
       /\ store' = [store EXCEPT ![k] =
            [msg |-> m, gen |-> nextGen,
             refcount |-> Cardinality(Eligible(tracked))]]
       /\ inflight' = [s \in Sids |->
            IF s \in Eligible(tracked)
            THEN inflight[s] \cup {NewEntry(s, k, m)}
            ELSE inflight[s]]
  /\ nextGen' = NextGen(nextGen)
  /\ UNCHANGED live

Route(targets, tracked, m, storable) ==
  \/ RouteUntracked(targets, tracked)
  \/ ~storable /\ RouteUnstorable(targets, tracked)
  \/ storable /\ RouteTracked(targets, tracked, m)

(* Mutant of Puback: the reference is released, the entry stays. *)
PubackKeepsEntry(s, pid) ==
  /\ s \in live
  /\ \E e \in inflight[s] : e.pid = pid /\ store' = Release({e})
  /\ UNCHANGED <<live, inflight, nextPid, nextGen>>

(* handle_puback and release_stored_publish.  Packet ids may repeat after   *)
(* a wrap; the code takes the first such entry, the model any of them.      *)
Puback(s, pid) ==
  /\ s \in live
  /\ \/ /\ \A e \in inflight[s] : e.pid # pid
        /\ UNCHANGED <<inflight, store>>
     \/ \E e \in inflight[s] :
          /\ e.pid = pid
          /\ inflight' = [inflight EXCEPT ![s] = @ \ {e}]
          /\ store' = Release({e})
  /\ UNCHANGED <<live, nextPid, nextGen>>

Replace(s, e, f) == inflight' = [inflight EXCEPT ![s] = (@ \ {e}) \cup {f}]

(* The retry timeout of one entry elapses. *)
Expire(s, e) ==
  /\ e \in inflight[s] /\ ~e.due
  /\ Replace(s, e, [e EXCEPT !.due = TRUE])
  /\ UNCHANGED <<live, nextPid, store, nextGen>>

(* One turn of process_inflight_retries: the count is raised first, and the *)
(* frame is only written while it does not exceed the maximum.  (The u8     *)
(* saturates at 255; only "exceeds the maximum" is ever asked.)             *)
RetryBegin(s, e) ==
  /\ e \in inflight[s] /\ e.due
  /\ Replace(s, e, [e EXCEPT !.retries = IF @ > MaxRetries THEN @ ELSE @ + 1])
  /\ UNCHANGED <<live, nextPid, store, nextGen>>

(* The write finished: sent_at is the time of this pass. *)
RetrySent(s, e) ==
  /\ e \in inflight[s] /\ e.due /\ e.retries \in 1..MaxRetries
  /\ Replace(s, e, [e EXCEPT !.due = FALSE])
  /\ UNCHANGED <<live, nextPid, store, nextGen>>

PsNext ==
  \/ \E targets \in SUBSET live : \E tracked \in SUBSET targets :
       \/ RouteUntracked(targets, tracked)
       \/ RouteUnstorable(targets, tracked)
       \/ \E m \in Msgs : RouteTracked(targets, tracked, m)
  \/ \E s \in Sids : InsertSession(s) \/ RemoveSession(s)
  \/ \E s, t \in Sids : ReplaceSession(s, t)
  \/ \E s \in Sids, pid \in 1..PidMax : Puback(s, pid)
  \/ \E s \in Sids : \E e \in inflight[s] :
       Expire(s, e) \/ RetryBegin(s, e) \/ RetrySent(s, e)

PsSpec == PsInit /\ [][PsNext]_psVars
-----------------------------------------------------------------------------
(* Every inflight entry can be retried with the publish it was created for: *)
(* its handle is valid, so process_inflight_retries never meets             *)
(* MissingStoredPublish, and the slot still holds that very publish, not a  *)
(* later one stored in a reused slot under a wrapped generation.            *)
RetryResendsOriginal ==
  \A s \in Sids : \A e \in inflight[s] :
    IsStored(e) /\ store[e.slot].msg = e.msg

(* refcount counts the sessions that hold the slot, exactly.  Too small and *)
(* a publish is freed under a pending retry, too large and the slot is lost *)
(* to every session of the broker.                                          *)
RefcountExact ==
  \A k \in Slots : store[k].refcount = Cardinality(Holders(k))

(* A slot is occupied just when somebody holds it: nothing leaks when       *)
(* sessions end, whatever they had inflight.                                *)
NoLeakedPublish ==
  \A k \in Slots : store[k].gen # 0 <=> Holders(k) # {}

(* The store runs out before any inflight list does: while it has a vacant  *)
(* slot, every session has room for an entry.  So the length test of        *)
(* handle_publish never decides anything, inflight_add cannot fail after    *)
(* it, and one session that stops acknowledging costs all others their      *)
(* QoS 1 tracking.                                                          *)
StoreFillsFirst ==
  Vacant # {} => \A s \in Sids : Cardinality(inflight[s]) < MaxInflight

(* A publish is never replaced in its slot by another one: the slot is      *)
(* vacant in between, so a handle cannot change its meaning in one step.    *)
SlotReuseIsVisible ==
  [][\A k \in Slots :
       store[k].gen # 0 /\ store'[k].gen # 0
         => store'[k].msg = store[k].msg /\ store'[k].gen = store[k].gen]_psVars

(* An entry as its session sees it, with the publish that a retry sends. *)
View(e) == [place |-> e.slot, pid |-> e.pid, msg |-> store[e.slot].msg,
            retries |-> e.retries, due |-> e.due]

Views(s) == {View(e) : e \in inflight[s]}

(* The shared store implements private copies: no sequence of fan-outs,     *)
(* acknowledgements, retries and ends of sessions lets one session notice   *)
(* that others hold the same publish, or that slots and generations are     *)
(* used again.                                                              *)
Copies == INSTANCE InflightCopies WITH
  Places <- Slots, copies <- [s \in Sids |-> Views(s)]
PrivateCopies == Copies!CopySpec
=============================================================================
