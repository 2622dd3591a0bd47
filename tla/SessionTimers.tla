---------------------------- MODULE SessionTimers ---------------------------
(***************************************************************************)
(* The clocks of one session: keepalive, retry timeouts of the inflight    *)
(* entries and the token bucket of the rate limiter, as the connection     *)
(* loop looks at them between its writes, its sleep and its packets.       *)
(*                                                                         *)
(* Time advances in ticks of the embassy clock, whatever the loop is at.   *)
(* An Instant that the code stores is modelled by its age, which stops to  *)
(* grow at Horizon, beyond every limit that the code compares it with.     *)
(* Other tasks route messages to the session while the registry is not     *)
(* locked.  What the outbox contains, and its quarantine, are in Broker.   *)
(***************************************************************************)
EXTENDS Integers, Sequences, FiniteSetsExt

CONSTANTS
  TicksPerSec,
  KeepAlives,     \* keepalive_secs that clients ask for
  Roles,          \* what clients do: publish, subscribe or both
  RetryTicks,     \* qos1_retry_ms
  MaxRetries,     \* qos1_max_retries
  MaxInflight,    \* MAX_INFLIGHT
  Depth,          \* MAX_OUTBOX_DEPTH
  MaxWait,        \* 3600 s
  Capacity,       \* rate_capacity
  Rate,           \* rate_per_sec
  MaxViolations,  \* max_violations
  U8Max,          \* u8::MAX
  MaxBusy,        \* longest time that the loop stays away from its select
  Horizon

ASSUME TimerConstantsOK ==
  /\ TicksPerSec \in Nat \ {0} /\ KeepAlives \subseteq Nat
  /\ Roles \subseteq SUBSET {"publish", "subscribe"}
  /\ {RetryTicks, MaxRetries, MaxInflight, Depth, MaxViolations, MaxBusy} \subseteq Nat
  /\ MaxWait \in Nat \ {0} /\ Horizon \in Nat
  /\ U8Max \in Nat /\ Capacity \in 0..U8Max /\ Rate \in 0..U8Max

(* No comparison in the code sees that ages stop to grow. *)
ASSUME HorizonIsFar ==
  /\ Horizon >= RetryTicks + MaxBusy
  /\ \A k \in KeepAlives : Horizon > ((k * 3) \div 2) * TicksPerSec
  /\ Rate > 0 => (Horizon \div TicksPerSec) * Rate >= Capacity

VARIABLES
  pc,          \* where the loop is
  keepalive,   \* keepalive_secs
  activity,    \* age of last_activity
  inflight,    \* entries: age of sent_at, retries
  pass,        \* age and next index of the retry pass
  outbox,      \* number of queued frames
  signal,      \* outbox signal
  timer,       \* ticks until Timer::after fires
  bucket,      \* TokenBucket, with the age of last_refill
  credit,      \* history: an exact bucket, in 1/TicksPerSec tokens
  role,        \* what this client does
  client,      \* "polite", or "silent" from some moment on
  inbox,       \* a complete packet that arrived and was not read?
  quiet,       \* age of the last packet that the client sent
  busy         \* for how long the loop has had something to do

loopVars == <<pc, keepalive, activity, inflight, pass, outbox, signal, timer>>
rateVars == <<bucket, credit>>
clientVars == <<role, client, inbox, quiet>>
timerVars == <<loopVars, rateVars, clientVars, busy>>

Lower(a, b) == IF a <= b THEN a ELSE b
Higher(a, b) == IF a <= b THEN b ELSE a

Older(age) == Lower(age + 1, Horizon)

NoPass == [age |-> 0, index |-> 1]
FullCredit == (Capacity + Rate) * TicksPerSec
-----------------------------------------------------------------------------
(* A CONNECT was accepted: the bucket is new, with last_refill at the start *)
(* of the clock, and the keepalive starts now.  A session that is resumed   *)
(* may have an entry from long ago.                                         *)
TimersInit ==
  /\ pc = "flush" /\ keepalive \in KeepAlives /\ activity = 0
  /\ role \in Roles
  /\ \/ inflight = <<>>
     \/ /\ "subscribe" \in role /\ MaxInflight > 0
        /\ inflight = <<[age |-> Horizon, retries |-> 0]>>
  /\ pass = NoPass /\ outbox = 0 /\ signal = "none" /\ timer = 0
  /\ bucket = [tokens |-> Capacity, since |-> Horizon, violations |-> 0]
  /\ credit = FullCredit
  /\ client = "polite" /\ inbox = "empty" /\ quiet = 0 /\ busy = 0

Goto(from, to) == pc = from /\ pc' = to

(* keepalive_deadline as an age of last_activity. *)
KeepAliveTicks == ((keepalive * 3) \div 2) * TicksPerSec

(* Mutant of KeepAliveExpired: no grace period. *)
KeepAliveExpiredEarly == keepalive > 0 /\ activity > keepalive * TicksPerSec

KeepAliveExpired == keepalive > 0 /\ activity > KeepAliveTicks

(* next_wakeup_after: what is over already leaves one tick. *)
NextWakeup ==
  Higher(1, Min({MaxWait}
           \cup {KeepAliveTicks - activity : k \in {keepalive} \ {0}}
           \cup {RetryTicks - inflight[i].age : i \in DOMAIN inflight}))
-----------------------------------------------------------------------------
(* flush_outbox_for_session takes a frame and writes it, until none is left. *)
Flush ==
  /\ \/ outbox > 0 /\ Goto("flush", "write") /\ outbox' = outbox - 1
     \/ outbox = 0 /\ Goto("flush", "check") /\ UNCHANGED outbox
  /\ pass' = NoPass
  /\ UNCHANGED <<keepalive, activity, inflight, signal, timer, rateVars, clientVars, busy>>

(* A write of the flush or of a reply ends. *)
Written ==
  /\ \E from \in {"write", "reply"} : Goto(from, "flush") \/ Goto(from, "closed")
  /\ UNCHANGED <<keepalive, activity, inflight, pass, outbox, signal, timer,
                 rateVars, clientVars, busy>>

(* process_inflight_retries works with the time at which it began. *)
Due(i) == inflight[i].age - pass.age >= RetryTicks

DueFrom(k) == {i \in DOMAIN inflight : i >= k /\ Due(i)}

(* Mutant of Retry: the retries are not counted. *)
RetryForEver ==
  /\ DueFrom(pass.index) # {}
  /\ Goto("check", "retry")
  /\ pass' = [pass EXCEPT !.index = Min(DueFrom(pass.index))]
  /\ UNCHANGED <<keepalive, activity, inflight, outbox, signal, timer, rateVars,
                 clientVars, busy>>

(* The next entry that is due: one retry more, or the end. *)
Retry ==
  /\ DueFrom(pass.index) # {}
  /\ LET i == Min(DueFrom(pass.index))
     IN  /\ inflight' = [inflight EXCEPT ![i].retries = @ + 1]
         /\ Goto("check", IF inflight[i].retries + 1 > MaxRetries
                          THEN "closed" ELSE "retry")
         /\ pass' = [pass EXCEPT !.index = i]
  /\ UNCHANGED <<keepalive, activity, outbox, signal, timer, rateVars, clientVars, busy>>

(* The retry was written, under the lock: sent_at is the time of the pass.  *)
RetryWritten ==
  /\ \/ /\ Goto("retry", "check")
        /\ inflight' = [inflight EXCEPT ![pass.index].age = pass.age]
        /\ pass' = [pass EXCEPT !.index = @ + 1]
     \/ Goto("retry", "closed") /\ UNCHANGED <<inflight, pass>>
  /\ UNCHANGED <<keepalive, activity, outbox, signal, timer, rateVars, clientVars, busy>>

(* No entry is left that was due: keepalive, then sleep. *)
CheckKeepAlive ==
  /\ DueFrom(pass.index) = {}
  /\ \/ KeepAliveExpired /\ Goto("check", "closed") /\ UNCHANGED timer
     \/ ~KeepAliveExpired /\ Goto("check", "sleep") /\ timer' = NextWakeup
  /\ pass' = NoPass
  /\ UNCHANGED <<keepalive, activity, inflight, outbox, signal, rateVars, clientVars, busy>>

(* The select polls the transport first, then the timer and the signal. *)
Wake ==
  /\ inbox = "empty"
  /\ Goto("sleep", "flush")
  /\ \/ timer = 0 /\ UNCHANGED signal
     \/ timer # 0 /\ signal = "set" /\ signal' = "none"
  /\ UNCHANGED <<keepalive, activity, inflight, pass, outbox, timer, rateVars,
                 clientVars, busy>>
-----------------------------------------------------------------------------
(* What every packet but DISCONNECT does first. *)
Packet(to) ==
  /\ inbox = "packet" /\ inbox' = "empty"
  /\ Goto("sleep", to)
  /\ activity' = 0
  /\ UNCHANGED <<keepalive, pass, outbox, signal, timer, role, client, quiet, busy>>

(* PINGREQ, SUBSCRIBE and UNSUBSCRIBE are answered, other packets are not. *)
OtherPacket ==
  /\ Packet("reply") \/ Packet("flush")
  /\ UNCHANGED <<inflight, rateVars>>

Puback ==
  /\ Packet("flush")
  /\ \E i \in DOMAIN inflight :
       inflight' = SubSeq(inflight, 1, i - 1) \o SubSeq(inflight, i + 1, Len(inflight))
  /\ UNCHANGED rateVars

Disconnect ==
  /\ inbox = "packet" /\ Goto("sleep", "closed")
  /\ UNCHANGED <<keepalive, activity, inflight, pass, outbox, signal, timer, rateVars,
                 clientVars, busy>>

(* Mutant of Refilled: elapsed_secs is rounded up. *)
RefilledRoundingUp ==
  LET secs == (bucket.since + TicksPerSec - 1) \div TicksPerSec
      refill == Lower(secs * Rate, U8Max)
  IN  IF secs = 0 THEN bucket
      ELSE [tokens |-> Lower(Lower(bucket.tokens + refill, U8Max), Capacity),
            since |-> 0, violations |-> bucket.violations]

(* try_consume, first part: whole seconds since the last refill count, and  *)
(* the rest of the time is forgotten.                                       *)
Refilled ==
  LET secs == bucket.since \div TicksPerSec
      refill == Lower(secs * Rate, U8Max)
  IN  IF secs = 0 THEN bucket
      ELSE [tokens |-> Lower(Lower(bucket.tokens + refill, U8Max), Capacity),
            since |-> 0, violations |-> bucket.violations]

(* A PUBLISH that the limiter admits; one with QoS 1 is acknowledged. *)
Admit ==
  /\ "publish" \in role
  /\ Packet("reply") \/ Packet("flush")
  /\ Refilled.tokens > 0
  /\ bucket' = [tokens |-> Refilled.tokens - 1, since |-> Refilled.since,
                violations |-> 0]
  /\ credit' = credit - TicksPerSec
  /\ UNCHANGED inflight

(* One that it refuses: dropped if QoS 0, unless there were too many. *)
Refuse ==
  /\ "publish" \in role
  /\ Refilled.tokens = 0
  /\ bucket' = [Refilled EXCEPT !.violations = Lower(@ + 1, U8Max)]
  /\ \/ Packet("closed")   \* QoS 1
     \/ Packet(IF bucket'.violations >= MaxViolations THEN "closed" ELSE "flush")
  /\ UNCHANGED <<inflight, credit>>
-----------------------------------------------------------------------------
(* Mutant of Route: signal_session is forgotten. *)
RouteWithoutSignal(qos) ==
  /\ pc \notin {"retry", "closed"} /\ "subscribe" \in role
  /\ outbox < Depth
  /\ outbox' = outbox + 1 /\ UNCHANGED signal
  /\ inflight' = IF qos = 1 /\ Len(inflight) < MaxInflight
                 THEN Append(inflight, [age |-> 0, retries |-> 0]) ELSE inflight
  /\ UNCHANGED <<pc, keepalive, activity, pass, timer, rateVars, clientVars, busy>>

(* Another task routes a message to this session, when the registry is not  *)
(* locked by a retry write.                                                 *)
Route(qos) ==
  /\ pc \notin {"retry", "closed"} /\ "subscribe" \in role
  /\ outbox < Depth
  /\ outbox' = outbox + 1 /\ signal' = "set"
  /\ inflight' = IF qos = 1 /\ Len(inflight) < MaxInflight
                 THEN Append(inflight, [age |-> 0, retries |-> 0]) ELSE inflight
  /\ UNCHANGED <<pc, keepalive, activity, pass, timer, rateVars, clientVars, busy>>

Send ==
  /\ pc # "closed" /\ client = "polite" /\ inbox = "empty"
  /\ inbox' = "packet" /\ quiet' = 0
  /\ UNCHANGED <<loopVars, rateVars, role, client, busy>>

FallSilent ==
  /\ pc # "closed" /\ client = "polite" /\ client' = "silent"
  /\ UNCHANGED <<loopVars, rateVars, role, inbox, quiet, busy>>

(* Something for the loop to do. *)
Ready == pc # "sleep" \/ inbox = "packet" \/ signal = "set" \/ timer = 0

(* A clock tick.  A polite client does not let keepalive_secs pass without  *)
(* a packet; the loop is back at its select after at most MaxBusy.          *)
Tick ==
  /\ pc # "closed"
  /\ client = "polite" /\ keepalive > 0 => quiet < keepalive * TicksPerSec
  /\ Ready => busy < MaxBusy
  /\ busy' = IF Ready THEN busy + 1 ELSE 0
  /\ quiet' = IF client = "polite" THEN Older(quiet) ELSE quiet
  /\ activity' = Older(activity)
  /\ inflight' = [i \in DOMAIN inflight |-> [inflight[i] EXCEPT !.age = Older(@)]]
  /\ pass' = IF pc \in {"check", "retry"} THEN [pass EXCEPT !.age = Older(@)] ELSE pass
  /\ timer' = Higher(timer - 1, 0)
  /\ bucket' = [bucket EXCEPT !.since = Older(@)]
  /\ credit' = Lower(credit + Rate, FullCredit)
  /\ UNCHANGED <<pc, keepalive, outbox, signal, role, client, inbox>>

LoopStep == Flush \/ Written \/ Retry \/ RetryWritten \/ CheckKeepAlive \/ Wake
PacketStep == OtherPacket \/ Puback \/ Admit \/ Refuse \/ Disconnect

TimersNext ==
  \/ LoopStep \/ PacketStep \/ Tick
  \/ \E qos \in 0..1 : Route(qos)
  \/ Send \/ FallSilent

TimersSpec == TimersInit /\ [][TimersNext]_timerVars

FairTimers ==
  TimersSpec /\ WF_timerVars(LoopStep) /\ WF_timerVars(PacketStep) /\ WF_timerVars(Tick)
-----------------------------------------------------------------------------
(* A sleeping loop that nobody signalled wakes in time for every entry and  *)
(* for the keepalive, also for those that were added after it computed its  *)
(* wake-up: at most one tick late.                                          *)
NeverOversleeps ==
  pc = "sleep" /\ signal = "none" =>
    /\ \A i \in DOMAIN inflight : timer <= Higher(1, RetryTicks - inflight[i].age)
    /\ keepalive > 0 => timer <= Higher(1, KeepAliveTicks - activity)

(* A client that keeps its promise is not cut off for keepalive, as long as *)
(* the loop comes back to its select within the grace period: a packet that *)
(* waits while the loop writes is read before the deadline.                 *)
PoliteClientStays ==
  /\ pc = "check" /\ client = "polite"
  /\ keepalive * TicksPerSec + MaxBusy <= KeepAliveTicks
  => ~KeepAliveExpired

(* The limiter never admits more than an exact bucket of Capacity + Rate    *)
(* tokens that fills with Rate tokens per second, over every stretch of     *)
(* time: forgetting fractions of a second and starting full on CONNECT let  *)
(* nobody exceed that.                                                      *)
AdmissionBound == credit >= 0

(* A client that fell silent is disconnected once its last packet was read, *)
(* by keepalive or because it does not acknowledge, unless frames for it    *)
(* keep coming: the loop looks at its clocks only when it finds the outbox  *)
(* empty.                                                                   *)
SilentClientEnds ==
  \/ client = "silent" /\ inbox = "empty" /\ (keepalive > 0 \/ inflight # <<>>) ~> pc = "closed"
  \/ []<>(outbox > 0)
=============================================================================
