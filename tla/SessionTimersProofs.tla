------------------------- MODULE SessionTimersProofs ------------------------
(***************************************************************************)
(* Proofs about SessionTimers, for all limits, rates, clocks and clients.  *)
(***************************************************************************)
EXTENDS SessionTimers, WellFoundedInduction, TLAPS

Entry == [age : 0..Horizon, retries : Nat]

(* The types of the clocks. *)
ClocksOK ==
  /\ keepalive \in Nat /\ activity \in 0..Horizon
  /\ inflight \in Seq(Entry)
  /\ pass \in [age : 0..Horizon, index : Nat]
  /\ timer \in Nat
  /\ bucket \in [tokens : 0..Capacity, since : 0..Horizon, violations : Nat]
  /\ credit \in Int
  /\ quiet \in 0..Horizon /\ busy \in Nat

(* A set of integers with a lower bound has a least element. *)
LEMMA MinIsLeast ==
  ASSUME NEW S, S \subseteq Int, NEW x \in S, NEW low \in Int, \A y \in S : low <= y
  PROVE  Min(S) \in S /\ \A y \in S : Min(S) <= y
<1> DEFINE Below == {p \in Nat \X Nat : p[1] < p[2]}
           Up == {y - low : y \in S}
<1>1. IsWellFoundedOn(Below, Nat)
  BY NatLessThanWellFounded, Zenon DEF OpToRel
<1>2. Up \in SUBSET Nat /\ Up # {}
  OBVIOUS
<1> HIDE DEF Below, Up
<1>3. PICK m \in Up : \A y \in Up : ~(<<y, m>> \in Below)
  BY <1>1, <1>2, WFMin, Zenon
<1>4. ASSUME NEW y \in Up, y < m PROVE FALSE
  <2>1. <<y, m>> \in Nat \X Nat
    BY <1>2
  <2>2. <<y, m>>[1] < <<y, m>>[2]
    BY <1>4
  <2>3. <<y, m>> \in Below
    BY <2>1, <2>2, Zenon DEF Below
  <2> QED
    BY <1>3, <2>3
<1>5. \A y \in Up : m <= y
  BY <1>2, <1>4
<1>6. \E z \in S : \A y \in S : z <= y
  <2>1. PICK z \in S : m = z - low
    BY <1>3 DEF Up
  <2>2. \A y \in S : y - low \in Up
    BY DEF Up
  <2>3. \A y \in S : z - low <= y - low
    BY <1>5, <2>1, <2>2
  <2> QED
    BY <2>3
<1> QED
  BY Zenon, <1>6 DEF Min

(* Multiplication by a natural number is monotonic. *)
LEMMA TimesMonotonic ==
  ASSUME NEW a \in Nat, NEW b \in Nat, NEW c \in Nat, a <= b
  PROVE  a * c <= b * c /\ c * a <= c * b
<1>1. (b - a) * c >= 0
  <2>1. b - a \in Nat
    OBVIOUS
  <2>2. \A x \in Nat, y \in Nat : x * y \in Nat
    OBVIOUS
  <2>3. (b - a) * c \in Nat
    BY <2>1, <2>2
  <2> QED
    BY <2>3
<1> QED
  BY <1>1

(* Whole seconds are not longer than the time they are counted from. *)
LEMMA WholeSeconds ==
  ASSUME NEW t \in Nat
  PROVE  /\ t \div TicksPerSec \in Nat
         /\ (t \div TicksPerSec) * TicksPerSec <= t
         /\ t \div TicksPerSec = 0 => t < TicksPerSec
  BY TimerConstantsOK
-----------------------------------------------------------------------------
(* What the bucket holds, and what it can still collect, the exact bucket   *)
(* has as well.                                                             *)
Covered(b, c) ==
  c >= b.tokens * TicksPerSec + Rate * b.since \/ c = FullCredit

Bucket == [tokens : 0..Capacity, since : 0..Horizon, violations : Nat]

(* Refilling keeps the bucket covered, and leaves less than a second open.  *)
LEMMA RefillCovered ==
  ASSUME bucket \in Bucket, NEW c \in Int, Covered(bucket, c)
  PROVE  /\ Refilled \in Bucket
         /\ Refilled.since < TicksPerSec
         /\ c >= Refilled.tokens * TicksPerSec + Rate * Refilled.since
<1> DEFINE secs == bucket.since \div TicksPerSec
           t == bucket.tokens
<1>0. /\ t \in 0..Capacity /\ bucket.since \in 0..Horizon
      /\ t \in Nat /\ bucket.since \in Nat /\ Rate \in Nat /\ Capacity \in Nat
      /\ Capacity <= U8Max /\ U8Max \in Nat /\ TicksPerSec \in Nat /\ TicksPerSec > 0
      /\ Horizon \in Nat
  BY TimerConstantsOK DEF Bucket
<1>1. secs \in Nat /\ secs * TicksPerSec <= bucket.since
      /\ (secs = 0 => bucket.since < TicksPerSec)
  BY <1>0, WholeSeconds
<1>2. secs * Rate \in Nat
  BY <1>0, <1>1
<1>3. FullCredit = Capacity * TicksPerSec + Rate * TicksPerSec
  BY <1>0 DEF FullCredit
<1>4. CASE secs = 0
  <2>1. Refilled = bucket
    BY <1>4 DEF Refilled
  <2>2. Rate * bucket.since <= Rate * TicksPerSec /\ t * TicksPerSec <= Capacity * TicksPerSec
    BY <1>0, <1>1, <1>4, TimesMonotonic
  <2>3. Rate * bucket.since \in Nat /\ Rate * TicksPerSec \in Nat
        /\ t * TicksPerSec \in Nat /\ Capacity * TicksPerSec \in Nat
    BY <1>0
  <2> QED
    BY <1>1, <1>3, <1>4, <2>1, <2>2, <2>3 DEF Covered
<1>5. CASE secs # 0
  <2> DEFINE refill == Lower(secs * Rate, U8Max)
             new == Lower(Lower(t + refill, U8Max), Capacity)
  <2>1. refill \in Nat /\ refill <= secs * Rate
    BY <1>0, <1>2 DEF Lower, Higher
  <2>2. Lower(t + refill, U8Max) \in Nat /\ Lower(t + refill, U8Max) <= t + refill
    BY <1>0, <2>1 DEF Lower, Higher
  <2>3. new \in Nat /\ new <= Capacity /\ new <= t + secs * Rate
    BY <1>0, <1>2, <2>1, <2>2 DEF Lower, Higher
  <2>4. Refilled = [tokens |-> new, since |-> 0, violations |-> bucket.violations]
    BY <1>5 DEF Refilled
  <2> HIDE DEF new
  <2>5. Refilled \in Bucket /\ Refilled.since = 0 /\ Refilled.tokens = new
    BY <1>0, <2>3, <2>4 DEF Bucket
  <2>6. new * TicksPerSec <= Capacity * TicksPerSec
        /\ new * TicksPerSec <= (t + secs * Rate) * TicksPerSec
    <3>1. t + secs * Rate \in Nat
      BY <1>0, <1>2
    <3> QED
      BY <1>0, <2>3, <3>1, TimesMonotonic
  <2>7. (t + secs * Rate) * TicksPerSec = t * TicksPerSec + Rate * (secs * TicksPerSec)
    BY <1>0, <1>1
  <2>8. Rate * (secs * TicksPerSec) <= Rate * bucket.since
    <3>1. secs * TicksPerSec \in Nat
      BY <1>0, <1>1
    <3> QED
      BY <1>0, <1>1, <3>1, TimesMonotonic
  <2>9. /\ Rate * TicksPerSec \in Nat /\ Capacity * TicksPerSec \in Nat
        /\ new * TicksPerSec \in Nat /\ t * TicksPerSec \in Nat
        /\ Rate * bucket.since \in Nat /\ Rate * (secs * TicksPerSec) \in Nat
    BY <1>0, <1>1, <2>3
  <2>10. c >= new * TicksPerSec
    BY <1>3, <2>6, <2>7, <2>8, <2>9 DEF Covered
  <2>11. Rate * 0 = 0
    BY <1>0
  <2> QED
    BY <1>0, <2>5, <2>9, <2>10, <2>11
<1> QED
  BY <1>4, <1>5
-----------------------------------------------------------------------------
(* The inductive invariant for the sleep: as NeverOversleeps says.  For the *)
(* keepalive: what was read last is not older than what was sent last, or   *)
(* one packet waits, which arrived in the same busy period.                 *)
ReadInTime ==
  client = "polite" /\ keepalive > 0 =>
    /\ quiet <= keepalive * TicksPerSec
    /\ inbox = "empty" => activity <= quiet
    /\ inbox = "packet" => activity <= keepalive * TicksPerSec + quiet /\ quiet <= busy

TimersInv ==
  /\ ClocksOK
  /\ Covered(bucket, credit)
  /\ NeverOversleeps
  /\ ReadInTime
  /\ busy <= MaxBusy
  /\ credit <= FullCredit
  /\ inbox \in {"empty", "packet"}

(* The keepalive deadline is a natural number of ticks. *)
LEMMA KeepAliveIsTime == ClocksOK => KeepAliveTicks \in Nat
<1>1. ClocksOK => (keepalive * 3) \div 2 \in Nat
  BY DEF ClocksOK
<1> QED
  BY <1>1, TimerConstantsOK DEF KeepAliveTicks

(* next_wakeup_after does not exceed any of the times it is made of. *)
LEMMA WakeupInTime ==
  ASSUME ClocksOK
  PROVE  /\ NextWakeup \in Nat
         /\ \A i \in DOMAIN inflight : NextWakeup <= Higher(1, RetryTicks - inflight[i].age)
         /\ keepalive > 0 => NextWakeup <= Higher(1, KeepAliveTicks - activity)
<1> DEFINE S == {MaxWait} \cup {KeepAliveTicks - activity : k \in {keepalive} \ {0}}
                  \cup {RetryTicks - inflight[i].age : i \in DOMAIN inflight}
           low == 0 - Horizon
<1>1. /\ MaxWait \in Nat /\ Horizon \in Nat /\ RetryTicks \in Nat
      /\ activity \in 0..Horizon /\ keepalive \in Nat
  BY TimerConstantsOK DEF ClocksOK
<1>10. \A i \in DOMAIN inflight : inflight[i].age \in 0..Horizon
  <2>1. \A i \in DOMAIN inflight : inflight[i] \in Entry
    BY DEF ClocksOK
  <2> QED
    BY <2>1 DEF Entry
<1>2. KeepAliveTicks \in Nat
  BY KeepAliveIsTime
<1>3. S \subseteq Int /\ MaxWait \in S /\ low \in Int /\ \A y \in S : low <= y
  BY <1>1, <1>2, <1>10
<1>4. \A i \in DOMAIN inflight : RetryTicks - inflight[i].age \in S
  OBVIOUS
<1>5. keepalive > 0 => KeepAliveTicks - activity \in S
  BY <1>1
<1>6. NextWakeup = Higher(1, Min(S))
  BY DEF NextWakeup
<1> HIDE DEF S, low
<1>7. Min(S) \in Int /\ \A y \in S : Min(S) <= y
  BY Zenon, <1>3, MinIsLeast
<1>8. \A y \in S : Higher(1, Min(S)) <= Higher(1, y) /\ Higher(1, Min(S)) \in Nat
  BY <1>3, <1>7 DEF Lower, Higher
<1> QED
  BY Zenon, <1>3, <1>4, <1>5, <1>6, <1>8

(* The invariant holds when a CONNECT was accepted. *)
LEMMA TimersInitInv == TimersInit => TimersInv
<1> SUFFICES ASSUME TimersInit PROVE TimersInv
  OBVIOUS
<1>1. ClocksOK
  <2>0. [age |-> Horizon, retries |-> 0] \in Entry
    BY TimerConstantsOK DEF Entry
  <2>1. inflight \in Seq(Entry)
    <3>1. <<>> \in Seq(Entry) /\ <<[age |-> Horizon, retries |-> 0]>> \in Seq(Entry)
      BY <2>0
    <3> QED
      BY Zenon, <3>1 DEF TimersInit
  <2>2. FullCredit \in Int
    BY TimerConstantsOK DEF FullCredit
  <2> QED
    BY <2>1, <2>2, TimerConstantsOK DEF TimersInit, ClocksOK, NoPass
<1>2. keepalive * TicksPerSec >= 0
  BY <1>1, TimerConstantsOK DEF ClocksOK
<1>3. Covered(bucket, credit) /\ credit <= FullCredit
  <2>1. FullCredit \in Int
    BY TimerConstantsOK DEF FullCredit
  <2> QED
    BY <2>1 DEF TimersInit, Covered
<1>4. NeverOversleeps
  BY DEF TimersInit, NeverOversleeps
<1>5. ReadInTime /\ busy <= MaxBusy /\ inbox \in {"empty", "packet"}
  BY <1>2, TimerConstantsOK DEF TimersInit, ReadInTime
<1> QED
  BY <1>1, <1>3, <1>4, <1>5 DEF TimersInv

(* What a packet does to the clocks of the loop. *)
LEMMA PacketClocks ==
  ASSUME NEW to, Packet(to)
  PROVE  /\ activity' = 0 /\ UNCHANGED <<keepalive, pass, timer, client, quiet, busy>>
         /\ pc' = to /\ inbox' = "empty"
  BY DEF Packet, Goto

(* Every step keeps the types. *)
LEMMA ClocksStep ==
  ASSUME ClocksOK, [TimersNext]_timerVars, Covered(bucket, credit)
  PROVE  ClocksOK'
<1> USE DEF ClocksOK, Goto
<1>0. /\ Horizon \in Nat /\ Rate \in Nat /\ Capacity \in Nat /\ U8Max \in Nat
      /\ TicksPerSec \in Nat
  BY TimerConstantsOK
<1>1. CASE Flush
  BY <1>0, <1>1 DEF Flush, NoPass, rateVars, clientVars
<1>2. CASE Written
  BY <1>2 DEF Written, rateVars, clientVars
<1>3. CASE Retry
  <2>1. \A i \in DOMAIN inflight : inflight[i] \in Entry
    OBVIOUS
  <2> DEFINE i == Min(DueFrom(pass.index))
  <2>2. i \in DOMAIN inflight
    <3>1. DueFrom(pass.index) \subseteq Int /\ \A y \in DueFrom(pass.index) : 0 <= y
      BY DEF DueFrom
    <3>2. DueFrom(pass.index) # {}
      BY <1>3 DEF Retry
    <3>3. Min(DueFrom(pass.index)) \in DueFrom(pass.index)
      BY <3>1, <3>2, MinIsLeast
    <3> QED
      BY <3>3 DEF DueFrom
  <2> HIDE DEF i
  <2>3. inflight' = [inflight EXCEPT ![i].retries = @ + 1] /\ pass' = [pass EXCEPT !.index = i]
    BY <1>3 DEF Retry, i
  <2>4. inflight' \in Seq(Entry)
    <3>0. inflight[i] \in Entry
      BY <2>1, <2>2
    <3>1. [inflight[i] EXCEPT !.retries = @ + 1] \in Entry
      <4>1. \A e \in Entry : [e EXCEPT !.retries = e.retries + 1] \in Entry
        <5>1. \A e \in Entry, n \in Nat : [e EXCEPT !.retries = n] \in Entry
          BY Zenon DEF Entry
        <5>2. \A e \in Entry : e.retries + 1 \in Nat
          BY DEF Entry
        <5> QED
          BY <5>1, <5>2
      <4> QED
        BY SMTT(40), <3>0, <4>1
    <3> QED
      BY <2>2, <2>3, <3>1
  <2>5. i \in Nat
    BY <2>2
  <2> QED
    BY SMTT(40), <1>3, <2>3, <2>4, <2>5 DEF Retry, rateVars, clientVars
<1>4. CASE RetryWritten
  <2>0. \A i \in DOMAIN inflight : [inflight[i] EXCEPT !.age = pass.age] \in Entry
    <3>1. \A i \in DOMAIN inflight : inflight[i] \in Entry
      OBVIOUS
    <3> QED
      BY Zenon, <3>1 DEF Entry
  <2>1. inflight' \in Seq(Entry)
    <3>1. CASE UNCHANGED inflight
      BY <3>1
    <3>2. CASE inflight' = [inflight EXCEPT ![pass.index].age = pass.age]
      <4>1. CASE pass.index \in DOMAIN inflight
        <5>1. [inflight[pass.index] EXCEPT !.age = pass.age] \in Entry
          BY SMTT(40), <2>0, <4>1
        <5> QED
          BY <3>2, <4>1, <5>1
      <4>2. CASE pass.index \notin DOMAIN inflight
        <5>1. DOMAIN inflight = 1..Len(inflight) /\ Len(inflight) \in Nat
              /\ \A x \in DOMAIN inflight : inflight[x] \in Entry
          OBVIOUS
        <5>2. inflight' = [x \in DOMAIN inflight |-> inflight[x]]
          BY Zenon, <3>2, <4>2
        <5> QED
          BY <5>1, <5>2
      <4> QED
        BY <4>1, <4>2
    <3> QED
      BY Zenon, <1>4, <3>1, <3>2 DEF RetryWritten
  <2> QED
    BY SMTT(40), <1>4, <2>1 DEF RetryWritten, rateVars, clientVars
<1>5. CASE CheckKeepAlive
  <2>1. CASE UNCHANGED timer
    BY <1>0, <1>5, <2>1 DEF CheckKeepAlive, NoPass, rateVars, clientVars
  <2>2. CASE timer' = NextWakeup
    BY <1>0, <1>5, <2>2, WakeupInTime DEF CheckKeepAlive, NoPass, rateVars, clientVars
  <2> QED
    BY <1>5, <2>1, <2>2 DEF CheckKeepAlive
<1>6. CASE Wake
  BY <1>6 DEF Wake, rateVars, clientVars
<1>7. CASE OtherPacket \/ Disconnect
  <2>1. CASE Disconnect
    BY <2>1 DEF Disconnect, rateVars, clientVars
  <2>2. CASE OtherPacket
    <3>1. activity' = 0 /\ UNCHANGED <<keepalive, pass, timer, quiet, busy>>
      BY <2>2, PacketClocks DEF OtherPacket
    <3>2. UNCHANGED <<inflight, bucket, credit>>
      BY <2>2 DEF OtherPacket, rateVars
    <3> QED
      BY <1>0, <3>1, <3>2
  <2> QED
    BY <1>7, <2>1, <2>2
<1>8. CASE Puback
  <2>1. PICK i \in DOMAIN inflight :
          inflight' = SubSeq(inflight, 1, i - 1) \o SubSeq(inflight, i + 1, Len(inflight))
    BY Zenon, <1>8 DEF Puback
  <2>2. i \in 1..Len(inflight) /\ Len(inflight) \in Nat
    <3>1. DOMAIN inflight = 1..Len(inflight) /\ Len(inflight) \in Nat
      OBVIOUS
    <3> QED
      BY <3>1
  <2>3. SubSeq(inflight, 1, i - 1) \in Seq(Entry)
        /\ SubSeq(inflight, i + 1, Len(inflight)) \in Seq(Entry)
    BY SMTT(40), <2>2
  <2>4. inflight' \in Seq(Entry)
    <3>1. \A a, b \in Seq(Entry) : a \o b \in Seq(Entry)
      OBVIOUS
    <3> QED
      BY <2>1, <2>3, <3>1, Zenon
  <2> QED
    BY SMTT(40), <1>0, <1>8, <2>4 DEF Puback, Packet, rateVars
<1>9. CASE Admit
  <2>1. Refilled \in Bucket
    BY RefillCovered DEF Bucket
  <2>2. bucket' \in Bucket /\ credit' \in Int
    BY SMTT(40), <1>0, <1>9, <2>1 DEF Admit, Bucket
  <2> QED
    <3>1. activity' = 0 /\ UNCHANGED <<keepalive, pass, timer, quiet, busy, inflight>>
      BY <1>9, PacketClocks DEF Admit
    <3> QED
      BY <1>0, <2>2, <3>1 DEF Bucket
<1>10. CASE Refuse
  <2>1. Refilled \in Bucket
    BY RefillCovered DEF Bucket
  <2>2. Lower(Refilled.violations + 1, U8Max) \in Nat
    BY SMTT(40), <1>0, <2>1 DEF Lower, Higher, Bucket
  <2>3. bucket' \in Bucket
    BY Zenon, <1>10, <2>1, <2>2 DEF Refuse, Bucket
  <2> QED
    <3>1. activity' = 0 /\ UNCHANGED <<keepalive, pass, timer, quiet, busy, inflight, credit>>
      BY <1>10, PacketClocks DEF Refuse
    <3> QED
      BY <1>0, <2>3, <3>1 DEF Bucket
<1>11. CASE \E qos \in 0..1 : Route(qos)
  <2>1. [age |-> 0, retries |-> 0] \in Entry
    BY <1>0 DEF Entry
  <2>2. inflight' \in Seq(Entry)
    BY <1>11, <2>1 DEF Route
  <2> QED
    BY <1>11, <2>2 DEF Route, rateVars, clientVars
<1>12. CASE Send \/ FallSilent
  <2>1. CASE Send
    BY <1>0, <2>1, SMTT(40) DEF Send, loopVars, rateVars
  <2>2. CASE FallSilent
    BY <1>0, <2>2, SMTT(40) DEF FallSilent, loopVars, rateVars
  <2> QED
    BY <1>12, <2>1, <2>2, Zenon
<1>13. CASE Tick
  <2>1. \A a \in 0..Horizon : Older(a) \in 0..Horizon
    BY <1>0 DEF Lower, Higher, Older
  <2>2. inflight' \in Seq(Entry)
    <3>1. \A i \in DOMAIN inflight : inflight[i] \in Entry
      OBVIOUS
    <3>2. \A i \in DOMAIN inflight : [inflight[i] EXCEPT !.age = Older(@)] \in Entry
      BY Zenon, <2>1, <3>1 DEF Entry
    <3>3. DOMAIN inflight = 1..Len(inflight) /\ Len(inflight) \in Nat
      OBVIOUS
    <3> QED
      BY SMTT(40), <1>13, <3>2, <3>3 DEF Tick
  <2>3. timer' \in Nat
    BY SMTT(40), <1>13 DEF Lower, Higher, Tick
  <2>4. credit' \in Int
    <3>1. FullCredit \in Int /\ credit + Rate \in Int
      BY <1>0 DEF FullCredit
    <3> QED
      BY <1>13, <3>1 DEF Lower, Higher, Tick
  <2> QED
    <3>1. bucket' \in [tokens : 0..Capacity, since : 0..Horizon, violations : Nat]
      BY Zenon, <1>13, <2>1 DEF Tick
    <3>2. pass' \in [age : 0..Horizon, index : Nat]
      BY Zenon, <1>13, <2>1 DEF Tick
    <3>3. activity' \in 0..Horizon /\ quiet' \in 0..Horizon /\ keepalive' \in Nat
      BY Zenon, <1>13, <2>1 DEF Tick
    <3>4. busy' \in Nat
      BY SMTT(40), <1>13 DEF Tick
    <3> QED
      BY <2>2, <2>3, <2>4, <3>1, <3>2, <3>3, <3>4
<1>14. CASE UNCHANGED timerVars
  BY <1>14 DEF timerVars, loopVars, rateVars, clientVars
<1> QED
  BY <1>1, <1>2, <1>3, <1>4, <1>5, <1>6, <1>7, <1>8, <1>9, <1>10, <1>11, <1>12,
     <1>13, <1>14 DEF TimersNext, LoopStep, PacketStep

(* The limiter stays covered by the exact bucket. *)
LEMMA CoveredStep ==
  ASSUME ClocksOK, Covered(bucket, credit), credit <= FullCredit, [TimersNext]_timerVars
  PROVE  Covered(bucket, credit)' /\ credit' <= FullCredit
<1>0. /\ TicksPerSec \in Nat /\ TicksPerSec > 0 /\ Rate \in Nat /\ Horizon \in Nat
      /\ Capacity \in Nat /\ FullCredit \in Int
      /\ bucket \in Bucket /\ credit \in Int
  BY TimerConstantsOK DEF ClocksOK, Bucket, FullCredit
<1>1. CASE UNCHANGED <<bucket, credit>>
  BY <1>1 DEF Covered, FullCredit
<1>2. CASE Admit
  <2>1. /\ Refilled \in Bucket
        /\ credit >= Refilled.tokens * TicksPerSec + Rate * Refilled.since
    BY <1>0, RefillCovered
  <2>2. Refilled.tokens \in Nat /\ Refilled.since \in Nat
    BY <1>0, <2>1 DEF Bucket
  <2>3. (Refilled.tokens - 1) * TicksPerSec = Refilled.tokens * TicksPerSec - TicksPerSec
    BY <1>0, <2>2
  <2>4. /\ bucket'.tokens = Refilled.tokens - 1 /\ bucket'.since = Refilled.since
        /\ credit' = credit - TicksPerSec
    BY <1>2 DEF Admit
  <2>5. Refilled.tokens * TicksPerSec \in Int /\ Rate * Refilled.since \in Int
    BY <1>0, <2>2
  <2>6. credit' >= bucket'.tokens * TicksPerSec + Rate * bucket'.since
    BY <1>0, <2>1, <2>3, <2>4, <2>5
  <2> QED
    BY <1>0, <2>4, <2>6 DEF Covered
<1>3. CASE Refuse
  <2>1. /\ Refilled \in Bucket
        /\ credit >= Refilled.tokens * TicksPerSec + Rate * Refilled.since
    BY <1>0, RefillCovered
  <2>2. bucket'.tokens = Refilled.tokens /\ bucket'.since = Refilled.since /\ credit' = credit
    BY <1>3, <2>1 DEF Refuse, Bucket
  <2> QED
    BY <2>1, <2>2 DEF Covered
<1>4. CASE Tick
  <2> DEFINE t == bucket.tokens
             x == bucket.since
  <2>1. t \in Nat /\ x \in 0..Horizon
    BY <1>0 DEF Bucket
  <2>2. bucket' = [bucket EXCEPT !.since = Older(x)] /\ credit' = Lower(credit + Rate, FullCredit)
    BY <1>4 DEF Tick
  <2>3. bucket'.tokens = t /\ bucket'.since = Older(x)
    BY <1>0, <2>2 DEF Bucket
  <2>4. credit' <= FullCredit
    BY <1>0, <2>2 DEF Lower
  <2>5. Rate * (x + 1) = Rate * x + Rate
    BY <1>0, <2>1
  <2>6. t * TicksPerSec \in Int /\ Rate * x \in Int
    BY <1>0, <2>1
  <2>7. Older(x) \in {x, x + 1}
    BY <1>0, <2>1 DEF Older, Lower
  <2> HIDE DEF t, x
  <2>8. CASE credit' = FullCredit
    BY <2>4, <2>8 DEF Covered
  <2>9. CASE credit' # FullCredit
    <3>1. credit' = credit + Rate /\ credit # FullCredit
      BY <1>0, <2>2, <2>9 DEF Lower
    <3>2. credit >= t * TicksPerSec + Rate * x
      BY <3>1 DEF Covered, t, x
    <3>3. credit' >= t * TicksPerSec + Rate * Older(x)
      BY SMTT(40), <1>0, <2>5, <2>6, <2>7, <3>1, <3>2
    <3> QED
      BY <2>3, <2>4, <3>3 DEF Covered
  <2> QED
    BY <2>8, <2>9
<1>5. CASE LoopStep \/ OtherPacket \/ Puback \/ Disconnect \/ Send \/ FallSilent
           \/ (\E qos \in 0..1 : Route(qos)) \/ UNCHANGED timerVars
  BY <1>1, <1>5 DEF LoopStep, Flush, Written, Retry, RetryWritten, CheckKeepAlive, Wake,
       OtherPacket, Puback, Disconnect, Send, FallSilent, Route, timerVars, rateVars
<1> QED
  BY <1>2, <1>3, <1>4, <1>5 DEF TimersNext, PacketStep

(* A sleeping loop stays in time. *)
LEMMA SleepStep ==
  ASSUME ClocksOK, NeverOversleeps, [TimersNext]_timerVars
  PROVE  NeverOversleeps'
<1>1. CASE pc' # "sleep"
  BY <1>1 DEF NeverOversleeps
<1>2. CASE CheckKeepAlive
  <2>1. CASE pc' = "sleep"
    <3>1. timer' = NextWakeup /\ UNCHANGED <<inflight, keepalive, activity>>
      BY <1>2, <2>1 DEF CheckKeepAlive, Goto
    <3> QED
      BY <3>1, WakeupInTime DEF NeverOversleeps, KeepAliveTicks
  <2> QED
    BY <1>1, <2>1
<1>3. CASE Flush \/ Written \/ Retry \/ RetryWritten \/ Wake \/ PacketStep
  <2>1. pc' # "sleep"
    BY <1>3, PacketClocks DEF Flush, Written, Retry, RetryWritten, Wake, PacketStep,
         OtherPacket, Puback, Admit, Refuse, Disconnect, Goto
  <2> QED
    BY <1>1, <2>1
<1>4. CASE \E qos \in 0..1 : Route(qos)
  BY <1>4 DEF Route, NeverOversleeps
<1>5. CASE Send \/ FallSilent \/ UNCHANGED timerVars
  BY <1>5 DEF Send, FallSilent, timerVars, loopVars, NeverOversleeps, KeepAliveTicks
<1>6. CASE Tick
  <2> SUFFICES ASSUME pc' = "sleep", signal' = "none"
               PROVE  /\ \A i \in DOMAIN inflight' :
                           timer' <= Higher(1, RetryTicks - inflight'[i].age)
                      /\ keepalive' > 0 => timer' <= Higher(1, KeepAliveTicks' - activity')
    BY DEF NeverOversleeps
  <2>1. pc = "sleep" /\ signal = "none" /\ keepalive' = keepalive
        /\ timer' = Higher(timer - 1, 0) /\ activity' = Older(activity)
        /\ inflight' = [i \in DOMAIN inflight |-> [inflight[i] EXCEPT !.age = Older(@)]]
    BY <1>6 DEF Tick
  <2>2. \A a \in 0..Horizon : a \in Int /\ Older(a) \in Int /\ Older(a) <= a + 1
    BY TimerConstantsOK DEF Older, Lower
  <2>3. \A k \in Int, a \in 0..Horizon :
          timer <= Higher(1, k - a) => Higher(timer - 1, 0) <= Higher(1, k - Older(a))
    <3>1. timer \in Nat
      BY DEF ClocksOK
    <3>2. \A k \in Int, a \in Int, b \in Int :
            b <= a + 1 /\ timer <= Higher(1, k - a)
              => Higher(timer - 1, 0) <= Higher(1, k - b)
      BY <3>1 DEF Higher
    <3> QED
      BY Zenon, <2>2, <3>2
  <2>4. \A i \in DOMAIN inflight : inflight[i] \in Entry
    BY DEF ClocksOK
  <2>5. ASSUME NEW i \in DOMAIN inflight'
        PROVE  timer' <= Higher(1, RetryTicks - inflight'[i].age)
    <3>1. i \in DOMAIN inflight /\ inflight[i].age \in 0..Horizon
      BY <2>1, <2>4 DEF Entry
    <3>2. inflight'[i].age = Older(inflight[i].age)
      BY <2>1, <2>4, <3>1 DEF Entry
    <3>3. timer <= Higher(1, RetryTicks - inflight[i].age)
      BY <2>1, <3>1 DEF NeverOversleeps
    <3> QED
      BY <2>1, <2>3, <3>1, <3>2, <3>3, TimerConstantsOK
  <2>6. ASSUME keepalive' > 0 PROVE timer' <= Higher(1, KeepAliveTicks' - activity')
    <3>1. KeepAliveTicks' = KeepAliveTicks /\ KeepAliveTicks \in Int
      BY <2>1, KeepAliveIsTime DEF KeepAliveTicks
    <3>2. timer <= Higher(1, KeepAliveTicks - activity)
      BY <2>1, <2>6 DEF NeverOversleeps
    <3> QED
      BY <2>1, <2>3, <3>1, <3>2 DEF ClocksOK
  <2> QED
    BY <2>5, <2>6
<1> QED
  BY <1>2, <1>3, <1>4, <1>5, <1>6 DEF TimersNext, LoopStep

(* A polite client's packets are read in time. *)
LEMMA ReadStep ==
  ASSUME ClocksOK, ReadInTime, busy <= MaxBusy, [TimersNext]_timerVars
  PROVE  ReadInTime' /\ busy' <= MaxBusy
<1> DEFINE promise == keepalive * TicksPerSec
<1>0. promise \in Nat /\ Horizon \in Nat /\ MaxBusy \in Nat
  BY TimerConstantsOK DEF ClocksOK
<1>1. CASE UNCHANGED <<keepalive, activity, client, inbox, quiet, busy>>
  BY <1>1 DEF ReadInTime
<1>2. CASE PacketStep /\ ~Disconnect
  <2>1. activity' = 0 /\ UNCHANGED <<keepalive, client, quiet, busy>> /\ inbox' = "empty"
    BY <1>2, PacketClocks DEF PacketStep, OtherPacket, Puback, Admit, Refuse
  <2> QED
    BY <2>1 DEF ReadInTime, ClocksOK
<1>3. CASE Send
  <2>1. /\ client = "polite" /\ inbox = "empty" /\ inbox' = "packet" /\ quiet' = 0
        /\ UNCHANGED <<keepalive, activity, client, busy>>
    BY <1>3 DEF Send, loopVars
  <2> HIDE DEF promise
  <2> QED
    BY <1>0, <2>1 DEF ReadInTime, ClocksOK, promise
<1>4. CASE FallSilent
  BY <1>4 DEF FallSilent, ReadInTime
<1>5. CASE Tick
  <2>1. /\ client = "polite" /\ keepalive > 0 => quiet < promise
        /\ Ready => busy < MaxBusy
        /\ busy' = IF Ready THEN busy + 1 ELSE 0
        /\ quiet' = IF client = "polite" THEN Older(quiet) ELSE quiet
        /\ activity' = Older(activity) /\ UNCHANGED <<keepalive, client, inbox>>
    BY <1>5 DEF Tick
  <2>2. inbox = "packet" => Ready
    BY DEF Ready
  <2>3. busy' <= MaxBusy
    BY <1>0, <2>1 DEF ClocksOK
  <2>4. promise' = promise
    BY <2>1
  <2> HIDE DEF promise
  <2>5. ReadInTime'
    <3> SUFFICES ASSUME client = "polite", keepalive > 0
                 PROVE  /\ quiet' <= promise
                        /\ inbox = "empty" => activity' <= quiet'
                        /\ inbox = "packet" => activity' <= promise + quiet' /\ quiet' <= busy'
      BY <2>1, <2>4 DEF ReadInTime, promise
    <3>1. /\ quiet <= promise /\ (inbox = "empty" => activity <= quiet)
          /\ inbox = "packet" => activity <= promise + quiet /\ quiet <= busy
      BY DEF ReadInTime, promise
    <3>2. quiet' = Older(quiet) /\ quiet < promise
      BY <2>1
    <3> QED
      BY <1>0, <2>1, <2>2, <3>1, <3>2 DEF ClocksOK, Older, Lower
  <2> QED
    BY <2>3, <2>5
<1>6. CASE LoopStep \/ Disconnect \/ (\E qos \in 0..1 : Route(qos)) \/ UNCHANGED timerVars
  BY <1>1, <1>6 DEF LoopStep, Flush, Written, Retry, RetryWritten, CheckKeepAlive, Wake,
       Disconnect, Route, timerVars, loopVars, clientVars
<1> QED
  BY <1>2, <1>3, <1>4, <1>5, <1>6 DEF TimersNext

(* All of it together is inductive. *)
LEMMA TimersInvariant == TimersSpec => []TimersInv
<1>1. TimersInv /\ [TimersNext]_timerVars => inbox' \in {"empty", "packet"}
  BY Zenon, PacketClocks DEF TimersInv, TimersNext, LoopStep, PacketStep, Flush, Written, Retry,
       RetryWritten, CheckKeepAlive, Wake, OtherPacket, Puback, Admit, Refuse, Disconnect,
       Route, Send, FallSilent, Tick, timerVars, clientVars
<1>2. TimersInv /\ [TimersNext]_timerVars => TimersInv'
  BY <1>1, ClocksStep, CoveredStep, SleepStep, ReadStep DEF TimersInv
<1> QED
  BY <1>2, TimersInitInv, PTL DEF TimersSpec

(* Whatever the capacity, the rate and the clock: publishes that the        *)
(* limiter admits never overdraw the exact bucket.                          *)
THEOREM LimiterBounded == TimersSpec => []AdmissionBound
<1>1. TimersInv => AdmissionBound
  <2> SUFFICES ASSUME TimersInv PROVE credit >= 0
    BY DEF AdmissionBound
  <2>1. /\ bucket.tokens \in Nat /\ bucket.since \in Nat /\ Rate \in Nat
        /\ Capacity \in Nat /\ TicksPerSec \in Nat /\ Capacity + Rate \in Nat
    BY TimerConstantsOK DEF TimersInv, ClocksOK
  <2>2. \A a \in Nat, b \in Nat : a * b \in Nat
    OBVIOUS
  <2>3. bucket.tokens * TicksPerSec \in Nat /\ Rate * bucket.since \in Nat /\ FullCredit \in Nat
    BY <2>1, <2>2 DEF FullCredit
  <2> QED
    BY SMTT(40), <2>3 DEF TimersInv, Covered, ClocksOK
<1> QED
  BY <1>1, TimersInvariant, PTL

(* No retry and no keepalive check is slept through. *)
THEOREM WakesInTime == TimersSpec => []NeverOversleeps
<1>1. TimersInv => NeverOversleeps
  BY DEF TimersInv
<1> QED
  BY <1>1, TimersInvariant, PTL

(* A polite client keeps its connection whenever the loop returns to its    *)
(* select within the grace period.                                          *)
THEOREM PoliteClientsStay == TimersSpec => []PoliteClientStays
<1>1. TimersInv => PoliteClientStays
  <2> SUFFICES ASSUME TimersInv, client = "polite", keepalive > 0,
                      keepalive * TicksPerSec + MaxBusy <= KeepAliveTicks
               PROVE  activity <= KeepAliveTicks
    <3>1. TimersInv => activity \in Int /\ KeepAliveTicks \in Int
      BY KeepAliveIsTime, TimerConstantsOK DEF TimersInv, ClocksOK
    <3> QED
      BY <3>1 DEF PoliteClientStays, KeepAliveExpired
  <2> DEFINE promise == keepalive * TicksPerSec
  <2>1. promise \in Nat /\ MaxBusy \in Nat /\ KeepAliveTicks \in Int
    BY TimerConstantsOK, KeepAliveIsTime DEF TimersInv, ClocksOK
  <2>2. /\ quiet <= promise /\ (inbox = "empty" => activity <= quiet)
        /\ inbox = "packet" => activity <= promise + quiet /\ quiet <= busy
    BY DEF TimersInv, ReadInTime
  <2>3. inbox \in {"empty", "packet"}
    BY DEF TimersInv
  <2> HIDE DEF promise
  <2> QED
    <3>1. activity \in Int /\ quiet \in Int /\ busy \in Int /\ busy <= MaxBusy
      BY TimerConstantsOK DEF TimersInv, ClocksOK
    <3>2. promise + MaxBusy <= KeepAliveTicks
      BY DEF promise
    <3> QED
      BY <2>1, <2>2, <2>3, <3>1, <3>2
<1> QED
  BY <1>1, TimersInvariant, PTL
=============================================================================
