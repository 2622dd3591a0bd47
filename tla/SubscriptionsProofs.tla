------------------------ MODULE SubscriptionsProofs ------------------------
(***************************************************************************)
(* Proofs about Subscriptions.  A table holds no filter twice and only     *)
(* valid ones, the retained store holds no topic twice, and a filter is    *)
(* refused for want of room only while there is none; from these, every    *)
(* step keeps the answer and the table in agreement.  The newest retained  *)
(* value is the last on its way, or still to be compared with a new filter *)
(* while nothing about its topic is queued that would come after it.       *)
(***************************************************************************)
EXTENDS Subscriptions, WellFoundedInduction, TLAPS

Sub == [filter : Levels, qos : QoS]
Asked == [filter : Levels, qos : QoS \cup {"none"}]
Code == QoS \cup {"failure", "removed"}
Entry == [topic : Topics, payload : Payloads \ {""}]
Due == [by : Dying, topic : Topics, payload : Payloads \cup {NotRetained}]
Reply == [asked : Seq(Asked), codes : Seq(Code), new : Seq(Levels), replay : Seq(Entry)]

SubsTypeOK ==
  /\ pc \in {"flush", "wait", "upsert", "collect", "remove", "reply", "replay"}
  /\ subs \in Seq(Sub) /\ outbox \in Seq(Frames) /\ retained \in Seq(Entry)
  /\ reply \in Reply /\ entry \in Nat \ {0} /\ wills \subseteq Due /\ view \in [Topics -> Payloads]

(* A table: valid filters, none twice. *)
TableOK(table) ==
  /\ \A i \in DOMAIN table : IsValidFilter(table[i].filter)
  /\ \A i, j \in DOMAIN table : table[i].filter = table[j].filter => i = j

(* A retained store: no topic twice. *)
StoreOK(entries) == \A i, j \in DOMAIN entries : entries[i].topic = entries[j].topic => i = j

(* What the reply holds at each point of the loop; one packet is all of one *)
(* kind.                                                                    *)
PhaseOK ==
  /\ pc \in {"flush", "wait", "replay"} => reply.asked = <<>> /\ reply.codes = <<>>
  /\ pc \in {"flush", "wait", "upsert", "remove"} => reply.replay = <<>>
  /\ entry = 1 \/ (pc = "collect" /\ reply.new # <<>> /\ entry <= Len(retained))
  /\ pc = "upsert" => \A i \in 1..Len(reply.codes) : reply.codes[i] # "removed"
  /\ pc = "remove" => \A i \in 1..Len(reply.codes) : reply.codes[i] = "removed"
  /\ pc \notin {"upsert", "collect"} => reply.new = <<>>

(* The table agrees with answer i, and only a full table refuses a valid    *)
(* filter.                                                                  *)
AnswerOK(table, asked, codes, i) ==
  LET f == asked[i].filter IN
  IF codes[i] \in {"failure", "removed"}
  THEN /\ \A k \in 1..Len(table) : table[k].filter # f
       /\ codes[i] = "failure" /\ IsValidFilter(f) => Len(table) >= MaxSubs
  ELSE \E k \in 1..Len(table) :
         /\ table[k].filter = f
         /\ table[k].qos = codes[i] \/ \E j \in 1..Len(asked) : j > i /\ asked[j].filter = f

AnswersOK(table, asked, codes) ==
  /\ Len(codes) = Len(asked)
  /\ \A i \in 1..Len(codes) : AnswerOK(table, asked, codes, i)

(* Subscribed, Arrives and SubscriberCurrent for given values of the        *)
(* variables.                                                               *)
Matched(table, t) == \E i \in DOMAIN table : TopicMatches(table[i].filter, t)

ArrivesIn(out, replay, known, t, p) ==
  \/ LastIs(out, t, p)
  \/ About(out, t) = {} /\ LastIs(replay, t, p)
  \/ About(out, t) = {} /\ About(replay, t) = {} /\ known[t] = p

(* A will among those that are due has the value. *)
OnItsWay(due, t, p) == \E k \in due : k.topic = t /\ k.payload = p

CurrentIn(entries, table, excused, due, out, replay, known) ==
  \A i \in DOMAIN entries :
    Matched(table, entries[i].topic) /\ entries[i].topic \notin excused
      => \/ ArrivesIn(out, replay, known, entries[i].topic, entries[i].payload)
         \/ OnItsWay(due, entries[i].topic, entries[i].payload)

(* Entry i is still to be compared with a new filter that matches it; at is *)
(* the position in the entries for the first one.                           *)
Pending(entries, new, at, i) ==
  \E k \in DOMAIN new : TopicMatches(new[k], entries[i].topic) /\ (k = 1 => at <= i)

(* While a SUBSCRIBE is prepared: what does not arrive yet is pending, with *)
(* no older message in the outbox.                                          *)
CurrentBut(entries, table, excused, due, out, replay, known, new, at) ==
  \A i \in DOMAIN entries :
    Matched(table, entries[i].topic) /\ entries[i].topic \notin excused
      => \/ ArrivesIn(out, replay, known, entries[i].topic, entries[i].payload)
         \/ OnItsWay(due, entries[i].topic, entries[i].payload)
         \/ About(out, entries[i].topic) = {} /\ Pending(entries, new, at, i)

(* The outbox holds retained messages only of topics in the table, from the *)
(* moment it has been flushed until an UNSUBSCRIBE, but for wills that came *)
(* too late.                                                                *)
QueuedOK(table, out, tooLate) ==
  \A k \in DOMAIN out :
    out[k].payload # NotRetained => Matched(table, out[k].topic) \/ out[k].topic \in tooLate

SubsInv ==
  /\ SubsTypeOK /\ PhaseOK /\ TableOK(subs) /\ StoreOK(retained)
  /\ AnswersOK(subs, reply.asked, reply.codes)
  /\ CurrentBut(retained, subs, missed \cup late, wills, outbox, reply.replay, view, reply.new, entry)
  /\ pc \in {"wait", "upsert", "collect"} => QueuedOK(subs, outbox, late)
-----------------------------------------------------------------------------
(* Matching. *)

(* A set of numbers that is not empty has a least element. *)
LEMMA SmallestNumber ==
  ASSUME NEW S \in SUBSET Nat, S # {}
  PROVE  \E x \in S : \A y \in S : x <= y
<1> DEFINE Less == {p \in Nat \X Nat : p[1] < p[2]}
<1>1. IsWellFoundedOn(Less, Nat)
  BY NatLessThanWellFounded, Zenon DEF OpToRel
<1> HIDE DEF Less
<1>2. PICK x \in S : \A y \in S : ~(<<y, x>> \in Less)
  BY <1>1, WFMin, Zenon
<1>3. ASSUME NEW y \in S, y < x PROVE FALSE
  <2>1. <<y, x>> \in Nat \X Nat
    OBVIOUS
  <2>2. <<y, x>>[1] < <<y, x>>[2]
    BY <1>3
  <2>3. <<y, x>> \in Less
    BY <2>1, <2>2, Zenon DEF Less
  <2> QED
    BY <1>2, <2>3
<1> QED
  BY <1>2, <1>3

(* The pair of levels i lets the loop of topic_matches go on. *)
GoesOn(f, t, i) ==
  /\ i \in DOMAIN f \cap DOMAIN t /\ f[i] # "#"
  /\ f[i] = t[i] \/ (f[i] = "+" /\ t[i] # "")

(* The two levels of such a pair. *)
LEMMA GoesOnLevels ==
  ASSUME NEW f, NEW t, NEW i, GoesOn(f, t, i)
  PROVE  /\ i \in DOMAIN f /\ i \in DOMAIN t /\ f[i] # "#"
         /\ f[i] = t[i] \/ (f[i] = "+" /\ t[i] # "")
  BY Zenon DEF GoesOn

(* The loop ends at pair i. *)
EndsAt(f, t, i) == ~GoesOn(f, t, i) /\ \A j \in 1..i - 1 : GoesOn(f, t, j)

(* The loop ends at one pair of levels and at no other, within the filter   *)
(* or just after it.                                                        *)
LEMMA LoopEnds ==
  ASSUME NEW f \in Levels, NEW t \in Levels
  PROVE  /\ \E i \in 1..Len(f) + 1 : EndsAt(f, t, i)
         /\ \A i, j \in 1..Len(f) + 1 : EndsAt(f, t, i) /\ EndsAt(f, t, j) => i = j
<1> DEFINE S == {i \in 1..Len(f) + 1 : ~GoesOn(f, t, i)}
<1>1. Len(f) \in Nat /\ DOMAIN f = 1..Len(f)
  BY DEF Levels
<1>2. Len(f) + 1 \in S /\ S \in SUBSET Nat
  <2>1. Len(f) + 1 \notin DOMAIN f /\ Len(f) + 1 \in 1..Len(f) + 1
    BY <1>1
  <2>2. ~GoesOn(f, t, Len(f) + 1)
    BY <2>1, GoesOnLevels, Zenon
  <2>3. 1..Len(f) + 1 \subseteq Nat
    BY <1>1
  <2> QED
    BY <2>1, <2>2, <2>3, Zenon
<1>3. PICK i \in S : \A j \in S : i <= j
  <2> HIDE DEF S
  <2> QED
    BY <1>2, SmallestNumber, Zenon
<1>4. EndsAt(f, t, i)
  BY <1>1, <1>3 DEF EndsAt
<1>5. ASSUME NEW k \in 1..Len(f) + 1, NEW l \in 1..Len(f) + 1,
             EndsAt(f, t, k), EndsAt(f, t, l), k < l
      PROVE  FALSE
  BY <1>1, <1>5 DEF EndsAt
<1> QED
  BY <1>1, <1>3, <1>4, <1>5

(* topic_matches in terms of the pair at which its loop ends. *)
LEMMA MatchesByEnd ==
  ASSUME NEW f \in Levels, NEW t \in Levels, NEW i \in 1..Len(f) + 1, EndsAt(f, t, i)
  PROVE  TopicMatches(f, t) <=>
           \/ f = t
           \/ /\ ~(t[1] \in DollarLevels /\ ContainsWildcards(f))
              /\ \/ i \in DOMAIN f /\ f[i] = "#"
                 \/ i \notin DOMAIN f \cup DOMAIN t
<1> DEFINE stop == CHOOSE k \in 1..Len(f) + 1 : EndsAt(f, t, k)
<1>1. stop \in 1..Len(f) + 1 /\ EndsAt(f, t, stop)
  BY Zenon
<1>2. stop = i
  BY <1>1, LoopEnds, Zenon
<1>3. TopicMatches(f, t) <=>
           \/ f = t
           \/ /\ ~(t[1] \in DollarLevels /\ ContainsWildcards(f))
              /\ \/ stop \in DOMAIN f /\ f[stop] = "#"
                 \/ stop \notin DOMAIN f \cup DOMAIN t
  BY Zenon DEF TopicMatches, EndsAt, GoesOn
<1> HIDE DEF stop
<1> QED
  BY <1>2, <1>3, Zenon

(* For a valid filter the loop computes MQTT's relation. *)
LEMMA MatchingIsExact ==
  ASSUME NEW f \in Levels, NEW t \in Levels, IsValidFilter(f)
  PROVE  TopicMatches(f, t) <=> Covers(f, t)
<1> DEFINE n == Len(f)
<1>1. n \in Nat \ {0} /\ DOMAIN f = 1..n /\ Len(t) \in Nat /\ DOMAIN t = 1..Len(t)
  BY DEF Levels
<1>2. PICK i \in 1..n + 1 : EndsAt(f, t, i)
  BY LoopEnds, Zenon
<1>3. \A j \in 1..n : f[j] = "#" => j = n
  BY Zenon, <1>1, SubscriptionConstantsOK DEF IsValidFilter
<1>4. \A j \in 1..i - 1 : GoesOn(f, t, j)
  BY <1>2 DEF EndsAt
<1>5. CASE f = t
  BY <1>5, <1>2, MatchesByEnd, Zenon DEF Covers
<1>6. CASE f # t
  <2> DEFINE Whole == i \in DOMAIN f /\ f[i] = "#"
             Both == i \notin DOMAIN f \cup DOMAIN t
             Shape == /\ IF f[n] = "#" THEN Len(t) >= n - 1 ELSE Len(t) = n
                      /\ \A k \in 1..n : f[k] # "#" => f[k] = t[k] \/ (f[k] = "+" /\ t[k] # "")
  <2>1. Whole => Shape
    <3>1. SUFFICES ASSUME Whole PROVE Shape
      BY ZenonT(40)
    <3>2. i = n
      BY Zenon, <1>1, <1>3, <3>1
    <3>3. \A k \in 1..n - 1 : GoesOn(f, t, k)
      BY <1>4, <3>2
    <3>4. Len(t) >= n - 1
      <4>1. CASE n = 1
        BY <1>1, <4>1
      <4>2. CASE n # 1
        <5>1. GoesOn(f, t, n - 1)
          BY <1>1, <3>3, <4>2
        <5>2. n - 1 \in 1..Len(t)
          BY <1>1, <5>1, GoesOnLevels, Zenon
        <5> QED
          BY <1>1, <5>2
      <4> QED
        BY <4>1, <4>2
    <3>5. ASSUME NEW k \in 1..n, f[k] # "#" PROVE f[k] = t[k] \/ (f[k] = "+" /\ t[k] # "")
      <4>1. k \in 1..n - 1
        BY <1>1, <3>1, <3>2, <3>5
      <4> QED
        BY Zenon, <3>3, <4>1 DEF GoesOn
    <3> QED
      BY Zenon, <3>1, <3>2, <3>4, <3>5
  <2>2. Both => Shape /\ f[n] # "#" /\ \A k \in 1..n : GoesOn(f, t, k)
    <3>1. SUFFICES ASSUME Both PROVE Shape /\ f[n] # "#" /\ \A k \in 1..n : GoesOn(f, t, k)
      BY Zenon
    <3>2. i = n + 1 /\ Len(t) <= n
      BY <1>1, <3>1
    <3>3. \A k \in 1..n : GoesOn(f, t, k)
      BY <1>4, <1>1, <3>2
    <3>4. GoesOn(f, t, n)
      BY <1>1, <3>3
    <3>5. f[n] # "#" /\ n \in 1..Len(t)
      BY <1>1, <3>4, GoesOnLevels, Zenon
    <3>6. Len(t) = n
      <4>1. \A x, y \in Nat : x <= y /\ y \in 1..x => x = y
        OBVIOUS
      <4> QED
        BY <1>1, <3>2, <3>5, <4>1, Zenon
    <3> QED
      BY <3>3, <3>5, <3>6, GoesOnLevels, ZenonT(30)
  <2>3. Whole \/ Both => ContainsWildcards(f)
    <3>1. CASE Whole
      BY Zenon, <3>1, SubscriptionConstantsOK DEF ContainsWildcards
    <3>2. CASE Both
      <4>1. SUFFICES ASSUME ~ContainsWildcards(f) PROVE FALSE
        OBVIOUS
      <4>2. ASSUME NEW k \in 1..n PROVE f[k] = t[k]
        <5>1. GoesOn(f, t, k)
          BY Zenon, <2>2, <3>2
        <5>2. f[k] # "+"
          BY Zenon, <1>1, <4>1, SubscriptionConstantsOK DEF ContainsWildcards
        <5> QED
          BY Zenon, <5>1, <5>2 DEF GoesOn
      <4>3. Len(t) = n
        BY Zenon, <2>2, <3>2
      <4>4. f \in Seq(STRING) /\ t \in Seq(STRING)
        BY DEF Levels
      <4>5. f = t
        BY <1>1, <4>2, <4>3, <4>4
      <4> QED
        BY <1>6, <4>5
    <3> QED
      BY <3>1, <3>2
  <2>4. Shape => Whole \/ Both
    <3>1. SUFFICES ASSUME Shape PROVE Whole \/ Both
      BY Zenon
    <3>2. CASE f[n] = "#"
      <4>1. ASSUME NEW k \in 1..n - 1 PROVE GoesOn(f, t, k)
        <5>0. Len(t) >= n - 1
          BY <3>1, <3>2, Zenon
        <5>1. k \in 1..n /\ k # n /\ k \in 1..Len(t)
          <6>1. \A x, y \in Nat : x >= y - 1 =>
                  \A z \in 1..y - 1 : z \in 1..y /\ z # y /\ z \in 1..x
            OBVIOUS
          <6> QED
            BY <1>1, <5>0, <6>1, Zenon
        <5> QED
          BY Zenon, <1>1, <1>3, <3>1, <5>1 DEF GoesOn
      <4>2. EndsAt(f, t, n)
        BY Zenon, <3>2, <4>1 DEF EndsAt, GoesOn
      <4>3. n \in 1..n + 1
        BY <1>1
      <4>4. i = n
        BY <1>2, <4>2, <4>3, LoopEnds, Zenon
      <4> QED
        BY SMTT(40), <1>1, <3>2, <4>4
    <3>3. CASE f[n] # "#"
      <4>1. ASSUME NEW k \in 1..n PROVE GoesOn(f, t, k)
        <5>1. f[k] # "#" /\ Len(t) = n
          BY Zenon, <1>3, <3>1, <3>3
        <5> QED
          BY Zenon, <1>1, <3>1, <5>1 DEF GoesOn
      <4>0. Len(t) = n
        BY <3>1, <3>3, Zenon
      <4>2. n + 1 \notin DOMAIN f /\ n + 1 \notin DOMAIN t /\ (n + 1) - 1 = n /\ n + 1 \in 1..n + 1
        BY <1>1, <4>0
      <4>3. EndsAt(f, t, n + 1)
        BY Zenon, <4>1, <4>2 DEF EndsAt, GoesOn
      <4>4. i = n + 1
        BY <1>2, <4>2, <4>3, LoopEnds
      <4> QED
        BY <4>2, <4>4
    <3> QED
      BY <3>2, <3>3
  <2>5. TopicMatches(f, t) <=>
          ~(t[1] \in DollarLevels /\ ContainsWildcards(f)) /\ (Whole \/ Both)
    BY <1>2, <1>6, MatchesByEnd, Zenon
  <2>6. Covers(f, t) <=> ContainsWildcards(f) /\ t[1] \notin DollarLevels /\ Shape
    BY <1>3, <1>6, Zenon DEF Covers
  <2> HIDE DEF Whole, Both, Shape
  <2> QED
    BY <2>1, <2>2, <2>3, <2>4, <2>5, <2>6, Zenon
<1> QED
  BY <1>5, <1>6
-----------------------------------------------------------------------------
(* Sequences. *)

(* What Vec::remove leaves. *)
LEMMA RemoveLeaves ==
  ASSUME NEW S, NEW s \in Seq(S), NEW i \in 1..Len(s)
  PROVE  LET r == VecRemove(s, i) IN
         /\ r \in Seq(S) /\ Len(r) = Len(s) - 1
         /\ \A k \in 1..Len(r) : r[k] = s[IF k < i THEN k ELSE k + 1]
<1> DEFINE a == SubSeq(s, 1, i - 1)
           b == SubSeq(s, i + 1, Len(s))
<1>1. Len(s) \in Nat /\ i \in Nat /\ 1 <= i /\ i <= Len(s)
  OBVIOUS
<1>2. a \in Seq(S) /\ Len(a) = i - 1 /\ \A k \in 1..i - 1 : a[k] = s[k]
  BY <1>1
<1>3. b \in Seq(S) /\ Len(b) = Len(s) - i /\ \A k \in 1..Len(s) - i : b[k] = s[i + k]
  BY <1>1
<1>4. VecRemove(s, i) = a \o b
  BY DEF VecRemove
<1> HIDE DEF a, b
<1>5. a \o b \in Seq(S) /\ Len(a \o b) = Len(s) - 1
  <2>1. a \in Seq(S) /\ b \in Seq(S)
    BY <1>2, <1>3, Zenon
  <2>2. a \o b \in Seq(S) /\ Len(a \o b) = Len(a) + Len(b)
    BY <2>1
  <2>3. Len(a) + Len(b) = Len(s) - 1
    BY <1>1, <1>2, <1>3
  <2> QED
    BY <2>2, <2>3, Zenon
<1>6. ASSUME NEW k \in 1..Len(s) - 1 PROVE (a \o b)[k] = s[IF k < i THEN k ELSE k + 1]
  <2>1. CASE k < i
    <3>1. (a \o b)[k] = a[k] /\ k \in 1..i - 1
      BY <1>1, <1>2, <1>3, <2>1
    <3> QED
      BY <1>2, <2>1, <3>1
  <2>2. CASE ~(k < i)
    <3>1. (a \o b)[k] = b[k - (i - 1)] /\ k - (i - 1) \in 1..Len(s) - i /\ i + (k - (i - 1)) = k + 1
      BY SMTT(40), <1>1, <1>2, <1>3, <2>2
    <3> QED
      BY <1>3, <2>2, <3>1
  <2> QED
    BY Zenon, <2>1, <2>2
<1> QED
  BY <1>4, <1>5, <1>6

(* Every place of what is left is another place than i in the old sequence, *)
(* and different places are different there.                                *)
LEMMA RemovePlaces ==
  ASSUME NEW S, NEW s \in Seq(S), NEW i \in 1..Len(s)
  PROVE  LET r == VecRemove(s, i) IN
         \E old \in [1..Len(r) -> 1..Len(s)] :
           /\ \A k \in 1..Len(r) : r[k] = s[old[k]] /\ old[k] # i
           /\ \A k, l \in 1..Len(r) : old[k] = old[l] => k = l
<1> DEFINE r == VecRemove(s, i)
           old == [k \in 1..Len(r) |-> IF k < i THEN k ELSE k + 1]
<1>1. Len(s) \in Nat /\ Len(r) = Len(s) - 1
  BY RemoveLeaves
<1>2. \A k \in 1..Len(r) : r[k] = s[IF k < i THEN k ELSE k + 1]
  BY RemoveLeaves
<1> HIDE DEF r
<1>3. old \in [1..Len(r) -> 1..Len(s)]
  BY <1>1
<1>4. \A k \in 1..Len(r) : old[k] # i
  BY <1>1
<1>5. \A k, l \in 1..Len(r) : old[k] = old[l] => k = l
  BY <1>1
<1>6. \A k \in 1..Len(r) : r[k] = s[old[k]]
  BY <1>2
<1> HIDE DEF old
<1> QED
  BY <1>3, <1>4, <1>5, <1>6, Zenon DEF r

(* The elements of a sequence. *)
LEMMA Elements ==
  ASSUME NEW S, NEW s \in Seq(S)
  PROVE  DOMAIN s = 1..Len(s) /\ Len(s) \in Nat /\ \A k \in DOMAIN s : s[k] \in S
  OBVIOUS

(* A sequence of given elements. *)
LEMMA FromElements ==
  ASSUME NEW S, NEW n \in Nat, NEW v, v = [k \in 1..n |-> v[k]], \A k \in 1..n : v[k] \in S
  PROVE  v \in Seq(S) /\ Len(v) = n
  OBVIOUS

(* Append. *)
LEMMA AppendPlaces ==
  ASSUME NEW S, NEW s \in Seq(S), NEW e \in S
  PROVE  /\ Append(s, e) \in Seq(S) /\ Len(Append(s, e)) = Len(s) + 1 /\ Len(s) \in Nat
         /\ DOMAIN Append(s, e) = 1..Len(s) + 1 /\ DOMAIN s = 1..Len(s)
         /\ \A k \in 1..Len(s) : Append(s, e)[k] = s[k]
         /\ Append(s, e)[Len(s) + 1] = e
  OBVIOUS

(* Tail. *)
LEMMA TailPlaces ==
  ASSUME NEW S, NEW s \in Seq(S), s # <<>>
  PROVE  /\ Tail(s) \in Seq(S) /\ Len(Tail(s)) = Len(s) - 1 /\ Len(s) \in Nat \ {0}
         /\ DOMAIN Tail(s) = 1..Len(s) - 1 /\ DOMAIN s = 1..Len(s)
         /\ \A k \in 1..Len(s) - 1 : Tail(s)[k] = s[k + 1]
         /\ Head(s) = s[1] /\ Head(s) \in S
  OBVIOUS
-----------------------------------------------------------------------------
(* The last message about a topic. *)

(* The last message about a topic stays the last one when the first frame   *)
(* leaves, unless it is that one.                                           *)
LEMMA LastAfterTail ==
  ASSUME NEW s \in Seq(Frames), s # <<>>, NEW t, NEW p
  PROVE  /\ LastIs(s, t, p) =>
              \/ LastIs(Tail(s), t, p)
              \/ /\ About(Tail(s), t) = {}
                 /\ Head(s).topic = t /\ Head(s).payload = p /\ p # NotRetained
         /\ About(s, t) = {} =>
              /\ About(Tail(s), t) = {}
              /\ Head(s).topic = t => Head(s).payload = NotRetained
<1>1. /\ Len(s) \in Nat \ {0} /\ DOMAIN Tail(s) = 1..Len(s) - 1 /\ DOMAIN s = 1..Len(s)
      /\ Head(s) = s[1]
  BY TailPlaces
<1>2. \A k \in 1..Len(s) - 1 : Tail(s)[k] = s[k + 1]
  BY TailPlaces
<1>3. \A k \in 1..Len(s) - 1 : k \in About(Tail(s), t) <=> k + 1 \in About(s, t)
  BY <1>1, <1>2 DEF About
<1>4. About(Tail(s), t) \subseteq 1..Len(s) - 1 /\ About(s, t) \subseteq 1..Len(s)
  BY <1>1 DEF About
<1>5. ASSUME LastIs(s, t, p)
      PROVE  \/ LastIs(Tail(s), t, p)
             \/ /\ About(Tail(s), t) = {}
                /\ Head(s).topic = t /\ Head(s).payload = p /\ p # NotRetained
  <2>1. PICK i \in About(s, t) : s[i].payload = p /\ \A j \in About(s, t) : j <= i
    BY <1>5, Zenon DEF LastIs
  <2>2. i \in 1..Len(s) /\ s[i].topic = t /\ p # NotRetained
    BY <1>1, <2>1 DEF About
  <2>3. CASE i = 1
    <3>1. ASSUME NEW k \in About(Tail(s), t) PROVE FALSE
      <4>1. k \in 1..Len(s) - 1 /\ k + 1 \in About(s, t)
        BY <1>3, <1>4
      <4>2. k + 1 <= i
        BY <2>1, <4>1
      <4> QED
        BY <1>1, <2>3, <4>1, <4>2
    <3> QED
      BY <1>1, <2>1, <2>2, <2>3, <3>1, Zenon
  <2>4. CASE i # 1
    <3>1. i - 1 \in 1..Len(s) - 1 /\ (i - 1) + 1 = i
      BY <1>1, <2>2, <2>4
    <3>2. i - 1 \in About(Tail(s), t) /\ Tail(s)[i - 1].payload = p
      BY <1>2, <1>3, <2>1, <3>1
    <3>3. ASSUME NEW j \in About(Tail(s), t) PROVE j <= i - 1
      <4>1. j \in 1..Len(s) - 1 /\ j + 1 \in About(s, t)
        BY <1>3, <1>4
      <4>2. j + 1 <= i
        BY <2>1, <4>1
      <4> QED
        BY <1>1, <2>2, <4>1, <4>2
    <3> QED
      BY <3>2, <3>3, Zenon DEF LastIs
  <2> QED
    BY <2>3, <2>4
<1>6. ASSUME About(s, t) = {}
      PROVE  /\ About(Tail(s), t) = {}
             /\ Head(s).topic = t => Head(s).payload = NotRetained
  <2>1. 1 \in DOMAIN s
    BY <1>1
  <2> QED
    BY <1>1, <1>3, <1>4, <1>6, <2>1, Zenon DEF About
<1> QED
  BY <1>5, <1>6

(* A message that is added is the last one about its topic; about others it *)
(* says nothing.                                                            *)
LEMMA LastAfterAppend ==
  ASSUME NEW s \in Seq(Frames), NEW e \in Frames, NEW t, NEW p
  PROVE  /\ e.topic = t /\ e.payload = p /\ p # NotRetained => LastIs(Append(s, e), t, p)
         /\ e.topic # t \/ e.payload = NotRetained =>
              /\ LastIs(s, t, p) => LastIs(Append(s, e), t, p)
              /\ About(s, t) = {} => About(Append(s, e), t) = {}
<1> DEFINE v == Append(s, e)
           n == Len(s)
<1>1. n \in Nat /\ DOMAIN v = 1..n + 1 /\ DOMAIN s = 1..n /\ v[n + 1] = e
  BY AppendPlaces
<1>2. \A k \in 1..n : v[k] = s[k]
  BY AppendPlaces
<1> HIDE DEF v, n
<1>3. About(v, t) \subseteq 1..n + 1 /\ About(s, t) \subseteq 1..n
  BY <1>1 DEF About
<1>4. ASSUME e.topic = t, e.payload = p, p # NotRetained PROVE LastIs(v, t, p)
  <2>1. n + 1 \in About(v, t) /\ v[n + 1].payload = p
    <3>1. n + 1 \in DOMAIN v
      BY <1>1
    <3> QED
      BY <1>1, <1>4, <3>1, Zenon DEF About
  <2>2. \A j \in 1..n + 1 : j <= n + 1
    BY <1>1
  <2> QED
    BY <1>3, <2>1, <2>2, Zenon DEF LastIs
<1>5. ASSUME e.topic # t \/ e.payload = NotRetained PROVE About(v, t) = About(s, t)
  <2>1. n + 1 \notin About(v, t)
    BY <1>1, <1>5, Zenon DEF About
  <2>2. \A k \in 1..n + 1 : k # n + 1 => k \in 1..n
    BY <1>1
  <2>3. \A k \in 1..n : k \in 1..n + 1
    BY <1>1
  <2>4. \A k \in 1..n : k \in About(v, t) <=> k \in About(s, t)
    BY <1>1, <1>2, <2>3, Zenon DEF About
  <2> QED
    BY <1>3, <2>1, <2>2, <2>4, Zenon
<1>6. ASSUME e.topic # t \/ e.payload = NotRetained, LastIs(s, t, p) PROVE LastIs(v, t, p)
  BY <1>2, <1>3, <1>5, <1>6, Zenon DEF LastIs
<1> QED
  BY <1>4, <1>5, <1>6, Zenon DEF v
-----------------------------------------------------------------------------
(* The subscription table. *)

(* A new valid filter keeps the table in order. *)
LEMMA TableGrows ==
  ASSUME NEW table \in Seq(Sub), TableOK(table), NEW req \in Sub, IsValidFilter(req.filter),
         \A i \in DOMAIN table : table[i].filter # req.filter
  PROVE  TableOK(Append(table, req))
<1> DEFINE v == Append(table, req)
           n == Len(table)
<1>1. n \in Nat /\ DOMAIN v = 1..n + 1 /\ DOMAIN table = 1..n /\ v[n + 1] = req
  BY AppendPlaces
<1>2. \A k \in 1..n : v[k] = table[k]
  BY AppendPlaces
<1> HIDE DEF v, n
<1>3. \A k \in 1..n + 1 : k \in 1..n \/ k = n + 1
  BY <1>1
<1> QED
  BY <1>1, <1>2, <1>3, Zenon DEF TableOK, v

WithQoS(table, i, q) == [table EXCEPT ![i].qos = q]

(* v is the table with another QoS at i. *)
OnlyQoS(v, table, i, q) ==
  /\ v \in Seq(Sub) /\ Len(v) = Len(table) /\ DOMAIN v = DOMAIN table
  /\ \A k \in DOMAIN table : v[k].filter = table[k].filter
  /\ v[i].qos = q /\ \A k \in DOMAIN table : k # i => v[k].qos = table[k].qos
  /\ TableOK(v)

(* A new QoS changes one entry, and no filter. *)
LEMMA TableUpdated ==
  ASSUME NEW table \in Seq(Sub), TableOK(table), NEW i \in DOMAIN table, NEW q \in QoS
  PROVE  OnlyQoS(WithQoS(table, i, q), table, i, q)
<1> DEFINE v == [table EXCEPT ![i].qos = q]
<1>1. DOMAIN table = 1..Len(table) /\ Len(table) \in Nat /\ \A k \in DOMAIN table : table[k] \in Sub
  OBVIOUS
<1>2. DOMAIN v = DOMAIN table /\ \A k \in DOMAIN table : k # i => v[k] = table[k]
  OBVIOUS
<1>3. v[i] = [table[i] EXCEPT !.qos = q]
  OBVIOUS
<1>4. v[i] \in Sub /\ v[i].filter = table[i].filter /\ v[i].qos = q
  BY <1>1, <1>3 DEF Sub
<1> HIDE DEF v
<1>5. \A k \in DOMAIN table : v[k] \in Sub /\ v[k].filter = table[k].filter
  BY <1>1, <1>2, <1>4, Zenon
<1>6. v = [k \in 1..Len(table) |-> v[k]]
  <2>1. table = [k \in DOMAIN table |-> table[k]]
    OBVIOUS
  <2>2. v = [k \in DOMAIN v |-> v[k]]
    BY DEF v
  <2> QED
    BY <1>1, <1>2, <2>2, Zenon
<1>7. v \in Seq(Sub) /\ Len(v) = Len(table)
  BY <1>1, <1>2, <1>5, <1>6
<1>8. TableOK(v)
  BY <1>2, <1>5, Zenon DEF TableOK
<1> QED
  BY <1>2, <1>4, <1>5, <1>7, <1>8, Zenon DEF v, WithQoS, OnlyQoS

(* v is a table with entries of the other one, and without filter f. *)
LeavesOut(v, table, f) ==
  /\ v \in Seq(Sub) /\ TableOK(v)
  /\ \A k \in 1..Len(v) : v[k].filter # f /\ \E j \in 1..Len(table) : v[k] = table[j]

(* A removal keeps the table in order, and takes its filter out. *)
LEMMA TableShrinks ==
  ASSUME NEW table \in Seq(Sub), TableOK(table), NEW i \in 1..Len(table)
  PROVE  LeavesOut(VecRemove(table, i), table, table[i].filter)
<1> DEFINE v == VecRemove(table, i)
<1>1. v \in Seq(Sub)
  BY RemoveLeaves
<1>2. PICK old \in [1..Len(v) -> 1..Len(table)] :
           /\ \A k \in 1..Len(v) : v[k] = table[old[k]] /\ old[k] # i
           /\ \A k, l \in 1..Len(v) : old[k] = old[l] => k = l
  BY RemovePlaces
<1> HIDE DEF v
<1>3. DOMAIN v = 1..Len(v) /\ DOMAIN table = 1..Len(table)
  BY <1>1
<1>4. \A k \in 1..Len(v) : old[k] \in DOMAIN table
  BY <1>2, <1>3
<1>5. \A k \in 1..Len(v) : /\ v[k].filter # table[i].filter /\ IsValidFilter(v[k].filter)
                           /\ \E j \in 1..Len(table) : v[k] = table[j]
  BY <1>2, <1>3, <1>4, Zenon DEF TableOK
<1>6. \A k, l \in 1..Len(v) : v[k].filter = v[l].filter => k = l
  <2>1. ASSUME NEW k \in 1..Len(v), NEW l \in 1..Len(v), v[k].filter = v[l].filter PROVE k = l
    <3>1. table[old[k]].filter = table[old[l]].filter
      BY <1>2, <2>1, Zenon
    <3>2. old[k] = old[l]
      BY <1>4, <3>1, Zenon DEF TableOK
    <3> QED
      BY <1>2, <3>2, Zenon
  <2> QED
    BY <2>1, Zenon
<1>7. TableOK(v)
  BY <1>3, <1>5, <1>6, Zenon DEF TableOK
<1> QED
  BY <1>1, <1>5, <1>7, Zenon DEF v, LeavesOut
-----------------------------------------------------------------------------
(* The answer and the table. *)

(* One more answer, when the table agrees with it and goes on agreeing with *)
(* the earlier ones.                                                        *)
LEMMA OneMoreAnswer ==
  ASSUME NEW table, NEW asked \in Seq(Asked), NEW codes \in Seq(Code), Len(codes) = Len(asked),
         NEW req \in Asked, NEW code \in Code,
         \A i \in 1..Len(codes) : AnswerOK(table, Append(asked, req), Append(codes, code), i),
         AnswerOK(table, Append(asked, req), Append(codes, code), Len(codes) + 1)
  PROVE  AnswersOK(table, Append(asked, req), Append(codes, code))
<1>1. /\ Len(Append(asked, req)) = Len(codes) + 1 /\ Len(Append(codes, code)) = Len(codes) + 1
      /\ Len(codes) \in Nat
  BY AppendPlaces
<1>2. \A i \in 1..Len(codes) + 1 : i \in 1..Len(codes) \/ i = Len(codes) + 1
  BY <1>1
<1> QED
  BY <1>1, <1>2, Zenon DEF AnswersOK

(* What one more answer leaves of the earlier ones. *)
LEMMA EarlierAnswer ==
  ASSUME NEW asked \in Seq(Asked), NEW codes \in Seq(Code), Len(codes) = Len(asked),
         NEW req \in Asked, NEW code \in Code
  PROVE  LET a == Append(asked, req)
             c == Append(codes, code)
             n == Len(codes)
         IN /\ n \in Nat /\ Len(a) = n + 1
            /\ \A i \in 1..n : a[i] = asked[i] /\ c[i] = codes[i] /\ i \in 1..n + 1 /\ n + 1 > i
            /\ a[n + 1] = req /\ c[n + 1] = code /\ n + 1 \in 1..n + 1
<1>1. Len(codes) \in Nat
  OBVIOUS
<1>2. \A i \in 1..Len(codes) : i \in 1..Len(codes) + 1 /\ Len(codes) + 1 > i
  BY <1>1
<1>3. Len(codes) + 1 \in 1..Len(codes) + 1
  BY <1>1
<1> QED
  BY <1>1, <1>2, <1>3, AppendPlaces

(* upsert_subscription of a filter in the table. *)
LEMMA AnswersUpdated ==
  ASSUME NEW table \in Seq(Sub), TableOK(table), NEW asked \in Seq(Asked), NEW codes \in Seq(Code),
         AnswersOK(table, asked, codes), NEW req \in Sub, NEW i \in DOMAIN table,
         table[i].filter = req.filter
  PROVE  AnswersOK(WithQoS(table, i, req.qos), Append(asked, req), Append(codes, req.qos))
<1> DEFINE v == WithQoS(table, i, req.qos)
           a == Append(asked, req)
           c == Append(codes, req.qos)
           n == Len(codes)
<1>0. req \in Asked /\ req.qos \in Code /\ req.qos \in QoS /\ req.qos \notin {"failure", "removed"}
  BY DEF Sub, Asked, Code, QoS
<1>1. /\ Len(v) = Len(table) /\ DOMAIN v = DOMAIN table /\ v[i].qos = req.qos
      /\ \A k \in DOMAIN table : v[k].filter = table[k].filter
      /\ \A k \in DOMAIN table : k # i => v[k].qos = table[k].qos
  <2>1. OnlyQoS(WithQoS(table, i, req.qos), table, i, req.qos)
    BY <1>0, TableUpdated, Zenon
  <2> QED
    BY <2>1, Zenon DEF OnlyQoS
<1>2. DOMAIN table = 1..Len(table) /\ Len(codes) = Len(asked)
  BY DEF AnswersOK
<1>3. /\ Len(a) = n + 1 /\ a[n + 1] = req /\ c[n + 1] = req.qos /\ n + 1 \in 1..n + 1
      /\ \A j \in 1..n : a[j] = asked[j] /\ c[j] = codes[j] /\ j \in 1..n + 1 /\ n + 1 > j
  BY <1>0, <1>2, EarlierAnswer
<1>4. \A j \in 1..n : AnswerOK(table, asked, codes, j)
  BY DEF AnswersOK
<1>5. \A j \in 1..Len(asked) : j \in 1..n + 1 /\ a[j] = asked[j]
  BY <1>2, <1>3, Zenon
<1> HIDE DEF v, a, c, n
<1>6. ASSUME NEW j \in 1..n PROVE AnswerOK(v, a, c, j)
  <2>1. AnswerOK(table, asked, codes, j) /\ a[j] = asked[j] /\ c[j] = codes[j]
    BY <1>3, <1>4, Zenon
  <2>2. CASE codes[j] \in {"failure", "removed"}
    BY <1>1, <1>2, <2>1, <2>2, Zenon DEF AnswerOK
  <2>3. CASE codes[j] \notin {"failure", "removed"}
    <3>1. PICK k \in 1..Len(table) :
             /\ table[k].filter = asked[j].filter
             /\ \/ table[k].qos = codes[j]
                \/ \E l \in 1..Len(asked) : l > j /\ asked[l].filter = asked[j].filter
      BY <2>1, <2>3, Zenon DEF AnswerOK
    <3>2. k \in 1..Len(v) /\ v[k].filter = a[j].filter
      BY <1>1, <1>2, <2>1, <3>1, Zenon
    <3>3. v[k].qos = c[j] \/ \E l \in 1..Len(a) : l > j /\ a[l].filter = a[j].filter
      <4>1. CASE k = i
        <5>1. n + 1 \in 1..Len(a) /\ n + 1 > j /\ a[n + 1].filter = a[j].filter
          BY <1>3, <2>1, <3>1, <4>1, Zenon
        <5> QED
          BY <5>1, Zenon
      <4>2. CASE k # i
        BY <1>1, <1>2, <1>3, <1>5, <2>1, <3>1, <4>2, Zenon
      <4> QED
        BY <4>1, <4>2, Zenon
    <3> QED
      BY <2>1, <2>3, <3>2, <3>3, Zenon DEF AnswerOK
  <2> QED
    BY <2>2, <2>3, Zenon
<1>7. AnswerOK(v, a, c, n + 1)
  BY <1>0, <1>1, <1>2, <1>3, Zenon DEF AnswerOK
<1> QED
  BY <1>0, <1>2, <1>6, <1>7, OneMoreAnswer, Zenon DEF a, c, n, v

(* upsert_subscription of a new filter. *)
LEMMA AnswersInserted ==
  ASSUME NEW table \in Seq(Sub), NEW asked \in Seq(Asked), NEW codes \in Seq(Code),
         AnswersOK(table, asked, codes), NEW req \in Sub, IsValidFilter(req.filter),
         \A i \in DOMAIN table : table[i].filter # req.filter, Len(table) < MaxSubs,
         \A i \in 1..Len(codes) : codes[i] # "removed"
  PROVE  AnswersOK(Append(table, req), Append(asked, req), Append(codes, req.qos))
<1> DEFINE v == Append(table, req)
           a == Append(asked, req)
           c == Append(codes, req.qos)
           n == Len(codes)
           m == Len(table)
<1>0. req \in Asked /\ req.qos \in Code /\ req.qos \notin {"failure", "removed"}
  BY DEF Sub, Asked, Code, QoS
<1>1. Len(v) = m + 1 /\ m \in Nat /\ DOMAIN table = 1..m /\ v[m + 1] = req
  BY AppendPlaces
<1>2. \A k \in 1..m : v[k] = table[k]
  BY AppendPlaces
<1>3. Len(codes) = Len(asked)
  BY DEF AnswersOK
<1>4. /\ Len(a) = n + 1 /\ a[n + 1] = req /\ c[n + 1] = req.qos /\ n + 1 \in 1..n + 1
      /\ \A j \in 1..n : a[j] = asked[j] /\ c[j] = codes[j] /\ j \in 1..n + 1 /\ n + 1 > j
  BY <1>0, <1>3, EarlierAnswer
<1>5. \A j \in 1..n : AnswerOK(table, asked, codes, j)
  BY DEF AnswersOK
<1>6. \A j \in 1..Len(asked) : j \in 1..n + 1 /\ a[j] = asked[j]
  BY <1>3, <1>4, Zenon
<1>7. ~(m >= MaxSubs)
  <2>1. MaxSubs \in Nat
    BY SubscriptionConstantsOK, Zenon
  <2> QED
    BY <1>1, <2>1
<1>8. /\ \A k \in 1..m : k \in 1..m + 1
      /\ m + 1 \in 1..m + 1
  BY <1>1
<1> HIDE DEF v, a, c, n, m
<1>9. ASSUME NEW j \in 1..n PROVE AnswerOK(v, a, c, j)
  <2>1. AnswerOK(table, asked, codes, j) /\ a[j] = asked[j] /\ c[j] = codes[j]
    BY <1>4, <1>5, Zenon
  <2>2. CASE codes[j] \in {"failure", "removed"}
    <3>1. codes[j] = "failure"
      BY <2>2 DEF n
    <3>2. /\ \A k \in 1..m : table[k].filter # asked[j].filter
          /\ IsValidFilter(asked[j].filter) => m >= MaxSubs
      BY <2>1, <3>1, Zenon DEF AnswerOK, m
    <3>3. asked[j].filter # req.filter /\ ~IsValidFilter(asked[j].filter)
      BY <1>7, <3>2, Zenon
    <3>4. \A k \in 1..m + 1 : k \in 1..m \/ k = m + 1
      BY <1>1
    <3>5. \A k \in 1..Len(v) : v[k].filter # a[j].filter
      BY <1>1, <1>2, <2>1, <3>2, <3>3, <3>4, Zenon
    <3> QED
      BY <2>1, <2>2, <3>3, <3>5, Zenon DEF AnswerOK
  <2>3. CASE codes[j] \notin {"failure", "removed"}
    <3>1. PICK k \in 1..m :
             /\ table[k].filter = asked[j].filter
             /\ \/ table[k].qos = codes[j]
                \/ \E l \in 1..Len(asked) : l > j /\ asked[l].filter = asked[j].filter
      BY <2>1, <2>3, Zenon DEF AnswerOK, m
    <3>2. k \in 1..Len(v) /\ v[k] = table[k]
      BY <1>1, <1>2, <1>8, Zenon
    <3> QED
      BY <1>4, <1>6, <2>1, <2>3, <3>1, <3>2, Zenon DEF AnswerOK
  <2> QED
    BY <2>2, <2>3, Zenon
<1>10. AnswerOK(v, a, c, n + 1)
  BY <1>0, <1>1, <1>4, <1>8, Zenon DEF AnswerOK
<1> QED
  BY <1>0, <1>3, <1>9, <1>10, OneMoreAnswer, Zenon DEF a, c, n, v

(* A filter that the table does not hold afterwards: refused or removed.    *)
LEMMA AnswersWithout ==
  ASSUME NEW table \in Seq(Sub), NEW v \in Seq(Sub), NEW asked \in Seq(Asked),
         NEW codes \in Seq(Code), AnswersOK(table, asked, codes), NEW req \in Asked,
         NEW code \in {"failure", "removed"},
         \A k \in 1..Len(v) : v[k].filter # req.filter,
         code = "failure" /\ IsValidFilter(req.filter) => Len(v) >= MaxSubs,
         \/ v = table
         \/ /\ \A i \in 1..Len(codes) : codes[i] = "removed"
            /\ \A k \in 1..Len(v) : \E j \in 1..Len(table) : v[k] = table[j]
  PROVE  AnswersOK(v, Append(asked, req), Append(codes, code))
<1> DEFINE a == Append(asked, req)
           c == Append(codes, code)
           n == Len(codes)
<1>0. code \in Code
  BY DEF Code
<1>1. Len(codes) = Len(asked)
  BY DEF AnswersOK
<1>2. /\ Len(a) = n + 1 /\ a[n + 1] = req /\ c[n + 1] = code /\ n + 1 \in 1..n + 1
      /\ \A j \in 1..n : a[j] = asked[j] /\ c[j] = codes[j] /\ j \in 1..n + 1 /\ n + 1 > j
  BY <1>0, <1>1, EarlierAnswer
<1>3. \A j \in 1..n : AnswerOK(table, asked, codes, j)
  BY DEF AnswersOK
<1>4. \A j \in 1..Len(asked) : j \in 1..n + 1 /\ a[j] = asked[j]
  BY <1>1, <1>2, Zenon
<1> HIDE DEF a, c, n
<1>5. ASSUME NEW j \in 1..n PROVE AnswerOK(v, a, c, j)
  <2>1. AnswerOK(table, asked, codes, j) /\ a[j] = asked[j] /\ c[j] = codes[j]
    BY <1>2, <1>3, Zenon
  <2>2. CASE v = table
    <3>1. CASE codes[j] \in {"failure", "removed"}
      BY <2>1, <2>2, <3>1, Zenon DEF AnswerOK
    <3>2. CASE codes[j] \notin {"failure", "removed"}
      <4>1. PICK k \in 1..Len(table) :
               /\ table[k].filter = asked[j].filter
               /\ \/ table[k].qos = codes[j]
                  \/ \E l \in 1..Len(asked) : l > j /\ asked[l].filter = asked[j].filter
        BY <2>1, <3>2, Zenon DEF AnswerOK
      <4>2. \/ v[k].qos = c[j]
            \/ \E l \in 1..Len(a) : l > j /\ a[l].filter = a[j].filter
        BY <1>2, <1>4, <2>1, <2>2, <4>1, Zenon
      <4>3. k \in 1..Len(v) /\ v[k].filter = a[j].filter
        BY <2>1, <2>2, <4>1, Zenon
      <4> QED
        BY <2>1, <3>2, <4>2, <4>3, Zenon DEF AnswerOK
    <3> QED
      BY <3>1, <3>2, Zenon
  <2>3. CASE /\ \A i \in 1..n : codes[i] = "removed"
             /\ \A k \in 1..Len(v) : \E i \in 1..Len(table) : v[k] = table[i]
    <3>1. codes[j] = "removed" /\ "removed" # "failure"
      BY <2>3, Zenon
    <3> QED
      BY <2>1, <2>3, <3>1, Zenon DEF AnswerOK
  <2> QED
    BY <2>2, <2>3, Zenon DEF n
<1>6. AnswerOK(v, a, c, n + 1)
  BY <1>2, Zenon DEF AnswerOK
<1> QED
  BY <1>0, <1>1, <1>5, <1>6, OneMoreAnswer, Zenon DEF a, c, n
-----------------------------------------------------------------------------
(* The retained store. *)

(* new is the store old after RetainedStore::set of p for t. *)
StoreSet(old, new, t, p) ==
  /\ new \in Seq(Entry) /\ StoreOK(new)
  /\ \A i \in DOMAIN new : IF new[i].topic = t THEN new[i].payload = p
                           ELSE \E k \in DOMAIN old : old[k] = new[i]

(* RetainedStore::set of a topic that is there. *)
LEMMA SetReplaces ==
  ASSUME NEW old \in Seq(Entry), StoreOK(old), NEW i \in DOMAIN old, NEW p \in Payloads, p # ""
  PROVE  StoreSet(old, [old EXCEPT ![i].payload = p], old[i].topic, p)
<1> DEFINE v == [old EXCEPT ![i].payload = p]
           t == old[i].topic
<1>1. DOMAIN old = 1..Len(old) /\ Len(old) \in Nat /\ \A k \in DOMAIN old : old[k] \in Entry
  BY Elements, Zenon
<1>2. DOMAIN v = DOMAIN old /\ \A k \in DOMAIN old : k # i => v[k] = old[k]
  BY Zenon
<1>3. v[i] = [old[i] EXCEPT !.payload = p]
  BY Zenon
<1>4. v[i] \in Entry /\ v[i].topic = t /\ v[i].payload = p
  BY Zenon, <1>1, <1>3 DEF Entry
<1> HIDE DEF v, t
<1>6. \A k \in DOMAIN old : v[k] \in Entry /\ v[k].topic = old[k].topic
  BY <1>1, <1>2, <1>4, Zenon DEF t
<1>7. v \in Seq(Entry)
  <2>1. v = [k \in 1..Len(old) |-> v[k]]
    <3>1. v = [k \in DOMAIN v |-> v[k]]
      BY Zenon DEF v
    <3> QED
      BY <1>1, <1>2, <3>1, Zenon
  <2> QED
    BY <1>1, <1>6, <2>1, FromElements, Zenon
<1>8. StoreOK(v)
  BY <1>2, <1>6, Zenon DEF StoreOK
<1>9. ASSUME NEW k \in DOMAIN v
      PROVE  IF v[k].topic = t THEN v[k].payload = p ELSE \E l \in DOMAIN old : old[l] = v[k]
  <2>1. CASE k = i
    BY <1>4, <2>1, Zenon
  <2>2. CASE k # i
    <3>1. k \in DOMAIN old /\ v[k] = old[k]
      BY <1>2, <2>2, Zenon
    <3>2. v[k].topic # t
      BY <2>2, <3>1, Zenon DEF StoreOK, t
    <3> QED
      BY <3>1, <3>2, Zenon
  <2> QED
    BY <2>1, <2>2, Zenon
<1> QED
  BY <1>7, <1>8, <1>9, Zenon DEF StoreSet, v, t

(* RetainedStore::set of nothing, to a topic that is there. *)
LEMMA SetRemoves ==
  ASSUME NEW old \in Seq(Entry), StoreOK(old), NEW i \in DOMAIN old, NEW p
  PROVE  StoreSet(old, VecRemove(old, i), old[i].topic, p)
<1> DEFINE v == VecRemove(old, i)
<1>0. i \in 1..Len(old) /\ DOMAIN old = 1..Len(old)
  OBVIOUS
<1>1. v \in Seq(Entry)
  BY <1>0, RemoveLeaves
<1>2. PICK at \in [1..Len(v) -> 1..Len(old)] :
           /\ \A k \in 1..Len(v) : v[k] = old[at[k]] /\ at[k] # i
           /\ \A k, l \in 1..Len(v) : at[k] = at[l] => k = l
  BY <1>0, RemovePlaces
<1> HIDE DEF v
<1>3. DOMAIN v = 1..Len(v)
  BY <1>1
<1>4. \A k \in 1..Len(v) : at[k] \in DOMAIN old
  BY <1>0, <1>2
<1>5. ASSUME NEW k \in DOMAIN v, NEW l \in DOMAIN v, v[k].topic = v[l].topic PROVE k = l
  <2>1. at[k] = at[l]
    <3>1. old[at[k]].topic = old[at[l]].topic
      BY <1>2, <1>3, <1>5, Zenon
    <3> QED
      BY <1>3, <1>4, <3>1, Zenon DEF StoreOK
  <2> QED
    BY <1>2, <1>3, <2>1, Zenon
<1>6. ASSUME NEW k \in DOMAIN v
      PROVE  v[k].topic # old[i].topic /\ \E l \in DOMAIN old : old[l] = v[k]
  <2>1. at[k] \in DOMAIN old /\ old[at[k]] = v[k] /\ at[k] # i
    BY <1>2, <1>3, <1>4, Zenon
  <2>2. old[at[k]].topic # old[i].topic
    BY <2>1, Zenon DEF StoreOK
  <2> QED
    BY <2>1, <2>2, Zenon
<1> QED
  BY <1>1, <1>5, <1>6, Zenon DEF StoreSet, StoreOK, v

(* RetainedStore::set of a new topic. *)
LEMMA SetAppends ==
  ASSUME NEW old \in Seq(Entry), StoreOK(old), NEW e \in Entry,
         \A i \in DOMAIN old : old[i].topic # e.topic
  PROVE  StoreSet(old, Append(old, e), e.topic, e.payload)
<1> DEFINE v == Append(old, e)
           n == Len(old)
<1>1. v \in Seq(Entry) /\ n \in Nat /\ DOMAIN v = 1..n + 1 /\ DOMAIN old = 1..n /\ v[n + 1] = e
  BY AppendPlaces
<1>2. \A k \in 1..n : v[k] = old[k]
  BY AppendPlaces
<1> HIDE DEF v, n
<1>3. \A k \in 1..n + 1 : k \in 1..n \/ k = n + 1
  BY <1>1
<1>4. StoreOK(v)
  BY <1>1, <1>2, <1>3, Zenon DEF StoreOK
<1>5. ASSUME NEW k \in DOMAIN v
      PROVE  IF v[k].topic = e.topic THEN v[k].payload = e.payload
             ELSE \E l \in DOMAIN old : old[l] = v[k]
  BY <1>1, <1>2, <1>3, Zenon
<1> QED
  BY <1>1, <1>4, <1>5, Zenon DEF StoreSet, v
-----------------------------------------------------------------------------
(* The newest retained value. *)

(* The loop writes the first frame of the outbox: what the client knows of  *)
(* its topic is that, and the last message about any topic is as before.    *)
LEMMA ArrivesAfterFlush ==
  ASSUME NEW out \in Seq(Frames), out # <<>>, NEW known \in [Topics -> Payloads],
         NEW t \in Topics, NEW p, ArrivesIn(out, <<>>, known, t, p), NEW known2,
         known2 = IF Head(out).payload # NotRetained
                  THEN [known EXCEPT ![Head(out).topic] = Head(out).payload] ELSE known
  PROVE  ArrivesIn(Tail(out), <<>>, known2, t, p)
<1> DEFINE h == Head(out)
<1>1. About(<<>>, t) = {}
  BY DEF About
<1>2. /\ LastIs(out, t, p) => LastIs(Tail(out), t, p)
                              \/ (About(Tail(out), t) = {} /\ h.topic = t /\ h.payload = p /\ p # NotRetained)
      /\ About(out, t) = {} => About(Tail(out), t) = {} /\ (h.topic = t => h.payload = NotRetained)
  BY LastAfterTail, Zenon
<1>3. h.topic = t /\ h.payload # NotRetained => known2[t] = h.payload
  OBVIOUS
<1>4. h.topic # t \/ h.payload = NotRetained => known2[t] = known[t]
  OBVIOUS
<1>5. ~LastIs(<<>>, t, p)
  BY <1>1, Zenon DEF LastIs
<1> HIDE DEF h
<1> QED
  BY <1>1, <1>2, <1>3, <1>4, <1>5, Zenon DEF ArrivesIn

(* Entries are sequences of frames too. *)
LEMMA EntriesAreFrames ==
  ASSUME NEW s \in Seq(Entry)
  PROVE  s \in Seq(Frames)
<1>1. Entry \subseteq Frames
  BY Zenon DEF Entry, Frames
<1>2. DOMAIN s = 1..Len(s) /\ \A k \in 1..Len(s) : s[k] \in Frames
  BY <1>1
<1>3. s = [k \in 1..Len(s) |-> s[k]] /\ Len(s) \in Nat
  OBVIOUS
<1> QED
  BY <1>2, <1>3

(* The loop writes the first message of the replay. *)
LEMMA ArrivesAfterReplay ==
  ASSUME NEW out, NEW replay \in Seq(Entry), replay # <<>>,
         NEW known \in [Topics -> Payloads], NEW t \in Topics, NEW p,
         ArrivesIn(out, replay, known, t, p)
  PROVE  ArrivesIn(out, Tail(replay),
                   [known EXCEPT ![Head(replay).topic] = Head(replay).payload], t, p)
<1> DEFINE h == Head(replay)
           known2 == [known EXCEPT ![h.topic] = h.payload]
<1>1. replay \in Seq(Frames)
  BY EntriesAreFrames, Zenon
<1>2. /\ LastIs(replay, t, p) => LastIs(Tail(replay), t, p)
                              \/ (About(Tail(replay), t) = {} /\ h.topic = t /\ h.payload = p /\ p # NotRetained)
      /\ About(replay, t) = {} => About(Tail(replay), t) = {} /\ (h.topic = t => h.payload = NotRetained)
  BY <1>1, LastAfterTail, Zenon
<1>3. h.payload # NotRetained
  <2>1. h \in Entry
    BY TailPlaces
  <2> QED
    BY Zenon, <2>1, SubscriptionConstantsOK DEF Entry
<1>4. h.topic = t => known2[t] = h.payload
  OBVIOUS
<1>5. h.topic # t => known2[t] = known[t]
  OBVIOUS
<1> HIDE DEF known2
<1>6. ArrivesIn(out, Tail(replay), known2, t, p)
  <2> HIDE DEF h
  <2> QED
    BY <1>2, <1>3, <1>4, <1>5, Zenon DEF ArrivesIn
<1> QED
  BY <1>6, Zenon DEF known2

(* A frame about another topic, or one that is not retained, is added. *)
LEMMA ArrivesAfterRoute ==
  ASSUME NEW out \in Seq(Frames), NEW e \in Frames, NEW replay, NEW known, NEW t, NEW p,
         ArrivesIn(out, replay, known, t, p), e.topic # t \/ e.payload = NotRetained
  PROVE  ArrivesIn(Append(out, e), replay, known, t, p)
<1>1. \A q : LastIs(out, t, q) => LastIs(Append(out, e), t, q)
  BY LastAfterAppend, Zenon
<1>2. About(out, t) = {} => About(Append(out, e), t) = {}
  BY LastAfterAppend, Zenon
<1> QED
  BY <1>1, <1>2, Zenon DEF ArrivesIn

(* Route for given values of the variables. *)
Routed(table, t, p, room, out, out2, excused, excused2) ==
  /\ out2 = IF Matched(table, t) /\ room THEN Append(out, [topic |-> t, payload |-> p]) ELSE out
  /\ p = NotRetained \/ ~Matched(table, t) => excused2 = excused
  /\ p # NotRetained /\ Matched(table, t) /\ room => excused2 = excused \ {t}
  /\ p # NotRetained /\ Matched(table, t) /\ ~room => excused2 = excused \cup {t}

(* Retain for given values of the variables. *)
RetainedAs(entries, new, t, p) ==
  IF p = NotRetained THEN new = entries ELSE StoreSet(entries, new, t, p)

(* A publish: what is retained for its topic is the last on its way, or the *)
(* topic is excused; other topics are not concerned.                        *)
LEMMA CurrentAfterPublish ==
  ASSUME NEW entries \in Seq(Entry), NEW new, NEW table, NEW excused, NEW due,
         NEW out \in Seq(Frames), NEW replay, NEW known,
         CurrentIn(entries, table, excused, due, out, replay, known),
         NEW t \in Topics, NEW p \in Payloads \cup {NotRetained}, RetainedAs(entries, new, t, p),
         NEW out2, NEW excused2, NEW room \in BOOLEAN,
         Routed(table, t, p, room, out, out2, excused, excused2)
  PROVE  CurrentIn(new, table, excused2, due, out2, replay, known)
<1> DEFINE e == [topic |-> t, payload |-> p]
<1>1. e \in Frames /\ e.topic = t /\ e.payload = p
  BY DEF Frames
<1> HIDE DEF e
<1>2. SUFFICES ASSUME NEW i \in DOMAIN new, Matched(table, new[i].topic), new[i].topic \notin excused2
               PROVE  \/ ArrivesIn(out2, replay, known, new[i].topic, new[i].payload)
                      \/ OnItsWay(due, new[i].topic, new[i].payload)
  BY Zenon DEF CurrentIn
<1>3. CASE new[i].topic = t /\ p # NotRetained
  <2>1. new[i].payload = p /\ room
    BY <1>2, <1>3, Zenon DEF StoreSet, Routed, RetainedAs
  <2>2. LastIs(Append(out, e), t, p)
    BY <1>1, <1>3, LastAfterAppend, Zenon
  <2>3. out2 = Append(out, e)
    BY <1>2, <1>3, <2>1, Zenon DEF e, Routed
  <2> QED
    BY <1>3, <2>1, <2>2, <2>3, Zenon DEF ArrivesIn
<1>4. CASE new[i].topic # t \/ p = NotRetained
  <2>1. PICK k \in DOMAIN entries : entries[k] = new[i]
    BY <1>4, Zenon DEF StoreSet, RetainedAs
  <2>2. new[i].topic \notin excused
    BY <1>2, <1>4, Zenon DEF Routed
  <2>3. \/ ArrivesIn(out, replay, known, new[i].topic, new[i].payload)
        \/ OnItsWay(due, new[i].topic, new[i].payload)
    BY <1>2, <2>1, <2>2, Zenon DEF CurrentIn
  <2>4. ArrivesIn(out, replay, known, new[i].topic, new[i].payload)
          => ArrivesIn(Append(out, e), replay, known, new[i].topic, new[i].payload)
    BY <1>1, <1>4, ArrivesAfterRoute, Zenon
  <2> QED
    BY <2>3, <2>4, Zenon DEF e, Routed
<1> QED
  BY <1>3, <1>4, Zenon

(* A will is retained and recorded: its value is on its way. *)
LEMMA CurrentAfterRecord ==
  ASSUME NEW entries \in Seq(Entry), NEW new, NEW table, NEW excused, NEW due, NEW due2,
         NEW out, NEW replay, NEW known,
         CurrentIn(entries, table, excused, due, out, replay, known),
         NEW t, NEW p, RetainedAs(entries, new, t, p),
         due \subseteq due2, Matched(table, t) => OnItsWay(due2, t, p)
  PROVE  CurrentIn(new, table, excused, due2, out, replay, known)
<1>1. SUFFICES ASSUME NEW i \in DOMAIN new, Matched(table, new[i].topic), new[i].topic \notin excused
               PROVE  \/ ArrivesIn(out, replay, known, new[i].topic, new[i].payload)
                      \/ OnItsWay(due2, new[i].topic, new[i].payload)
  BY Zenon DEF CurrentIn
<1>2. CASE new[i].topic = t /\ p # NotRetained
  BY <1>1, <1>2, Zenon DEF StoreSet, RetainedAs
<1>3. CASE new[i].topic # t \/ p = NotRetained
  <2>1. PICK k \in DOMAIN entries : entries[k] = new[i]
    BY <1>3, Zenon DEF StoreSet, RetainedAs
  <2>2. \/ ArrivesIn(out, replay, known, new[i].topic, new[i].payload)
        \/ OnItsWay(due, new[i].topic, new[i].payload)
    BY <1>1, <2>1, Zenon DEF CurrentIn
  <2> QED
    BY <2>2, Zenon DEF OnItsWay
<1> QED
  BY <1>2, <1>3, Zenon

(* Newest and PushWill for given values of the variables. *)
NewestIn(entries, t, p) == \A i \in DOMAIN entries : entries[i].topic = t => entries[i].payload = p

WillPushed(entries, table, t, p, sends, out, out2, replay, known, excused, excused2) ==
  /\ out2 = IF sends THEN Append(out, [topic |-> t, payload |-> p]) ELSE out
  /\ p = NotRetained => excused2 = excused
  /\ p # NotRetained /\ sends =>
       IF NewestIn(entries, t, p) /\ Matched(table, t) THEN excused2 = excused \ {t}
       ELSE excused2 = excused \cup {t}
  /\ p # NotRetained /\ ~sends =>
       IF NewestIn(entries, t, p) /\ ~ArrivesIn(out, replay, known, t, p)
       THEN excused2 = excused \cup {t} ELSE excused2 = excused

(* A will is pushed, or is dropped: its value is the last to arrive, or is  *)
(* not the one that is retained, or its topic is excused.                   *)
LEMMA CurrentAfterWill ==
  ASSUME NEW entries \in Seq(Entry), StoreOK(entries), NEW table, NEW excused, NEW due,
         NEW out \in Seq(Frames), NEW replay, NEW known,
         CurrentIn(entries, table, excused, due, out, replay, known),
         NEW k \in due, k.topic \in Topics, k.payload \in Payloads \cup {NotRetained},
         NEW out2, NEW excused2, NEW sends \in BOOLEAN,
         WillPushed(entries, table, k.topic, k.payload, sends, out, out2, replay, known, excused, excused2)
  PROVE  CurrentIn(entries, table, excused2, due \ {k}, out2, replay, known)
<1> DEFINE t == k.topic
           p == k.payload
           e == [topic |-> t, payload |-> p]
<1>1. e \in Frames /\ e.topic = t /\ e.payload = p
  BY DEF Frames
<1>0. t = k.topic /\ p = k.payload
  OBVIOUS
<1>2. WillPushed(entries, table, t, p, sends, out, out2, replay, known, excused, excused2)
  OBVIOUS
<1> HIDE DEF e, t, p
<1>3. SUFFICES ASSUME NEW i \in DOMAIN entries, Matched(table, entries[i].topic),
                      entries[i].topic \notin excused2
               PROVE  \/ ArrivesIn(out2, replay, known, entries[i].topic, entries[i].payload)
                      \/ OnItsWay(due \ {k}, entries[i].topic, entries[i].payload)
  BY Zenon DEF CurrentIn
<1>4. entries[i].payload # NotRetained
  <2>1. entries[i] \in Entry
    BY Elements, Zenon
  <2> QED
    BY <2>1, SubscriptionConstantsOK, Zenon DEF Entry
<1>5. out2 = out \/ out2 = Append(out, e)
  BY <1>2, Zenon DEF WillPushed, e
<1>6. ASSUME entries[i].topic \notin excused, entries[i].topic # t \/ entries[i].payload # p
      PROVE  \/ ArrivesIn(out, replay, known, entries[i].topic, entries[i].payload)
             \/ OnItsWay(due \ {k}, entries[i].topic, entries[i].payload)
  <2>1. \/ ArrivesIn(out, replay, known, entries[i].topic, entries[i].payload)
        \/ OnItsWay(due, entries[i].topic, entries[i].payload)
    BY <1>3, <1>6, Zenon DEF CurrentIn
  <2> QED
    BY <1>0, <1>6, <2>1, Zenon DEF OnItsWay
<1>7. CASE entries[i].topic # t \/ p = NotRetained
  <2>1. entries[i].topic \notin excused
    BY <1>2, <1>3, <1>7, Zenon DEF WillPushed
  <2>2. ArrivesIn(out, replay, known, entries[i].topic, entries[i].payload)
          => ArrivesIn(Append(out, e), replay, known, entries[i].topic, entries[i].payload)
    BY <1>1, <1>7, ArrivesAfterRoute, Zenon
  <2> QED
    BY <1>4, <1>5, <1>6, <1>7, <2>1, <2>2, Zenon
<1>8. CASE entries[i].topic = t /\ p # NotRetained /\ sends
  <2>1. NewestIn(entries, t, p)
    BY <1>2, <1>3, <1>8, Zenon DEF WillPushed
  <2>2. entries[i].payload = p
    BY <1>8, <2>1, Zenon DEF NewestIn
  <2>3. LastIs(Append(out, e), t, p)
    BY <1>1, <1>8, LastAfterAppend, Zenon
  <2>4. out2 = Append(out, e)
    BY <1>2, <1>8, Zenon DEF WillPushed, e
  <2> QED
    BY <1>8, <2>2, <2>3, <2>4, Zenon DEF ArrivesIn
<1>9. CASE entries[i].topic = t /\ p # NotRetained /\ ~sends
  <2>1. out2 = out /\ entries[i].topic \notin excused
    BY <1>2, <1>3, <1>9, Zenon DEF WillPushed
  <2>2. CASE NewestIn(entries, t, p)
    <3>1. entries[i].payload = p
      BY <1>9, <2>2, Zenon DEF NewestIn
    <3>2. ArrivesIn(out, replay, known, t, p)
      BY <1>2, <1>3, <1>9, <2>2, Zenon DEF WillPushed
    <3> QED
      BY <1>9, <2>1, <3>1, <3>2, Zenon
  <2>3. CASE ~NewestIn(entries, t, p)
    <3>1. PICK j \in DOMAIN entries : entries[j].topic = t /\ entries[j].payload # p
      BY <2>3, Zenon DEF NewestIn
    <3>2. j = i
      BY <1>9, <3>1, Zenon DEF StoreOK
    <3> QED
      BY <1>6, <2>1, <3>1, <3>2, Zenon
  <2> QED
    BY <2>2, <2>3, Zenon
<1> QED
  BY <1>7, <1>8, <1>9, Zenon

(* A retained entry is added to the replay: it arrives last of its topic    *)
(* unless the outbox has another, and about other topics nothing changes.   *)
LEMMA ArrivesAfterCollect ==
  ASSUME NEW out, NEW replay \in Seq(Entry), NEW known, NEW e \in Entry
  PROVE  /\ About(out, e.topic) = {} =>
              ArrivesIn(out, Append(replay, e), known, e.topic, e.payload)
         /\ \A t, p : /\ ArrivesIn(out, replay, known, t, p)
                      /\ t # e.topic \/ About(out, t) # {}
                      => ArrivesIn(out, Append(replay, e), known, t, p)
<1>1. e \in Frames /\ e.payload # NotRetained
  BY Zenon, SubscriptionConstantsOK DEF Entry, Frames
<1>2. replay \in Seq(Frames)
  BY EntriesAreFrames, Zenon
<1>3. LastIs(Append(replay, e), e.topic, e.payload)
  BY <1>1, <1>2, LastAfterAppend, Zenon
<1>4. ASSUME NEW t, t # e.topic
      PROVE  /\ \A q : LastIs(replay, t, q) => LastIs(Append(replay, e), t, q)
             /\ About(replay, t) = {} => About(Append(replay, e), t) = {}
  BY <1>1, <1>2, <1>4, LastAfterAppend, Zenon
<1>5. ASSUME NEW t, NEW p, ArrivesIn(out, replay, known, t, p), t # e.topic
      PROVE  ArrivesIn(out, Append(replay, e), known, t, p)
  BY <1>4, <1>5, Zenon DEF ArrivesIn
<1>6. ASSUME NEW t, NEW p, ArrivesIn(out, replay, known, t, p), About(out, t) # {}
      PROVE  ArrivesIn(out, Append(replay, e), known, t, p)
  BY <1>6, Zenon DEF ArrivesIn
<1> QED
  BY <1>3, <1>5, <1>6, Zenon DEF ArrivesIn

(* The next entry, or the first one for the next filter. *)
Advanced(entries, new, new2, at, at2) ==
  IF at = Len(entries) THEN new2 = Tail(new) /\ at2 = 1 ELSE new2 = new /\ at2 = at + 1

(* All that was pending stays pending, but the entry that was compared.     *)
LEMMA PendingAdvances ==
  ASSUME NEW entries \in Seq(Entry), NEW new \in Seq(Levels), new # <<>>,
         NEW at \in 1..Len(entries), NEW i \in 1..Len(entries), Pending(entries, new, at, i),
         i # at \/ ~TopicMatches(Head(new), entries[at].topic),
         NEW new2, NEW at2, Advanced(entries, new, new2, at, at2)
  PROVE  Pending(entries, new2, at2, i)
<1> DEFINE t == entries[i].topic
<1>1. PICK k \in DOMAIN new : TopicMatches(new[k], t) /\ (k = 1 => at <= i)
  BY Zenon DEF Pending
<1>2. /\ Len(new) \in Nat \ {0} /\ DOMAIN Tail(new) = 1..Len(new) - 1 /\ DOMAIN new = 1..Len(new)
      /\ Head(new) = new[1]
  BY TailPlaces
<1>3. \A j \in 1..Len(new) - 1 : Tail(new)[j] = new[j + 1]
  BY TailPlaces
<1>4. Len(entries) \in Nat
  BY Elements, Zenon
<1> HIDE DEF t
<1>5. k = 1 => i # at
  BY <1>1, <1>2, Zenon DEF t
<1>6. CASE at = Len(entries)
  <2>1. k # 1
    BY <1>1, <1>4, <1>5, <1>6
  <2>2. k - 1 \in 1..Len(new) - 1 /\ (k - 1) + 1 = k
    BY <1>2, <2>1
  <2>3. k - 1 \in DOMAIN Tail(new) /\ Tail(new)[k - 1] = new[k]
    BY <1>2, <1>3, <2>2, Zenon
  <2>4. new2 = Tail(new) /\ at2 = 1
    BY <1>6, Zenon DEF Advanced
  <2>5. 1 <= i
    BY <1>4
  <2> QED
    BY <1>1, <2>3, <2>4, <2>5, Zenon DEF Pending, t
<1>7. CASE at # Len(entries)
  <2>1. new2 = new /\ at2 = at + 1
    BY <1>7, Zenon DEF Advanced
  <2>2. k = 1 => at + 1 <= i
    BY <1>1, <1>4, <1>5
  <2> QED
    BY <1>1, <2>1, <2>2, Zenon DEF Pending, t
<1> QED
  BY <1>6, <1>7, Zenon

(* Another table: what it matches and the old one does not is pending. *)
LEMMA CurrentAfterTable ==
  ASSUME NEW entries \in Seq(Entry), NEW table, NEW table2, NEW excused, NEW due, NEW out, NEW replay,
         NEW known, NEW new \in Seq(Levels), NEW add \in Seq(Levels),
         CurrentBut(entries, table, excused, due, out, replay, known, new, 1),
         \A i \in DOMAIN entries :
           Matched(table2, entries[i].topic) /\ entries[i].topic \notin excused =>
             \/ Matched(table, entries[i].topic)
             \/ /\ About(out, entries[i].topic) = {}
                /\ \E k \in DOMAIN add : TopicMatches(add[k], entries[i].topic)
  PROVE  CurrentBut(entries, table2, excused, due, out, replay, known, new \o add, 1)
<1> DEFINE both == new \o add
<1>1. /\ DOMAIN new = 1..Len(new) /\ DOMAIN add = 1..Len(add)
      /\ Len(new) \in Nat /\ Len(add) \in Nat
  BY Elements, Zenon
<1>2. /\ DOMAIN both = 1..Len(new) + Len(add)
      /\ \A k \in 1..Len(new) : both[k] = new[k]
      /\ \A k \in 1..Len(add) : both[Len(new) + k] = add[k]
  BY <1>1
<1>3. /\ \A k \in 1..Len(new) : k \in 1..Len(new) + Len(add)
      /\ \A k \in 1..Len(add) : Len(new) + k \in 1..Len(new) + Len(add)
  BY <1>1
<1>4. \A i \in DOMAIN entries : 1 <= i
  <2>1. DOMAIN entries = 1..Len(entries) /\ Len(entries) \in Nat
    BY Elements, Zenon
  <2> QED
    BY <2>1
<1> HIDE DEF both
<1>5. SUFFICES ASSUME NEW i \in DOMAIN entries, Matched(table2, entries[i].topic),
                      entries[i].topic \notin excused,
                      ~ArrivesIn(out, replay, known, entries[i].topic, entries[i].payload),
                      ~OnItsWay(due, entries[i].topic, entries[i].payload)
               PROVE  About(out, entries[i].topic) = {} /\ Pending(entries, both, 1, i)
  BY Zenon DEF CurrentBut, both
<1>6. CASE Matched(table, entries[i].topic)
  <2>1. About(out, entries[i].topic) = {} /\ Pending(entries, new, 1, i)
    BY <1>5, <1>6, Zenon DEF CurrentBut
  <2>2. PICK k \in DOMAIN new : TopicMatches(new[k], entries[i].topic)
    BY <2>1, Zenon DEF Pending
  <2>3. k \in DOMAIN both /\ TopicMatches(both[k], entries[i].topic)
    BY <1>1, <1>2, <1>3, <2>2, Zenon
  <2> QED
    BY <1>4, <2>1, <2>3, Zenon DEF Pending
<1>7. CASE ~Matched(table, entries[i].topic)
  <2>1. PICK k \in DOMAIN add : TopicMatches(add[k], entries[i].topic)
    BY <1>5, <1>7, Zenon
  <2>2. Len(new) + k \in DOMAIN both /\ TopicMatches(both[Len(new) + k], entries[i].topic)
    BY <1>1, <1>2, <1>3, <2>1, Zenon
  <2> QED
    BY <1>4, <1>5, <1>7, <2>2, Zenon DEF Pending
<1> QED
  BY <1>6, <1>7, Zenon

(* With no new filter nothing is pending. *)
LEMMA NothingPending ==
  ASSUME NEW entries, NEW table, NEW excused, NEW due, NEW out, NEW replay, NEW known, NEW at
  PROVE  CurrentBut(entries, table, excused, due, out, replay, known, <<>>, at)
           <=> CurrentIn(entries, table, excused, due, out, replay, known)
<1>1. \A i : ~Pending(entries, <<>>, at, i)
  <2>1. DOMAIN <<>> = {}
    OBVIOUS
  <2> QED
    BY <2>1, Zenon DEF Pending
<1> QED
  BY <1>1, Zenon DEF CurrentBut, CurrentIn

(* A frame is added for a topic of the table, or one that is excused; and   *)
(* only topics of the table are no longer excused.                          *)
LEMMA QueuedAfterRoute ==
  ASSUME NEW table, NEW out \in Seq(Frames), NEW e \in Frames, NEW tooLate, NEW tooLate2,
         QueuedOK(table, out, tooLate),
         \A t \in tooLate : t \in tooLate2 \/ Matched(table, t),
         e.payload # NotRetained => Matched(table, e.topic) \/ e.topic \in tooLate2
  PROVE  QueuedOK(table, Append(out, e), tooLate2) /\ QueuedOK(table, out, tooLate2)
<1> DEFINE v == Append(out, e)
           n == Len(out)
<1>1. n \in Nat /\ DOMAIN v = 1..n + 1 /\ DOMAIN out = 1..n /\ v[n + 1] = e
  BY AppendPlaces
<1>2. \A k \in 1..n : v[k] = out[k]
  BY AppendPlaces
<1> HIDE DEF v, n
<1>3. \A k \in 1..n + 1 : k \in 1..n \/ k = n + 1
  BY <1>1
<1>4. QueuedOK(table, out, tooLate2)
  BY Zenon DEF QueuedOK
<1> QED
  BY <1>1, <1>2, <1>3, <1>4, Zenon DEF QueuedOK, v
-----------------------------------------------------------------------------
(* The steps. *)

(* The parts of the reply. *)
LEMMA ReplyParts ==
  ASSUME SubsTypeOK
  PROVE  /\ reply.asked \in Seq(Asked) /\ reply.codes \in Seq(Code)
         /\ reply.new \in Seq(Levels) /\ reply.replay \in Seq(Entry)
  BY DEF SubsTypeOK, Reply

(* Retained topics are topics. *)
LEMMA RetainedTopics ==
  ASSUME SubsTypeOK
  PROVE  /\ DOMAIN retained = 1..Len(retained) /\ Len(retained) \in Nat
         /\ \A i \in DOMAIN retained : retained[i] \in Entry /\ retained[i].topic \in Topics
<1>1. \A e \in Entry : e.topic \in Topics
  BY Zenon DEF Entry
<1>2. retained \in Seq(Entry)
  BY DEF SubsTypeOK
<1> QED
  BY <1>1, <1>2, Elements, Zenon

(* A reply without answers. *)
LEMMA ReplyOnly ==
  ASSUME NEW r \in Seq(Entry)
  PROVE  [asked |-> <<>>, codes |-> <<>>, new |-> <<>>, replay |-> r] \in Reply
<1>1. <<>> \in Seq(Asked) /\ <<>> \in Seq(Code) /\ <<>> \in Seq(Levels)
  OBVIOUS
<1> QED
  BY <1>1 DEF Reply

(* No answer agrees with every table. *)
LEMMA NoAnswers ==
  ASSUME NEW table
  PROVE  AnswersOK(table, <<>>, <<>>)
<1>1. Len(<<>>) = 0 /\ \A i \in 1..0 : FALSE
  OBVIOUS
<1> QED
  BY <1>1, Zenon DEF AnswersOK

(* Initially. *)
LEMMA SubsInvInit ==
  ASSUME SubsInit
  PROVE  SubsInv
<1>1. /\ subs = <<>> /\ outbox = <<>> /\ retained = <<>> /\ entry = 1 /\ pc = "wait"
      /\ reply = NoReply /\ view = [t \in Topics |-> ""] /\ missed = {}
      /\ wills = {} /\ late = {}
  BY Zenon DEF SubsInit
<1>2. reply.asked = <<>> /\ reply.codes = <<>> /\ reply.new = <<>> /\ reply.replay = <<>>
  BY Zenon, <1>1 DEF NoReply
<1>3. <<>> \in Seq(Sub) /\ <<>> \in Seq(Frames) /\ <<>> \in Seq(Entry)
  OBVIOUS
<1>4. reply \in Reply
  BY <1>1, <1>3, ReplyOnly, Zenon DEF NoReply
<1>5. view \in [Topics -> Payloads]
  BY Zenon, <1>1, SubscriptionConstantsOK
<1>6. SubsTypeOK
  <2>1. 1 \in Nat \ {0} /\ {} \subseteq Due
    OBVIOUS
  <2> QED
    BY <1>1, <1>3, <1>4, <1>5, <2>1, Zenon DEF SubsTypeOK
<1>7. PhaseOK
  BY <1>1, <1>2, Zenon DEF PhaseOK
<1>8. DOMAIN <<>> = {}
  OBVIOUS
<1>9. /\ TableOK(subs) /\ StoreOK(retained) /\ QueuedOK(subs, outbox, late)
      /\ CurrentBut(retained, subs, missed \cup late, wills, outbox, reply.replay, view, reply.new, entry)
  BY <1>1, <1>8, Zenon DEF TableOK, StoreOK, CurrentBut, QueuedOK
<1>10. AnswersOK(subs, reply.asked, reply.codes)
  BY <1>2, NoAnswers, Zenon
<1> QED
  BY <1>6, <1>7, <1>9, <1>10, Zenon DEF SubsInv

(* A step that changes nothing but pc. *)
LEMMA OnlyPc ==
  ASSUME SubsInv, PhaseOK',
         pc' \in {"flush", "wait", "upsert", "collect", "remove", "reply", "replay"},
         subs' = subs, outbox' = outbox, retained' = retained, reply' = reply, entry' = entry,
         view' = view, missed' = missed, wills' = wills, late' = late,
         pc' \in {"wait", "upsert", "collect"} => QueuedOK(subs, outbox, late)
  PROVE  SubsInv'
<1>1. SubsTypeOK'
  BY DEF SubsInv, SubsTypeOK
<1> QED
  BY <1>1, Zenon DEF SubsInv

(* The signal to flush. *)
LEMMA SubsInvWake ==
  ASSUME SubsInv, Wake
  PROVE  SubsInv'
<1>1. /\ pc = "wait" /\ pc' = "flush" /\ subs' = subs /\ outbox' = outbox /\ retained' = retained
      /\ reply' = reply /\ entry' = entry /\ view' = view /\ missed' = missed /\ wills' = wills /\ late' = late
  BY Zenon DEF Wake, sessionVars, willVars
<1>2. PhaseOK'
  BY <1>1 DEF SubsInv, PhaseOK
<1> QED
  BY <1>1, <1>2, OnlyPc

(* The end of a packet. *)
LEMMA SubsInvLastFilter ==
  ASSUME SubsInv, LastFilter
  PROVE  SubsInv'
<1>1. /\ subs' = subs /\ outbox' = outbox /\ retained' = retained
      /\ reply' = reply /\ entry' = entry /\ view' = view /\ missed' = missed /\ wills' = wills /\ late' = late
  BY Zenon DEF LastFilter, sessionVars, willVars
<1>2. (pc = "upsert" /\ pc' = "collect") \/ (pc = "remove" /\ pc' = "reply")
  BY Zenon DEF LastFilter
<1>3. entry = 1 /\ (pc = "remove" => reply.new = <<>>)
  BY <1>2 DEF SubsInv, PhaseOK
<1>4. PhaseOK'
  BY <1>1, <1>2, <1>3 DEF PhaseOK
<1>5. pc' \in {"wait", "upsert", "collect"} => QueuedOK(subs, outbox, late)
  BY <1>2 DEF SubsInv
<1> QED
  BY <1>1, <1>2, <1>4, <1>5, OnlyPc

(* The SUBACK or UNSUBACK. *)
LEMMA SubsInvWriteAck ==
  ASSUME SubsInv, WriteAck
  PROVE  SubsInv'
<1>1. /\ pc = "reply" /\ pc' = "replay" /\ subs' = subs /\ outbox' = outbox /\ retained' = retained
      /\ entry' = entry /\ view' = view /\ missed' = missed
      /\ reply' = [NoReply EXCEPT !.replay = reply.replay] /\ wills' = wills /\ late' = late
  BY Zenon DEF WriteAck, sessionVars, willVars
<1>2. reply.replay \in Seq(Entry)
  BY ReplyParts, Zenon DEF SubsInv
<1>3. /\ reply' \in Reply /\ reply'.asked = <<>> /\ reply'.codes = <<>>
      /\ reply'.replay = reply.replay /\ reply'.new = <<>>
  <2>1. reply' = [asked |-> <<>>, codes |-> <<>>, new |-> <<>>, replay |-> reply.replay]
    BY <1>1 DEF NoReply
  <2>2. reply' \in Reply
    BY <1>2, <2>1, ReplyOnly, Zenon
  <2> QED
    BY <2>1, <2>2
<1>4. SubsTypeOK'
  BY <1>1, <1>3 DEF SubsInv, SubsTypeOK
<1>5. PhaseOK'
  BY <1>1, <1>3 DEF SubsInv, PhaseOK
<1>6. AnswersOK(subs', reply'.asked, reply'.codes)
  BY <1>3, NoAnswers, Zenon
<1>7. reply.new = <<>>
  BY <1>1 DEF SubsInv, PhaseOK
<1>8. pc' \notin {"wait", "upsert", "collect"}
  BY <1>1
<1> QED
  BY <1>1, <1>3, <1>4, <1>5, <1>6, <1>7, <1>8, Zenon DEF SubsInv

(* The next retained message. *)
LEMMA SubsInvWriteReplay ==
  ASSUME SubsInv, WriteReplay
  PROVE  SubsInv'
<1>1. /\ pc = "replay" /\ subs' = subs /\ outbox' = outbox /\ retained' = retained
      /\ entry' = entry /\ missed' = missed /\ wills' = wills /\ late' = late
  BY Zenon DEF WriteReplay, sessionVars, willVars
<1>2. CASE reply.replay = <<>>
  <2>1. pc' = "flush" /\ reply' = reply /\ view' = view
    BY <1>2, Zenon DEF WriteReplay
  <2>2. PhaseOK'
    BY <1>1, <1>2, <2>1 DEF SubsInv, PhaseOK
  <2>3. pc' \notin {"wait", "upsert", "collect"}
    BY <2>1
  <2> QED
    BY <1>1, <2>1, <2>2, <2>3, OnlyPc
<1>3. CASE reply.replay # <<>>
  <2> DEFINE h == Head(reply.replay)
  <2>1. /\ pc' = pc /\ reply' = [reply EXCEPT !.replay = Tail(@)]
        /\ view' = [view EXCEPT ![h.topic] = h.payload]
    BY <1>3, Zenon DEF WriteReplay
  <2>2. reply.replay \in Seq(Entry) /\ reply \in Reply /\ view \in [Topics -> Payloads]
    BY ReplyParts, Zenon DEF SubsInv, SubsTypeOK
  <2>3. Tail(reply.replay) \in Seq(Entry) /\ h \in Entry
    BY <1>3, <2>2, TailPlaces
  <2>4. h.topic \in Topics /\ h.payload \in Payloads
    BY Zenon, <2>3 DEF Entry
  <2>5. /\ reply' \in Reply /\ reply'.asked = reply.asked /\ reply'.codes = reply.codes
        /\ reply'.replay = Tail(reply.replay) /\ reply'.new = reply.new
    BY Zenon, <2>1, <2>2, <2>3 DEF Reply
  <2>6. view' \in [Topics -> Payloads]
    BY <2>1, <2>2, <2>4
  <2>7. SubsTypeOK'
    BY <1>1, <2>1, <2>5, <2>6 DEF SubsInv, SubsTypeOK
  <2>8. PhaseOK'
    BY <1>1, <2>1, <2>5 DEF SubsInv, PhaseOK
  <2>0. reply.new = <<>> /\ pc' \notin {"wait", "upsert", "collect"}
    BY <1>1, <2>1 DEF SubsInv, PhaseOK
  <2>9. CurrentIn(retained, subs, missed \cup late, wills, outbox, Tail(reply.replay), view')
    <3>1. ASSUME NEW t \in Topics, NEW p, ArrivesIn(outbox, reply.replay, view, t, p)
          PROVE  ArrivesIn(outbox, Tail(reply.replay), view', t, p)
      BY <1>3, <2>1, <2>2, <3>1, ArrivesAfterReplay, Zenon
    <3>2. \A i \in DOMAIN retained : retained[i].topic \in Topics
      BY RetainedTopics, Zenon DEF SubsInv
    <3>3. CurrentIn(retained, subs, missed \cup late, wills, outbox, reply.replay, view)
      BY <2>0, NothingPending, Zenon DEF SubsInv
    <3> QED
      BY <3>1, <3>2, <3>3, Zenon DEF CurrentIn
  <2>10. CurrentBut(retained, subs, missed \cup late, wills, outbox, Tail(reply.replay), view', reply.new, entry)
    BY <2>0, <2>9, NothingPending, Zenon
  <2> QED
    BY <1>1, <2>0, <2>5, <2>7, <2>8, <2>10, Zenon DEF SubsInv
<1> QED
  BY <1>2, <1>3

(* The next frame of the outbox. *)
LEMMA SubsInvFlush ==
  ASSUME SubsInv, Flush
  PROVE  SubsInv'
<1>1. /\ pc = "flush" /\ subs' = subs /\ reply' = reply /\ retained' = retained
      /\ entry' = entry /\ missed' = missed /\ wills' = wills /\ late' = late
  BY Zenon DEF Flush, willVars
<1>2. CASE outbox = <<>>
  <2>1. pc' = "wait" /\ outbox' = outbox /\ view' = view
    BY <1>2, Zenon DEF Flush
  <2>2. PhaseOK'
    BY <1>1, <2>1 DEF SubsInv, PhaseOK
  <2>3. QueuedOK(subs, outbox, late)
    <3>1. DOMAIN <<>> = {}
      OBVIOUS
    <3> QED
      BY <1>2, <3>1, Zenon DEF QueuedOK
  <2> QED
    BY <1>1, <2>1, <2>2, <2>3, OnlyPc
<1>3. CASE outbox # <<>>
  <2> DEFINE h == Head(outbox)
  <2>1. /\ pc' = pc /\ outbox' = Tail(outbox)
        /\ view' = IF h.payload # NotRetained THEN [view EXCEPT ![h.topic] = h.payload] ELSE view
    BY <1>3, Zenon DEF Flush
  <2>2. outbox \in Seq(Frames) /\ view \in [Topics -> Payloads]
    BY Zenon DEF SubsInv, SubsTypeOK
  <2>3. Tail(outbox) \in Seq(Frames) /\ h \in Frames
    BY <1>3, <2>2, TailPlaces
  <2>4. h.topic \in Topics /\ (h.payload # NotRetained => h.payload \in Payloads)
    BY <2>3 DEF Frames
  <2>5. view' \in [Topics -> Payloads]
    <3> HIDE DEF h
    <3> QED
      BY <2>1, <2>2, <2>4
  <2>6. SubsTypeOK'
    BY SMTT(40), <1>1, <2>1, <2>3, <2>5 DEF SubsInv, SubsTypeOK
  <2>7. /\ PhaseOK' /\ reply.replay = <<>> /\ reply.new = <<>>
        /\ pc' \notin {"wait", "upsert", "collect"}
    BY <1>1, <2>1, Zenon DEF SubsInv, PhaseOK
  <2>8. CurrentIn(retained, subs, missed \cup late, wills, Tail(outbox), <<>>, view')
    <3>1. ASSUME NEW t \in Topics, NEW p, ArrivesIn(outbox, <<>>, view, t, p)
          PROVE  ArrivesIn(Tail(outbox), <<>>, view', t, p)
      BY <1>3, <2>1, <2>2, <3>1, ArrivesAfterFlush, Zenon
    <3>2. \A i \in DOMAIN retained : retained[i].topic \in Topics
      BY RetainedTopics, Zenon DEF SubsInv
    <3>3. CurrentIn(retained, subs, missed \cup late, wills, outbox, <<>>, view)
      BY <2>7, NothingPending, Zenon DEF SubsInv
    <3> QED
      BY <3>1, <3>2, <3>3, Zenon DEF CurrentIn
  <2>9. CurrentBut(retained, subs, missed \cup late, wills, Tail(outbox), reply.replay, view', reply.new, entry)
    BY <2>7, <2>8, NothingPending, Zenon
  <2> QED
    BY <1>1, <2>1, <2>6, <2>7, <2>9, Zenon DEF SubsInv
<1> QED
  BY <1>2, <1>3

(* One more filter and code in the reply. *)
LEMMA AnswerGives ==
  ASSUME reply \in Reply, NEW req \in Asked, NEW code \in Code, NEW new \in Seq(Levels),
         Answer(req, code, new)
  PROVE  /\ reply' \in Reply /\ reply'.replay = reply.replay
         /\ reply'.asked = Append(reply.asked, req)
         /\ reply'.codes = Append(reply.codes, code) /\ reply'.new = reply.new \o new
<1>1. reply' = [reply EXCEPT !.asked = Append(@, req), !.codes = Append(@, code), !.new = @ \o new]
  BY Zenon DEF Answer
<1>2. /\ reply.asked \in Seq(Asked) /\ reply.codes \in Seq(Code)
      /\ reply.new \in Seq(Levels) /\ reply.replay \in Seq(Entry)
  BY DEF Reply
<1>3. Append(reply.asked, req) \in Seq(Asked)
  BY <1>2, AppendPlaces, Zenon
<1>4. Append(reply.codes, code) \in Seq(Code)
  BY <1>2, AppendPlaces, Zenon
<1>5. reply.new \o new \in Seq(Levels)
  BY <1>2
<1> QED
  BY Zenon, <1>1, <1>2, <1>3, <1>4, <1>5 DEF Reply

(* A step of the loop over the filters of a packet, given what it does to   *)
(* the table and to the last answer.                                        *)
LEMMA SubsInvFilter ==
  ASSUME SubsInv, NEW req \in Asked, NEW code \in Code, NEW new \in Seq(Levels),
         Answer(req, code, new),
         \/ /\ pc \in {"wait", "upsert"} /\ pc' = "upsert" /\ code # "removed"
            /\ \A t : Matched(subs, t) => Matched(subs', t)
         \/ pc \in {"wait", "remove"} /\ pc' = "remove" /\ code = "removed" /\ new = <<>>,
         outbox' = outbox, retained' = retained, entry' = entry, view' = view,
         subs' \in Seq(Sub), TableOK(subs'),
         AnswersOK(subs', Append(reply.asked, req), Append(reply.codes, code)),
         missed' = missed, wills' = wills, late' = late,
         \A t : Matched(subs', t) =>
           Matched(subs, t) \/ \E k \in DOMAIN new : TopicMatches(new[k], t)
  PROVE  SubsInv'
<1>1. reply \in Reply
  BY Zenon DEF SubsInv, SubsTypeOK
<1>2. /\ reply' \in Reply /\ reply'.replay = reply.replay
      /\ reply'.asked = Append(reply.asked, req)
      /\ reply'.codes = Append(reply.codes, code) /\ reply'.new = reply.new \o new
  BY <1>1, AnswerGives, Zenon
<1>3. SubsTypeOK'
  BY <1>2 DEF SubsInv, SubsTypeOK
<1>4. PhaseOK'
  <2>1. reply.codes \in Seq(Code) /\ PhaseOK
    BY ReplyParts, Zenon DEF SubsInv
  <2>2. reply'.replay = <<>>
    BY <1>2, <2>1, Zenon DEF PhaseOK
  <2>3. entry' = 1
    BY Zenon, <2>1 DEF PhaseOK
  <2>4. CASE pc' = "upsert" /\ code # "removed" /\ pc \in {"wait", "upsert"}
    <3>1. \A i \in 1..Len(reply.codes) : reply.codes[i] # "removed"
      <4>1. \/ reply.codes = <<>>
            \/ \A i \in 1..Len(reply.codes) : reply.codes[i] # "removed"
        BY <2>1, <2>4, Zenon DEF PhaseOK
      <4> QED
        BY <4>1
    <3>2. \A i \in 1..Len(Append(reply.codes, code)) : Append(reply.codes, code)[i] # "removed"
      BY SMTT(40), <2>1, <2>4, <3>1
    <3> QED
      BY Zenon, <1>2, <2>2, <2>3, <2>4, <3>2 DEF PhaseOK
  <2>5. CASE pc' = "remove" /\ code = "removed" /\ pc \in {"wait", "remove"} /\ new = <<>>
    <3>1. \A i \in 1..Len(reply.codes) : reply.codes[i] = "removed"
      <4>1. \/ reply.codes = <<>>
            \/ \A i \in 1..Len(reply.codes) : reply.codes[i] = "removed"
        BY <2>1, <2>5, Zenon DEF PhaseOK
      <4> QED
        BY <4>1
    <3>2. \A i \in 1..Len(Append(reply.codes, code)) : Append(reply.codes, code)[i] = "removed"
      BY <2>1, <2>5, <3>1
    <3>3. reply'.new = <<>>
      <4>1. reply.new = <<>>
        BY <2>1, <2>5 DEF PhaseOK
      <4>2. <<>> \o <<>> = <<>>
        OBVIOUS
      <4> QED
        BY <1>2, <2>5, <4>1, <4>2, Zenon
    <3> QED
      BY Zenon, <1>2, <2>2, <2>3, <2>5, <3>2, <3>3 DEF PhaseOK
  <2> QED
    BY <2>4, <2>5, Zenon
<1>5. entry = 1 /\ retained \in Seq(Entry) /\ reply.new \in Seq(Levels)
  <2>1. entry = 1
    BY Zenon DEF SubsInv, PhaseOK
  <2> QED
    BY <2>1, ReplyParts, Zenon DEF SubsInv, SubsTypeOK
<1>6. CurrentBut(retained, subs', missed \cup late, wills, outbox, reply.replay, view, reply.new \o new, 1)
  <2>1. CurrentBut(retained, subs, missed \cup late, wills, outbox, reply.replay, view, reply.new, 1)
    BY <1>5, Zenon DEF SubsInv
  <2>2. ASSUME NEW i \in DOMAIN retained, Matched(subs', retained[i].topic),
               retained[i].topic \notin missed \cup late, ~Matched(subs, retained[i].topic)
        PROVE  /\ About(outbox, retained[i].topic) = {}
               /\ \E k \in DOMAIN new : TopicMatches(new[k], retained[i].topic)
    <3>1. \E k \in DOMAIN new : TopicMatches(new[k], retained[i].topic)
      BY <2>2, Zenon
    <3>2. DOMAIN <<>> = {}
      OBVIOUS
    <3>3. pc \in {"wait", "upsert"}
      BY <3>1, <3>2, Zenon
    <3>4. QueuedOK(subs, outbox, late)
      BY <3>3 DEF SubsInv
    <3> QED
      BY <2>2, <3>1, <3>4, Zenon DEF QueuedOK, About
  <2> QED
    BY <1>5, <2>1, <2>2, CurrentAfterTable, Zenon
<1>7. pc' \in {"wait", "upsert", "collect"} => QueuedOK(subs', outbox, late)
  <2>1. CASE pc' = "upsert" /\ pc \in {"wait", "upsert"} /\ \A t : Matched(subs, t) => Matched(subs', t)
    <3>1. QueuedOK(subs, outbox, late)
      BY <2>1 DEF SubsInv
    <3> QED
      BY <2>1, <3>1, Zenon DEF QueuedOK
  <2>2. CASE pc' = "remove"
    BY <2>2
  <2> QED
    BY <2>1, <2>2, Zenon
<1> QED
  BY <1>2, <1>3, <1>4, <1>5, <1>6, <1>7, Zenon DEF SubsInv

(* The next filter of a SUBSCRIBE. *)
LEMMA SubsInvUpsert ==
  ASSUME SubsInv, NEW req \in Requests, Upsert(req)
  PROVE  SubsInv'
<1>1. /\ pc \in {"wait", "upsert"} /\ pc' = "upsert"
      /\ outbox' = outbox /\ retained' = retained /\ entry' = entry /\ view' = view
      /\ missed' = missed /\ wills' = wills /\ late' = late
  BY Zenon DEF Upsert, willVars
<1>2. req \in Sub /\ req \in Asked /\ req.qos \in Code /\ req.qos # "removed" /\ req.filter \in Levels
  BY Zenon, SubscriptionConstantsOK DEF Sub, Asked, Code, QoS
<1>3. /\ subs \in Seq(Sub) /\ TableOK(subs) /\ DOMAIN subs = 1..Len(subs)
      /\ reply.asked \in Seq(Asked) /\ reply.codes \in Seq(Code)
      /\ AnswersOK(subs, reply.asked, reply.codes)
  <2>1. subs \in Seq(Sub)
    BY Zenon DEF SubsInv, SubsTypeOK
  <2> QED
    BY <2>1, ReplyParts, Elements, Zenon DEF SubsInv
<1>4. <<>> \in Seq(Levels) /\ <<req.filter>> \in Seq(Levels)
  BY <1>2
<1>5. CASE UpsertExisting(req)
  <2>1. PICK i \in DOMAIN subs :
          /\ FirstAt(i, FilterOf(subs), req.filter) /\ subs' = WithQoS(subs, i, req.qos)
          /\ Answer(req, req.qos, <<>>)
    BY <1>5, Zenon DEF UpsertExisting, WithQoS
  <2>2. subs[i].filter = req.filter
    BY <2>1 DEF FirstAt, FilterOf
  <2>3. AnswersOK(subs', Append(reply.asked, req), Append(reply.codes, req.qos))
    BY <1>2, <1>3, <2>1, <2>2, AnswersUpdated, Zenon
  <2>4. OnlyQoS(subs', subs, i, req.qos)
    <3>1. req.qos \in QoS
      BY <1>2 DEF Sub
    <3> QED
      BY <1>3, <2>1, <3>1, TableUpdated, Zenon
  <2>5. subs' \in Seq(Sub) /\ TableOK(subs') /\ \A t : Matched(subs', t) <=> Matched(subs, t)
    BY <2>4, Zenon DEF OnlyQoS, Matched
  <2> QED
    BY <1>1, <1>2, <1>4, <2>1, <2>3, <2>5, SubsInvFilter, Zenon
<1>6. CASE UpsertNew(req)
  <2>1. /\ IsValidFilter(req.filter) /\ \A i \in DOMAIN subs : subs[i].filter # req.filter
        /\ Len(subs) < MaxSubs /\ subs' = Append(subs, req)
        /\ Answer(req, req.qos, <<req.filter>>)
    BY <1>6, Zenon DEF UpsertNew
  <2>2. \A i \in 1..Len(reply.codes) : reply.codes[i] # "removed"
    <3>1. PhaseOK /\ Len(<<>>) = 0
      BY DEF SubsInv
    <3> QED
      BY <1>1, <3>1 DEF PhaseOK
  <2>3. AnswersOK(subs', Append(reply.asked, req), Append(reply.codes, req.qos))
    BY <1>2, <1>3, <2>1, <2>2, AnswersInserted, Zenon
  <2>4. subs' \in Seq(Sub) /\ TableOK(subs')
    BY <1>2, <1>3, <2>1, TableGrows, AppendPlaces, Zenon
  <2>5. LET v == Append(subs, req) IN
        /\ Len(subs) \in Nat /\ DOMAIN v = 1..Len(subs) + 1 /\ v[Len(subs) + 1] = req
        /\ \A j \in 1..Len(subs) : v[j] = subs[j]
    <3>1. subs \in Seq(Sub) /\ req \in Sub
      BY <1>2, <1>3, Zenon
    <3>2. Len(subs) \in Nat
      BY <3>1
    <3> HIDE DEF SubsInv
    <3> QED
      BY <3>1, <3>2
  <2>6. \A k \in 1..Len(subs) : k \in 1..Len(subs) + 1
    BY <2>5
  <2>7. \A t : Matched(subs, t) => Matched(subs', t)
    BY <1>3, <2>1, <2>5, <2>6, Zenon DEF Matched
  <2>8. ASSUME NEW t, Matched(subs', t)
        PROVE  Matched(subs, t) \/ \E k \in DOMAIN <<req.filter>> : TopicMatches(<<req.filter>>[k], t)
    <3>1. PICK k \in DOMAIN subs' : TopicMatches(subs'[k].filter, t)
      BY <2>8, Zenon DEF Matched
    <3>2. CASE k \in DOMAIN subs
      <4>1. subs'[k] = subs[k]
        BY <1>3, <2>1, <2>5, <3>2, Zenon
      <4> QED
        BY <3>1, <3>2, <4>1, Zenon DEF Matched
    <3>3. CASE k \notin DOMAIN subs
      <4>1. /\ Len(subs) \in Nat /\ DOMAIN subs' = 1..Len(subs) + 1
            /\ subs'[Len(subs) + 1] = req
        BY <2>1, <2>5, Zenon
      <4>2. k = Len(subs) + 1
        BY <1>3, <3>3, <4>1
      <4>3. TopicMatches(req.filter, t)
        BY <3>1, <4>1, <4>2, Zenon
      <4>4. 1 \in DOMAIN <<req.filter>> /\ <<req.filter>>[1] = req.filter
        OBVIOUS
      <4> QED
        BY <4>3, <4>4, Zenon
    <3> QED
      BY <3>2, <3>3, Zenon
  <2> QED
    BY <1>1, <1>2, <1>4, <2>1, <2>3, <2>4, <2>7, <2>8, SubsInvFilter, Zenon
<1>7. CASE UpsertRefused(req)
  <2>1. /\ \/ ~IsValidFilter(req.filter)
           \/ (\A i \in DOMAIN subs : subs[i].filter # req.filter) /\ Len(subs) >= MaxSubs
        /\ Answer(req, "failure", <<>>) /\ subs' = subs
    BY <1>7, Zenon DEF UpsertRefused
  <2>2. \A k \in 1..Len(subs) : subs[k].filter # req.filter
    BY <1>3, <2>1, Zenon DEF TableOK
  <2>3. "failure" \in Code /\ "failure" \in {"failure", "removed"} /\ "failure" # "removed"
    BY DEF Code
  <2>4. IsValidFilter(req.filter) => Len(subs) >= MaxSubs
    BY <2>1, Zenon
  <2>5. AnswersOK(subs, Append(reply.asked, req), Append(reply.codes, "failure"))
    BY <1>2, <1>3, <2>2, <2>3, <2>4, AnswersWithout, Zenon
  <2> QED
    BY <1>1, <1>2, <1>3, <1>4, <2>1, <2>3, <2>5, SubsInvFilter, Zenon
<1> QED
  BY <1>5, <1>6, <1>7, Zenon DEF Upsert

(* The next filter of an UNSUBSCRIBE. *)
LEMMA SubsInvUnsubscribe ==
  ASSUME SubsInv, NEW f \in Filters, Unsubscribe(f)
  PROVE  SubsInv'
<1> DEFINE req == [filter |-> f, qos |-> "none"]
<1>1. /\ pc \in {"wait", "remove"} /\ pc' = "remove" /\ Answer(req, "removed", <<>>)
      /\ outbox' = outbox /\ retained' = retained /\ entry' = entry /\ view' = view
      /\ missed' = missed /\ wills' = wills /\ late' = late
  BY Zenon DEF Unsubscribe, willVars
<1>2. req \in Asked /\ req.filter = f /\ "removed" \in Code
  BY Zenon, SubscriptionConstantsOK DEF Filters, Asked, Code
<1> HIDE DEF req
<1>3. /\ subs \in Seq(Sub) /\ TableOK(subs) /\ DOMAIN subs = 1..Len(subs)
      /\ reply.asked \in Seq(Asked) /\ reply.codes \in Seq(Code)
      /\ AnswersOK(subs, reply.asked, reply.codes)
  <2>1. subs \in Seq(Sub)
    BY Zenon DEF SubsInv, SubsTypeOK
  <2> QED
    BY <2>1, ReplyParts, Elements, Zenon DEF SubsInv
<1>4. <<>> \in Seq(Levels)
  OBVIOUS
<1>5. /\ subs' \in Seq(Sub) /\ TableOK(subs')
      /\ \A k \in 1..Len(subs') : subs'[k].filter # f
      /\ \A k \in 1..Len(subs') : \E j \in 1..Len(subs) : subs'[k] = subs[j]
  <2>1. CASE \E i \in DOMAIN subs : FirstAt(i, FilterOf(subs), f) /\ subs' = VecRemove(subs, i)
    <3>1. PICK i \in DOMAIN subs : FirstAt(i, FilterOf(subs), f) /\ subs' = VecRemove(subs, i)
      BY <2>1
    <3>2. subs[i].filter = f
      BY <3>1 DEF FirstAt, FilterOf
    <3>3. LeavesOut(subs', subs, f)
      BY <1>3, <3>1, <3>2, TableShrinks, Zenon
    <3> QED
      BY <3>3, Zenon DEF LeavesOut
  <2>2. CASE (\A i \in DOMAIN subs : subs[i].filter # f) /\ subs' = subs
    BY <1>3, <2>2, Zenon
  <2> QED
    BY <2>1, <2>2, Zenon DEF Unsubscribe
<1>6. \A i \in 1..Len(reply.codes) : reply.codes[i] = "removed"
  <2>1. PhaseOK /\ Len(<<>>) = 0
    BY DEF SubsInv
  <2> QED
    BY <1>1, <2>1 DEF PhaseOK
<1>7. AnswersOK(subs', Append(reply.asked, req), Append(reply.codes, "removed"))
  <2>1. "removed" # "failure" /\ "removed" \in {"failure", "removed"}
    OBVIOUS
  <2> QED
    BY <1>2, <1>3, <1>5, <1>6, <2>1, AnswersWithout, Zenon
<1>8. \A t : Matched(subs', t) => Matched(subs, t)
  <2>1. DOMAIN subs' = 1..Len(subs')
    BY <1>5, Elements, Zenon
  <2> QED
    BY <1>3, <1>5, <2>1, Zenon DEF Matched
<1> QED
  BY <1>1, <1>2, <1>4, <1>5, <1>7, <1>8, SubsInvFilter, Zenon

(* The next retained entry for the next new filter. *)
LEMMA SubsInvCollect ==
  ASSUME SubsInv, Collect
  PROVE  SubsInv'
<1>1. /\ pc = "collect" /\ subs' = subs /\ outbox' = outbox /\ retained' = retained /\ view' = view
      /\ wills' = wills /\ late' = late
  BY Zenon DEF Collect, sessionVars, willVars
<1>2. reply \in Reply /\ reply.replay \in Seq(Entry) /\ reply.new \in Seq(Levels) /\ PhaseOK
  BY ReplyParts, Zenon DEF SubsInv, SubsTypeOK
<1>3. /\ retained \in Seq(Entry) /\ DOMAIN retained = 1..Len(retained) /\ Len(retained) \in Nat
      /\ \A i \in DOMAIN retained : retained[i] \in Entry
      /\ entry \in Nat \ {0}
  BY RetainedTopics, Zenon DEF SubsInv, SubsTypeOK
<1>4. /\ CurrentBut(retained, subs, missed \cup late, wills, outbox, reply.replay, view, reply.new, entry)
      /\ StoreOK(retained) /\ QueuedOK(subs, outbox, late)
  BY <1>1 DEF SubsInv
<1>5. CASE reply.new = <<>> \/ retained = <<>>
  <2>1. /\ pc' = "reply" /\ reply' = [reply EXCEPT !.new = <<>>] /\ entry' = entry
        /\ missed' = missed
    BY <1>5, Zenon DEF Collect
  <2>2. <<>> \in Seq(Levels) /\ Len(<<>>) = 0
    OBVIOUS
  <2>3. /\ reply' \in Reply /\ reply'.asked = reply.asked /\ reply'.codes = reply.codes
        /\ reply'.replay = reply.replay /\ reply'.new = <<>>
    BY Zenon, <1>2, <2>1, <2>2 DEF Reply
  <2>4. entry = 1
    BY <1>2, <1>3, <1>5, <2>2 DEF PhaseOK
  <2>5. SubsTypeOK'
    BY <1>1, <2>1, <2>3 DEF SubsInv, SubsTypeOK
  <2>6. PhaseOK' /\ pc' \notin {"wait", "upsert", "collect"}
    BY <2>1, <2>3, <2>4 DEF PhaseOK
  <2>7. CurrentBut(retained, subs, missed \cup late, wills, outbox, reply.replay, view, <<>>, entry)
    <3>1. CASE reply.new = <<>>
      BY <1>4, <3>1, Zenon
    <3>2. CASE retained = <<>>
      <4>1. DOMAIN <<>> = {}
        OBVIOUS
      <4> QED
        BY <3>2, <4>1, Zenon DEF CurrentBut
    <3> QED
      BY <1>5, <3>1, <3>2, Zenon
  <2> QED
    BY <1>1, <2>1, <2>3, <2>5, <2>6, <2>7, Zenon DEF SubsInv
<1>6. CASE ~(reply.new = <<>> \/ retained = <<>>)
  <2> DEFINE e == retained[entry]
             last == entry = Len(retained)
             matches == TopicMatches(Head(reply.new), e.topic)
             fits == Len(reply.replay) < MaxRetained
             replay2 == IF matches /\ fits THEN Append(reply.replay, e) ELSE reply.replay
             new2 == IF last THEN Tail(reply.new) ELSE reply.new
  <2>1. /\ pc' = pc /\ entry' = IF last THEN 1 ELSE entry + 1
        /\ reply' = [reply EXCEPT !.new = new2, !.replay = replay2]
        /\ IF matches THEN Deliver(e, fits) ELSE missed' = missed
    BY <1>6, Zenon DEF Collect
  <2>2. entry \in 1..Len(retained)
    <3>1. Len(retained) # 0
      BY <1>3, <1>6
    <3> QED
      BY <1>2, <1>3, <3>1 DEF PhaseOK
  <2>3. e \in Entry /\ entry \in DOMAIN retained
    BY <1>3, <2>2, Zenon
  <2>4. replay2 \in Seq(Entry)
    <3> HIDE DEF e, fits, matches
    <3> QED
      BY <1>2, <2>3, AppendPlaces, Zenon
  <2>5. new2 \in Seq(Levels)
    <3>1. Tail(reply.new) \in Seq(Levels)
      BY <1>2, <1>6, TailPlaces
    <3> QED
      BY <1>2, <3>1, Zenon
  <2> HIDE DEF e, fits, matches, replay2, new2, last
  <2>6. /\ reply' \in Reply /\ reply'.asked = reply.asked /\ reply'.codes = reply.codes
        /\ reply'.replay = replay2 /\ reply'.new = new2
    BY Zenon, <1>2, <2>1, <2>4, <2>5 DEF Reply
  <2>7. entry' \in Nat \ {0}
    BY <1>3, <2>1
  <2>8. SubsTypeOK'
    BY <1>1, <2>1, <2>6, <2>7 DEF SubsInv, SubsTypeOK
  <2>9. PhaseOK'
    <3>1. CASE last
      <4>1. entry' = 1
        BY <2>1, <3>1, Zenon
      <4> QED
        BY <1>1, <2>1, <4>1 DEF PhaseOK
    <3>2. CASE ~last
      <4>1. entry' <= Len(retained')
        BY <1>1, <1>3, <2>1, <2>2, <3>2 DEF last
      <4>2. reply'.new # <<>>
        BY <1>6, <2>6, <3>2, Zenon DEF new2
      <4> QED
        BY <1>1, <2>1, <4>1, <4>2 DEF PhaseOK
    <3> QED
      BY <3>1, <3>2, Zenon
  <2>10. Advanced(retained, reply.new, new2, entry, entry')
    BY <2>1, Zenon DEF Advanced, new2, last
  <2>11. /\ matches /\ fits /\ About(outbox, e.topic) = {} => missed' = missed \ {e.topic}
         /\ ~matches \/ (fits /\ About(outbox, e.topic) # {}) => missed' = missed
         /\ ~fits /\ matches => missed' = missed \/ missed' = missed \cup {e.topic}
         /\ ~fits /\ matches /\ ~Arrives(e.topic, e.payload) => e.topic \in missed'
    BY <2>1, Zenon DEF Deliver
  <2>12. \A t, p : Arrives(t, p) <=> ArrivesIn(outbox, reply.replay, view, t, p)
    BY Zenon DEF Arrives, ArrivesIn
  <2>13. /\ About(outbox, e.topic) = {} =>
              ArrivesIn(outbox, Append(reply.replay, e), view, e.topic, e.payload)
         /\ \A t, p : /\ ArrivesIn(outbox, reply.replay, view, t, p)
                      /\ t # e.topic \/ About(outbox, t) # {}
                      => ArrivesIn(outbox, Append(reply.replay, e), view, t, p)
    BY <1>2, <2>3, ArrivesAfterCollect, Zenon
  <2>14. ASSUME NEW i \in DOMAIN retained, Matched(subs, retained[i].topic),
                retained[i].topic \notin missed' \cup late
         PROVE  \/ ArrivesIn(outbox, replay2, view, retained[i].topic, retained[i].payload)
                \/ OnItsWay(wills, retained[i].topic, retained[i].payload)
                \/ About(outbox, retained[i].topic) = {} /\ Pending(retained, new2, entry', i)
    <3> DEFINE t == retained[i].topic
               p == retained[i].payload
    <3>1. retained[i].topic \notin missed =>
             \/ ArrivesIn(outbox, reply.replay, view, t, p)
             \/ OnItsWay(wills, t, p)
             \/ About(outbox, t) = {} /\ Pending(retained, reply.new, entry, i)
      BY <1>4, <2>14, Zenon DEF CurrentBut
    <3>2. ASSUME Pending(retained, reply.new, entry, i), i # entry \/ ~matches
          PROVE  Pending(retained, new2, entry', i)
      BY <1>2, <1>3, <1>6, <2>2, <2>10, <3>2, PendingAdvances, Zenon DEF matches, e
    <3>3. i # entry => t # e.topic
      BY <1>4, <2>3, Zenon DEF StoreOK, e
    <3>4. i = entry => t = e.topic /\ p = e.payload
      BY Zenon DEF e
    <3> HIDE DEF t, p
    <3>5. t \notin missed'
      BY <2>14, Zenon DEF t
    <3>9. CASE OnItsWay(wills, t, p)
      BY <3>9, Zenon DEF t, p
    <3>6. CASE i = entry /\ matches /\ fits
      <4>1. CASE About(outbox, t) = {}
        BY <2>13, <3>4, <3>6, <4>1, Zenon DEF replay2, t, p
      <4>2. CASE About(outbox, t) # {}
        <5>1. t \notin missed
          BY <2>11, <3>4, <3>5, <3>6, <4>2, Zenon
        <5>2. ArrivesIn(outbox, reply.replay, view, t, p) \/ OnItsWay(wills, t, p)
          BY <3>1, <4>2, <5>1, Zenon DEF t
        <5> QED
          BY <2>13, <3>6, <3>9, <4>2, <5>2, Zenon DEF replay2, t, p
      <4> QED
        BY <4>1, <4>2, Zenon
    <3>7. CASE i = entry /\ matches /\ ~fits
      BY <2>11, <2>12, <3>4, <3>5, <3>7, Zenon DEF replay2, t, p
    <3>8. CASE i # entry \/ ~matches
      <4>1. t \notin missed
        BY <2>11, <3>3, <3>5, <3>8, Zenon
      <4>2. CASE ArrivesIn(outbox, reply.replay, view, t, p)
        <5>1. ArrivesIn(outbox, replay2, view, t, p)
          BY <2>13, <3>3, <3>8, <4>2, Zenon DEF replay2
        <5> QED
          BY <5>1, Zenon DEF t, p
      <4>3. CASE About(outbox, t) = {} /\ Pending(retained, reply.new, entry, i)
        BY <3>2, <3>8, <4>3, Zenon DEF t
      <4> QED
        BY <3>1, <3>9, <4>1, <4>2, <4>3, Zenon DEF t
    <3> QED
      BY <3>6, <3>7, <3>8, Zenon
  <2>15. CurrentBut(retained, subs, missed' \cup late, wills, outbox, replay2, view, new2, entry')
    BY <2>14, Zenon DEF CurrentBut
  <2> QED
    BY <1>1, <1>4, <2>6, <2>8, <2>9, <2>15, Zenon DEF SubsInv
<1> QED
  BY <1>5, <1>6, Zenon

(* RetainedStore::set keeps the store in order. *)
LEMMA SetKeepsStore ==
  ASSUME SubsInv, NEW t \in Topics, NEW p \in Payloads, SetEntry(t, p) \/ NewEntry(t, p)
  PROVE  StoreSet(retained, retained', t, p)
<1>1. /\ retained \in Seq(Entry) /\ StoreOK(retained) /\ DOMAIN retained = 1..Len(retained)
  BY RetainedTopics, Zenon DEF SubsInv, SubsTypeOK
<1>2. CASE SetEntry(t, p)
  <2>1. PICK i \in DOMAIN retained :
          /\ FirstAt(i, TopicOf(retained), t)
          /\ retained' = IF p = "" THEN VecRemove(retained, i)
                         ELSE [retained EXCEPT ![i].payload = p]
    BY <1>2, Zenon DEF SetEntry
  <2>2. retained[i].topic = t
    BY Zenon, <2>1 DEF FirstAt, TopicOf
  <2>3. CASE p = ""
    BY <1>1, <2>1, <2>2, <2>3, SetRemoves, Zenon
  <2>4. CASE p # ""
    BY <1>1, <2>1, <2>2, <2>4, SetReplaces, Zenon
  <2> QED
    BY <2>3, <2>4, Zenon
<1>3. CASE NewEntry(t, p)
  <2>1. \A i \in DOMAIN retained : retained[i].topic # t
    BY <1>3, Zenon DEF NewEntry
  <2>2. CASE p = "" /\ retained' = retained
    BY <1>1, <2>1, <2>2, Zenon DEF StoreSet
  <2>3. CASE p # "" /\ retained' = Append(retained, [topic |-> t, payload |-> p])
    <3> DEFINE e == [topic |-> t, payload |-> p]
    <3>1. e \in Entry /\ e.topic = t /\ e.payload = p
      BY Zenon, <2>3 DEF Entry
    <3> HIDE DEF e
    <3>2. StoreSet(retained, Append(retained, e), t, p)
      BY <1>1, <2>1, <3>1, SetAppends, Zenon
    <3> QED
      BY <2>3, <3>2, Zenon DEF e
  <2> QED
    BY <1>3, <2>2, <2>3, Zenon DEF NewEntry
<1> QED
  BY <1>2, <1>3

(* Retain does what RetainedStore::set does, if anything. *)
LEMMA RetainKeepsStore ==
  ASSUME SubsInv, NEW m \in Frames, Retain(m.topic, m.payload)
  PROVE  /\ RetainedAs(retained, retained', m.topic, m.payload)
         /\ retained' \in Seq(Entry) /\ StoreOK(retained')
<1>1. m.topic \in Topics /\ m.payload \in Payloads \cup {NotRetained}
  BY DEF Frames
<1>2. CASE m.payload = NotRetained
  <2>1. retained' = retained
    BY <1>2, Zenon DEF Retain
  <2> QED
    BY <1>2, <2>1, Zenon DEF RetainedAs, SubsInv, SubsTypeOK
<1>3. CASE m.payload # NotRetained
  <2>1. m.payload \in Payloads /\ (SetEntry(m.topic, m.payload) \/ NewEntry(m.topic, m.payload))
    BY <1>1, <1>3, Zenon DEF Retain
  <2>2. StoreSet(retained, retained', m.topic, m.payload)
    BY <1>1, <2>1, SetKeepsStore, Zenon
  <2> QED
    BY <1>3, <2>2, Zenon DEF RetainedAs, StoreSet
<1> QED
  BY <1>2, <1>3, Zenon

(* What changes at most when others publish; the session is not preparing a *)
(* SUBSCRIBE then.                                                          *)
LEMMA SubsInvByOthers ==
  ASSUME SubsInv, ~Locked, pc' = pc, subs' = subs, reply' = reply, entry' = entry, view' = view,
         outbox' \in Seq(Frames), retained' \in Seq(Entry), StoreOK(retained'), wills' \subseteq Due,
         CurrentIn(retained, subs, missed \cup late, wills, outbox, reply.replay, view) =>
           CurrentIn(retained', subs, missed' \cup late', wills', outbox', reply.replay, view),
         QueuedOK(subs, outbox, late) => QueuedOK(subs, outbox', late')
  PROVE  SubsInv'
<1>1. SubsTypeOK'
  BY Zenon DEF SubsInv, SubsTypeOK
<1>2. PhaseOK'
  <2>1. pc # "collect" /\ PhaseOK
    BY SMTT(40) DEF Locked, SubsInv
  <2> QED
    BY Zenon, <2>1 DEF PhaseOK
<1>3. reply.new = <<>>
  BY Zenon DEF Locked, SubsInv, PhaseOK
<1>4. CurrentIn(retained, subs, missed \cup late, wills, outbox, reply.replay, view)
  BY <1>3, NothingPending, Zenon DEF SubsInv
<1>5. CurrentBut(retained', subs, missed' \cup late', wills', outbox', reply.replay, view, reply.new, entry)
  BY <1>3, <1>4, NothingPending, Zenon
<1> QED
  BY <1>1, <1>2, <1>5, Zenon DEF SubsInv

(* A publish. *)
LEMMA SubsInvPublish ==
  ASSUME SubsInv, NEW m \in Frames, NEW fits \in BOOLEAN, Publish(m, fits)
  PROVE  SubsInv'
<1> DEFINE t == m.topic
           p == m.payload
           room == fits /\ Len(outbox) < Depth
           e == [topic |-> t, payload |-> p]
<1>1. /\ ~Locked /\ Route(m, fits) /\ Retain(t, p) /\ wills' = wills
      /\ pc' = pc /\ subs' = subs /\ reply' = reply /\ entry' = entry /\ view' = view
  BY Zenon DEF Publish
<1>2. RetainedAs(retained, retained', t, p) /\ retained' \in Seq(Entry) /\ StoreOK(retained')
  BY <1>1, RetainKeepsStore, Zenon
<1>3. Subscribed(t) <=> Matched(subs, t)
  BY Zenon DEF Subscribed, Matched
<1>0. t \in Topics /\ p \in Payloads \cup {NotRetained} /\ e \in Frames /\ e.topic = t /\ e.payload = p
  BY DEF Frames
<1>4. /\ outbox' = IF Matched(subs, t) /\ room THEN Append(outbox, e) ELSE outbox
      /\ p = NotRetained \/ ~Matched(subs, t) => missed' = missed /\ late' = late
      /\ p # NotRetained /\ Matched(subs, t) /\ room => missed' = missed \ {t} /\ late' = late \ {t}
      /\ p # NotRetained /\ Matched(subs, t) /\ ~room => missed' = missed \cup {t} /\ late' = late
  BY <1>1, <1>3, Zenon DEF Route, Push, Sent, NotSent
<1>5. outbox \in Seq(Frames) /\ retained \in Seq(Entry) /\ wills \subseteq Due /\ room \in BOOLEAN
  BY Zenon DEF SubsInv, SubsTypeOK
<1> HIDE DEF room, e, t, p
<1>6. outbox' \in Seq(Frames)
  BY <1>0, <1>4, <1>5, AppendPlaces, Zenon
<1>7. Routed(subs, t, p, room, outbox, outbox', missed \cup late, missed' \cup late')
  <2>1. (missed \ {t}) \cup (late \ {t}) = (missed \cup late) \ {t}
    OBVIOUS
  <2>2. (missed \cup {t}) \cup late = (missed \cup late) \cup {t}
    OBVIOUS
  <2> QED
    BY <1>4, <2>1, <2>2, Zenon DEF Routed, e
<1>8. CurrentIn(retained, subs, missed \cup late, wills, outbox, reply.replay, view) =>
        CurrentIn(retained', subs, missed' \cup late', wills', outbox', reply.replay, view)
  <2>1. ASSUME CurrentIn(retained, subs, missed \cup late, wills, outbox, reply.replay, view)
        PROVE  CurrentIn(retained', subs, missed' \cup late', wills, outbox', reply.replay, view)
    BY <1>0, <1>2, <1>5, <1>7, <2>1, CurrentAfterPublish
  <2> QED
    BY <1>1, <2>1, Zenon
<1>9. QueuedOK(subs, outbox, late) => QueuedOK(subs, outbox', late')
  <2>1. \A u \in late : u \in late' \/ Matched(subs, u)
    BY <1>4, Zenon
  <2>2. CASE Matched(subs, t) /\ room
    BY <1>0, <1>4, <1>5, <2>1, <2>2, QueuedAfterRoute, Zenon
  <2>3. CASE ~(Matched(subs, t) /\ room)
    BY <1>4, <2>1, <2>3, Zenon DEF QueuedOK
  <2> QED
    BY <2>2, <2>3, Zenon
<1> QED
  BY <1>1, <1>2, <1>5, <1>6, <1>8, <1>9, SubsInvByOthers, Zenon

(* A will is retained and recorded. *)
LEMMA SubsInvRecordWill ==
  ASSUME SubsInv, NEW d \in Dying, NEW m \in Frames, RecordWill(d, m)
  PROVE  SubsInv'
<1> DEFINE t == m.topic
           p == m.payload
           k == [by |-> d, topic |-> t, payload |-> p]
<1>1. /\ ~Locked /\ Retain(t, p) /\ wills' = IF Subscribed(t) THEN wills \cup {k} ELSE wills
      /\ pc' = pc /\ subs' = subs /\ reply' = reply /\ entry' = entry /\ view' = view
      /\ outbox' = outbox /\ missed' = missed /\ late' = late
  BY Zenon DEF RecordWill, sessionVars
<1>2. RetainedAs(retained, retained', t, p) /\ retained' \in Seq(Entry) /\ StoreOK(retained')
  BY <1>1, RetainKeepsStore, Zenon
<1>3. Subscribed(t) <=> Matched(subs, t)
  BY Zenon DEF Subscribed, Matched
<1>4. k \in Due /\ k.topic = t /\ k.payload = p
  BY DEF Frames, Due
<1>5. outbox \in Seq(Frames) /\ retained \in Seq(Entry) /\ wills \subseteq Due
  BY Zenon DEF SubsInv, SubsTypeOK
<1> HIDE DEF k, t, p
<1>6. wills' \subseteq Due /\ wills \subseteq wills' /\ (Matched(subs, t) => OnItsWay(wills', t, p))
  BY <1>1, <1>3, <1>4, <1>5, Zenon DEF OnItsWay
<1>7. CurrentIn(retained, subs, missed \cup late, wills, outbox, reply.replay, view) =>
        CurrentIn(retained', subs, missed' \cup late', wills', outbox', reply.replay, view)
  BY <1>1, <1>2, <1>5, <1>6, CurrentAfterRecord, Zenon
<1> QED
  BY <1>1, <1>2, <1>5, <1>6, <1>7, SubsInvByOthers, Zenon

(* A will is pushed. *)
LEMMA SubsInvPushWill ==
  ASSUME SubsInv, NEW k \in wills, NEW fits \in BOOLEAN, PushWill(k, fits)
  PROVE  SubsInv'
<1> DEFINE t == k.topic
           p == k.payload
           sends == fits /\ Len(outbox) < Depth
           e == [topic |-> t, payload |-> p]
<1>1. /\ ~Locked /\ wills' = wills \ {k} /\ retained' = retained
      /\ pc' = pc /\ subs' = subs /\ reply' = reply /\ entry' = entry /\ view' = view
      /\ outbox' = IF sends THEN Append(outbox, e) ELSE outbox
  BY Zenon DEF PushWill, Push
<1>2. /\ outbox \in Seq(Frames) /\ retained \in Seq(Entry) /\ StoreOK(retained)
      /\ wills \subseteq Due /\ sends \in BOOLEAN
  BY Zenon DEF SubsInv, SubsTypeOK
<1>3. t \in Topics /\ p \in Payloads \cup {NotRetained} /\ e \in Frames /\ e.topic = t /\ e.payload = p
  BY <1>2 DEF Frames, Due
<1>4. Subscribed(t) <=> Matched(subs, t)
  BY Zenon DEF Subscribed, Matched
<1>5. Newest(k) <=> NewestIn(retained, t, p)
  BY Zenon DEF Newest, NewestIn
<1>6. Arrives(t, p) <=> ArrivesIn(outbox, reply.replay, view, t, p)
  BY Zenon DEF Arrives, ArrivesIn
<1>7. /\ p = NotRetained => missed' = missed /\ late' = late
      /\ p # NotRetained /\ sends =>
           IF Newest(k) /\ Subscribed(t) THEN missed' = missed \ {t} /\ late' = late \ {t}
           ELSE late' = late \cup {t} /\ missed' = missed
      /\ p # NotRetained /\ ~sends =>
           IF Newest(k) /\ ~Arrives(t, p) THEN missed' = missed \cup {t} /\ late' = late
           ELSE missed' = missed /\ late' = late
  BY Zenon DEF PushWill, Sent, NotSent
<1>8. t = k.topic /\ p = k.payload
  OBVIOUS
<1> HIDE DEF sends, e, t, p
<1>9. WillPushed(retained, subs, t, p, sends, outbox, outbox', reply.replay, view,
                 missed \cup late, missed' \cup late')
  <2>1. (missed \ {t}) \cup (late \ {t}) = (missed \cup late) \ {t}
    OBVIOUS
  <2>2. (missed \cup {t}) \cup late = (missed \cup late) \cup {t}
    OBVIOUS
  <2>3. missed \cup (late \cup {t}) = (missed \cup late) \cup {t}
    OBVIOUS
  <2>4. p = NotRetained => missed' \cup late' = missed \cup late
    BY <1>7, Zenon
  <2>5. p # NotRetained /\ sends =>
          IF NewestIn(retained, t, p) /\ Matched(subs, t) THEN missed' \cup late' = (missed \cup late) \ {t}
          ELSE missed' \cup late' = (missed \cup late) \cup {t}
    BY <1>4, <1>5, <1>7, <2>1, <2>3, Zenon
  <2>6. p # NotRetained /\ ~sends =>
          IF NewestIn(retained, t, p) /\ ~ArrivesIn(outbox, reply.replay, view, t, p)
          THEN missed' \cup late' = (missed \cup late) \cup {t} ELSE missed' \cup late' = missed \cup late
    BY <1>5, <1>6, <1>7, <2>2, Zenon
  <2> QED
    BY <1>1, <2>4, <2>5, <2>6, Zenon DEF WillPushed, e
<1>10. outbox' \in Seq(Frames) /\ wills' \subseteq Due
  BY <1>1, <1>2, <1>3, AppendPlaces, Zenon
<1>11. CurrentIn(retained, subs, missed \cup late, wills, outbox, reply.replay, view) =>
         CurrentIn(retained', subs, missed' \cup late', wills', outbox', reply.replay, view)
  <2>1. ASSUME CurrentIn(retained, subs, missed \cup late, wills, outbox, reply.replay, view)
        PROVE  CurrentIn(retained, subs, missed' \cup late', wills \ {k}, outbox', reply.replay, view)
    <3>1. /\ k.topic \in Topics /\ k.payload \in Payloads \cup {NotRetained}
          /\ WillPushed(retained, subs, k.topic, k.payload, sends, outbox, outbox', reply.replay, view,
                        missed \cup late, missed' \cup late')
      BY <1>3, <1>8, <1>9, Zenon
    <3> QED
      BY <1>2, <2>1, <3>1, CurrentAfterWill
  <2> QED
    BY <1>1, <2>1, Zenon
<1>12. QueuedOK(subs, outbox, late) => QueuedOK(subs, outbox', late')
  <2>1. \A u \in late : u \in late' \/ Matched(subs, u)
    BY <1>4, <1>7, Zenon
  <2>2. CASE sends
    <3>1. p # NotRetained => Matched(subs, t) \/ t \in late'
      BY <1>4, <1>7, <2>2, Zenon
    <3> QED
      BY <1>1, <1>2, <1>3, <2>1, <2>2, <3>1, QueuedAfterRoute, Zenon
  <2>3. CASE ~sends
    BY <1>1, <2>1, <2>3, Zenon DEF QueuedOK
  <2> QED
    BY <2>2, <2>3, Zenon
<1> QED
  BY <1>1, <1>2, <1>10, <1>11, <1>12, SubsInvByOthers, Zenon
-----------------------------------------------------------------------------
(* The theorems. *)

(* A frame fits or not. *)
LEMMA FitsOrNot == \A p : \A fits \in Fit(p) : fits \in BOOLEAN
  BY Zenon DEF Fit

(* The invariant of the subscriptions, the store and the answers. *)
LEMMA SubsInvariant == SubsSpec => []SubsInv
<1>1. SubsInit => SubsInv
  BY SubsInvInit
<1>2. SubsInv /\ [SubsNext]_vars => SubsInv'
  <2> SUFFICES ASSUME SubsInv, [SubsNext]_vars PROVE SubsInv'
    OBVIOUS
  <2>1. CASE Flush
    BY <2>1, SubsInvFlush
  <2>2. CASE Wake
    BY <2>2, SubsInvWake
  <2>3. CASE \E req \in Requests : Upsert(req)
    BY <2>3, SubsInvUpsert
  <2>4. CASE Collect
    BY <2>4, SubsInvCollect
  <2>5. CASE \E f \in Filters : Unsubscribe(f)
    BY SMTT(40), <2>5, SubsInvUnsubscribe
  <2>6. CASE LastFilter
    BY <2>6, SubsInvLastFilter
  <2>7. CASE WriteAck
    BY <2>7, SubsInvWriteAck
  <2>8. CASE WriteReplay
    BY <2>8, SubsInvWriteReplay
  <2>9. CASE \E m \in Publishes : \E fits \in Fit(m.payload) : Publish(m, fits)
    <3>1. PICK m \in Publishes : \E fits \in Fit(m.payload) : Publish(m, fits)
      BY <2>9, Zenon
    <3>2. m \in Frames
      BY SubscriptionConstantsOK, Zenon
    <3> QED
      BY <3>1, <3>2, FitsOrNot, SubsInvPublish, Zenon
  <2>11. CASE \E d \in Dying, m \in Wills : RecordWill(d, m)
    <3>1. PICK d \in Dying, m \in Wills : RecordWill(d, m)
      BY <2>11, Zenon
    <3>2. m \in Frames
      BY SubscriptionConstantsOK, Zenon
    <3> QED
      BY <3>1, <3>2, SubsInvRecordWill, Zenon
  <2>12. CASE \E k \in wills : \E fits \in Fit(k.payload) : PushWill(k, fits)
    BY <2>12, FitsOrNot, SubsInvPushWill, Zenon
  <2>10. CASE UNCHANGED vars
    <3>1. /\ pc' = pc /\ subs' = subs /\ outbox' = outbox /\ retained' = retained
          /\ reply' = reply /\ entry' = entry /\ view' = view /\ missed' = missed
          /\ wills' = wills /\ late' = late
      BY SMTT(40), <2>10 DEF vars, sessionVars, willVars
    <3>2. PhaseOK' /\ pc' \in {"flush", "wait", "upsert", "collect", "remove", "reply", "replay"}
      BY Zenon, <3>1 DEF SubsInv, SubsTypeOK, PhaseOK
    <3>3. pc' \in {"wait", "upsert", "collect"} => QueuedOK(subs, outbox, late)
      BY <3>1, Zenon DEF SubsInv
    <3> QED
      BY <3>1, <3>2, <3>3, OnlyPc
  <2> QED
    BY <2>1, <2>2, <2>3, <2>4, <2>5, <2>6, <2>7, <2>8, <2>9, <2>10, <2>11, <2>12, Zenon DEF SubsNext
<1> QED
  BY <1>1, <1>2, PTL DEF SubsSpec

(* On one executor a will that is due is the newest value of its topic, and *)
(* the session subscribes to it.                                            *)
InTime ==
  OneExecutor =>
    /\ late = {}
    /\ \A k \in wills : /\ Matched(subs, k.topic)
                        /\ k.payload # NotRetained => NewestIn(retained, k.topic, k.payload)

(* No will is late on one executor: nothing happens between the two locked  *)
(* sections of cleanup_connection.                                          *)
LEMMA WillsInTime == SubsSpec => []InTime
<1>1. SubsInit => InTime
  BY Zenon DEF SubsInit, InTime
<1>2. SubsInv /\ InTime /\ [SubsNext]_vars => InTime'
  <2> SUFFICES ASSUME SubsInv, InTime, [SubsNext]_vars, OneExecutor
               PROVE  /\ late' = {}
                      /\ \A k \in wills' :
                           /\ Matched(subs', k.topic)
                           /\ k.payload # NotRetained => NewestIn(retained', k.topic, k.payload)
    BY Zenon DEF InTime
  <2>0. /\ late = {}
        /\ \A k \in wills : /\ Matched(subs, k.topic)
                            /\ k.payload # NotRetained => NewestIn(retained, k.topic, k.payload)
    BY Zenon DEF InTime
  <2>1. CASE Undisturbed /\ wills' = wills /\ late' \subseteq late
    BY <2>0, <2>1, Zenon DEF Undisturbed
  <2>2. CASE UNCHANGED vars
    <3>1. subs' = subs /\ retained' = retained /\ wills' = wills /\ late' = late
      BY SMTT(40), <2>2 DEF vars, sessionVars, willVars
    <3>2. late' = {}
      BY <2>0, <3>1, Zenon
    <3>3. ASSUME NEW k \in wills'
          PROVE  /\ Matched(subs', k.topic)
                 /\ k.payload # NotRetained => NewestIn(retained', k.topic, k.payload)
      BY <2>0, <3>1, <3>3, Zenon
    <3> QED
      BY <3>2, <3>3, Zenon
  <2>3. ASSUME NEW m \in Publishes, NEW fits, Publish(m, fits)
        PROVE  wills' = wills /\ late' \subseteq late
    BY <2>3, Zenon DEF Publish, Route, Sent, NotSent
  <2>4. CASE Undisturbed /\ \E d \in Dying, m \in Wills : RecordWill(d, m)
    <3>1. PICK d \in Dying, m \in Wills : RecordWill(d, m)
      BY <2>4, Zenon
    <3>2. m \in Frames
      BY SubscriptionConstantsOK, Zenon
    <3> DEFINE k == [by |-> d, topic |-> m.topic, payload |-> m.payload]
    <3>3. k.topic = m.topic /\ k.payload = m.payload
      OBVIOUS
    <3>4. /\ Retain(m.topic, m.payload) /\ subs' = subs /\ late' = late
          /\ wills' = IF Subscribed(m.topic) THEN wills \cup {k} ELSE wills
      BY <3>1, Zenon DEF RecordWill, sessionVars
    <3> HIDE DEF k
    <3>5. m.payload # NotRetained => NewestIn(retained', m.topic, m.payload)
      <4>1. RetainedAs(retained, retained', m.topic, m.payload)
        BY <3>2, <3>4, RetainKeepsStore, Zenon
      <4> QED
        BY <4>1, Zenon DEF RetainedAs, StoreSet, NewestIn
    <3>6. Subscribed(m.topic) => Matched(subs, m.topic)
      BY Zenon DEF Subscribed, Matched
    <3>7. wills = {}
      BY <2>4, Zenon DEF Undisturbed
    <3> QED
      BY <2>0, <3>3, <3>4, <3>5, <3>6, <3>7, Zenon
  <2>5. CASE \E k \in wills : \E fits \in Fit(k.payload) : PushWill(k, fits)
    <3>1. PICK k \in wills : \E fits \in Fit(k.payload) : PushWill(k, fits)
      BY <2>5, Zenon
    <3>2. wills' = wills \ {k} /\ subs' = subs /\ retained' = retained
      BY <3>1, Zenon DEF PushWill
    <3>3. Subscribed(k.topic) <=> Matched(subs, k.topic)
      BY Zenon DEF Subscribed, Matched
    <3>4. Newest(k) <=> NewestIn(retained, k.topic, k.payload)
      BY Zenon DEF Newest, NewestIn
    <3>5. late' = late \/ late' = late \ {k.topic}
      <4>1. Subscribed(k.topic) /\ (k.payload # NotRetained => Newest(k))
        BY <2>0, <3>1, <3>3, <3>4, Zenon
      <4> QED
        BY <3>1, <4>1, Zenon DEF PushWill, Sent, NotSent
    <3>6. late' = {}
      BY <2>0, <3>5
    <3>7. ASSUME NEW l \in wills'
          PROVE  /\ Matched(subs', l.topic)
                 /\ l.payload # NotRetained => NewestIn(retained', l.topic, l.payload)
      BY <2>0, <3>2, <3>7, Zenon
    <3> QED
      BY <3>6, <3>7, Zenon
  <2>6. CASE Undisturbed /\ Flush
    BY <2>1, <2>6, Zenon DEF Flush, willVars
  <2>7. CASE Undisturbed /\ Wake
    BY <2>1, <2>7, Zenon DEF Wake, willVars
  <2>8. CASE Undisturbed /\ \E req \in Requests : Upsert(req)
    BY <2>1, <2>8, Zenon DEF Upsert, willVars
  <2>9. CASE Undisturbed /\ Collect
    BY <2>1, <2>9, Zenon DEF Collect, willVars
  <2>10. CASE Undisturbed /\ \E f \in Filters : Unsubscribe(f)
    BY <2>1, <2>10, Zenon DEF Unsubscribe, willVars
  <2>11. CASE Undisturbed /\ LastFilter
    BY <2>1, <2>11, Zenon DEF LastFilter, willVars
  <2>12. CASE Undisturbed /\ WriteAck
    BY <2>1, <2>12, Zenon DEF WriteAck, willVars
  <2>13. CASE Undisturbed /\ WriteReplay
    BY <2>1, <2>13, Zenon DEF WriteReplay, willVars
  <2>14. CASE Undisturbed /\ \E m \in Publishes : \E fits \in Fit(m.payload) : Publish(m, fits)
    BY <2>1, <2>3, <2>14, Zenon
  <2> QED
    BY <2>2, <2>4, <2>5, <2>6, <2>7, <2>8, <2>9, <2>10, <2>11, <2>12, <2>13, <2>14, Zenon DEF SubsNext
<1> QED
  BY <1>1, <1>2, SubsInvariant, PTL DEF SubsSpec

(* A subscriber ends up with what the broker retains: whatever subscribe,   *)
(* unsubscribe, publish, will and replay do to each other, the last message *)
(* on its way about a retained topic that it subscribes to is the retained  *)
(* value, or a will that is due is, unless a message about it was dropped;  *)
(* on one executor also no will comes too late.                             *)
THEOREM SubscriberStaysCurrent == SubsSpec => []SubscriberCurrent
<1>1. SubsInv /\ InTime => SubscriberCurrent
  <2> SUFFICES ASSUME SubsInv, InTime, pc \notin {"upsert", "collect"}
               PROVE  \A i \in DOMAIN retained :
                        LET e == retained[i] IN
                        Subscribed(e.topic) /\ e.topic \notin missed /\ (OneExecutor \/ e.topic \notin late)
                          => \/ Arrives(e.topic, e.payload)
                             \/ \E k \in wills : k.topic = e.topic /\ k.payload = e.payload
    BY ZenonT(40) DEF SubscriberCurrent
  <2>0. reply.new = <<>>
    BY Zenon DEF SubsInv, PhaseOK
  <2>1. CurrentIn(retained, subs, missed \cup late, wills, outbox, reply.replay, view)
    BY <2>0, NothingPending, Zenon DEF SubsInv
  <2>2. \A t : Subscribed(t) <=> Matched(subs, t)
    BY Zenon DEF Subscribed, Matched
  <2>3. \A t, p : Arrives(t, p) <=> ArrivesIn(outbox, reply.replay, view, t, p)
    BY Zenon DEF Arrives, ArrivesIn
  <2>4. \A t : t \notin missed /\ (OneExecutor \/ t \notin late) => t \notin missed \cup late
    BY Zenon DEF InTime
  <2> QED
    BY <2>1, <2>2, <2>3, <2>4, Zenon DEF CurrentIn, OnItsWay
<1> QED
  BY <1>1, SubsInvariant, WillsInTime, PTL

(* The codes of an answer agree with the table all the while it is prepared *)
(* and written: what is granted is there once with the QoS granted last,    *)
(* what is refused or removed is not there.                                 *)
THEOREM AnswersAgreeWithTable == SubsSpec => []AnswerMatchesTable
<1>1. SubsInv => AnswerMatchesTable
  <2> SUFFICES ASSUME SubsInv PROVE AnswerMatchesTable
    OBVIOUS
  <2>1. /\ AnswersOK(subs, reply.asked, reply.codes) /\ TableOK(subs)
        /\ DOMAIN subs = 1..Len(subs)
        /\ DOMAIN reply.codes = 1..Len(reply.codes) /\ DOMAIN reply.asked = 1..Len(reply.asked)
    <3>1. subs \in Seq(Sub)
      BY Zenon DEF SubsInv, SubsTypeOK
    <3> QED
      BY <3>1, ReplyParts, Elements, Zenon DEF SubsInv
  <2>2. ASSUME NEW i \in DOMAIN reply.codes
        PROVE  LET f == reply.asked[i].filter
                   held == {k \in DOMAIN subs : subs[k].filter = f}
               IN IF reply.codes[i] \in {"failure", "removed"}
                  THEN held = {}
                  ELSE \E k \in held :
                         /\ held = {k}
                         /\ \/ subs[k].qos = reply.codes[i]
                            \/ \E j \in DOMAIN reply.asked : j > i /\ reply.asked[j].filter = f
    <3> DEFINE f == reply.asked[i].filter
               held == {k \in DOMAIN subs : subs[k].filter = f}
    <3>1. AnswerOK(subs, reply.asked, reply.codes, i)
      BY <2>1, Zenon DEF AnswersOK
    <3>2. CASE reply.codes[i] \in {"failure", "removed"}
      <4>1. \A k \in DOMAIN subs : subs[k].filter # f
        BY <2>1, <3>1, <3>2, Zenon DEF AnswerOK
      <4>2. held = {}
        BY <4>1, Zenon
      <4> QED
        BY <3>2, <4>2, Zenon
    <3>3. CASE reply.codes[i] \notin {"failure", "removed"}
      <4>1. PICK k \in 1..Len(subs) :
              /\ subs[k].filter = f
              /\ \/ subs[k].qos = reply.codes[i]
                 \/ \E j \in 1..Len(reply.asked) : j > i /\ reply.asked[j].filter = f
        BY <3>1, <3>3, Zenon DEF AnswerOK
      <4>2. k \in held
        BY <2>1, <4>1, Zenon
      <4>3. \A l \in held : l = k
        BY <2>1, <4>1, Zenon DEF TableOK
      <4>4. held = {k}
        BY <4>2, <4>3, Zenon
      <4> HIDE DEF held
      <4>5. \E l \in held : /\ held = {l}
                            /\ \/ subs[l].qos = reply.codes[i]
                               \/ \E j \in DOMAIN reply.asked : j > i /\ reply.asked[j].filter = f
        BY <2>1, <4>1, <4>2, <4>4, Zenon
      <4> QED
        BY <3>3, <4>5, Zenon DEF held
    <3> QED
      BY <3>2, <3>3, Zenon
  <2> QED
    BY <2>2, Zenon DEF AnswerMatchesTable
<1> QED
  BY <1>1, SubsInvariant, PTL

(* Only filters get into a table for which topic_matches computes exactly   *)
(* MQTT's relation, on topics of any length.                                *)
THEOREM TableIsExact == SubsSpec => []TableMatchesExactly
<1>1. SubsInv => TableMatchesExactly
  <2> SUFFICES ASSUME SubsInv, NEW k \in DOMAIN subs, NEW t \in Topics \cup ProbeTopics
               PROVE  TopicMatches(subs[k].filter, t) <=> Covers(subs[k].filter, t)
    BY Zenon DEF TableMatchesExactly
  <2>1. IsValidFilter(subs[k].filter)
    BY Zenon DEF SubsInv, TableOK
  <2>2. subs[k].filter \in Levels
    <3>1. subs[k] \in Sub
      <4>1. subs \in Seq(Sub)
        BY Zenon DEF SubsInv, SubsTypeOK
      <4> QED
        BY <4>1, Elements, Zenon
    <3> QED
      BY <3>1 DEF Sub
  <2>3. t \in Levels
    BY SubscriptionConstantsOK, Zenon
  <2> QED
    BY <2>1, <2>2, <2>3, MatchingIsExact, Zenon
<1> QED
  BY <1>1, SubsInvariant, PTL
=============================================================================
