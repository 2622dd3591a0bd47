-------------------------- MODULE PublishStoreProofs -------------------------
(***************************************************************************)
(* Proofs about PublishStore, for every number of sessions, every inflight *)
(* depth (0 included, as the TLS build has it) and every width of the      *)
(* wrapping counters.                                                      *)
(***************************************************************************)
EXTENDS PublishStore, FiniteSetTheorems, TLAPS

(* A session that is not in the registry has nothing inflight. *)
VacantSessionsIdle == \A s \in Sids \ live : inflight[s] = {}

(* No session holds a slot twice: a publish reaches a session at most once. *)
OneEntryPerSlot ==
  \A s \in Sids : \A e, f \in inflight[s] : e.slot = f.slot => e = f

(* Slots are freed exactly when their count reaches zero. *)
VacantIffUncounted ==
  \A k \in Slots : store[k].gen = 0 <=> store[k].refcount = 0

(* inflight_add never meets a full list. *)
InflightBounded ==
  \A s \in Sids : Cardinality(inflight[s]) <= MaxInflight

InflightFinite == \A s \in Sids : IsFiniteSet(inflight[s])

StoreInv ==
  /\ inflight \in [Sids -> SUBSET InflightEntry]
  /\ store \in [Slots -> StoredPublish]
  /\ RetryResendsOriginal
  /\ OneEntryPerSlot
  /\ RefcountExact
  /\ VacantIffUncounted
  /\ InflightFinite
  /\ InflightBounded

(* The inductive invariant. *)
PsInv == PsTypeOK /\ VacantSessionsIdle /\ StoreInv
-----------------------------------------------------------------------------
(* There are finitely many sessions, so every set of them is finite and its *)
(* size fits the u16 reference count.                                       *)
LEMMA SidSets ==
  ASSUME NEW S \in SUBSET Sids
  PROVE  /\ IsFiniteSet(S)
         /\ Cardinality(S) \in 0..RefMax
         /\ Cardinality(S) = 0 <=> S = {}
<1>1. IsFiniteSet(Sids) /\ Cardinality(Sids) <= MaxSessions
  <2>1. CASE MaxSessions = 0
    <3>1. Sids = {}
      BY <2>1 DEF Sids
    <3> QED
      BY <3>1, <2>1, FS_EmptySet
  <2>2. CASE MaxSessions # 0
    BY <2>2, FS_Interval, ConstantsOK DEF Sids
  <2> QED
    BY <2>1, <2>2
<1>2. IsFiniteSet(S) /\ Cardinality(S) <= Cardinality(Sids)
  BY <1>1, FS_Subset
<1>3. Cardinality(S) \in Nat /\ Cardinality(Sids) \in Nat
  BY <1>1, <1>2, FS_CardinalityType
<1>4. Cardinality(S) = 0 <=> S = {}
  BY <1>2, FS_EmptySet
<1> QED
  BY <1>1, <1>2, <1>3, <1>4, ConstantsOK, RefcountFits

(* Taking one of several references from a slot leaves its publish alone.   *)
LEMMA OneReferenceLess ==
  ASSUME NEW p \in StoredPublish, p.refcount > 1
  PROVE  LET q == [p EXCEPT !.refcount = @ - 1]
         IN  /\ q \in StoredPublish
             /\ q.refcount = p.refcount - 1
             /\ q.gen = p.gen
             /\ q.msg = p.msg
  BY ConstantsOK DEF StoredPublish

(* Releasing entries E of one session takes one reference from each slot    *)
(* that E names, and none from the others.                                  *)
LEMMA ReleaseTakesOne ==
  ASSUME StoreInv, NEW s \in Sids, NEW E \in SUBSET inflight[s],
         NEW k \in Slots
  PROVE  Release(E)[k] =
           IF \E e \in E : e.slot = k
           THEN IF store[k].refcount <= 1 THEN NoPublish
                ELSE [store[k] EXCEPT !.refcount = @ - 1]
           ELSE store[k]
<1>1. CASE \E e \in E : e.slot = k
  <2>1. PICK e \in E : e.slot = k
    BY <1>1
  <2>2. ReleasedRefs(E, k) = {e}
    BY <2>1 DEF StoreInv, OneEntryPerSlot, RetryResendsOriginal, IsStored,
                ReleasedRefs
  <2>3. Cardinality(ReleasedRefs(E, k)) = 1
    BY Zenon, <2>2, FS_Singleton
  <2> QED
    BY <2>3, <1>1 DEF Release
<1>2. CASE ~ \E e \in E : e.slot = k
  <2>1. ReleasedRefs(E, k) = {}
    BY <1>2 DEF ReleasedRefs
  <2>2. Cardinality(ReleasedRefs(E, k)) = 0
    BY <2>1, FS_EmptySet
  <2> QED
    BY <2>2, <1>2 DEF Release
<1> QED
  BY <1>1, <1>2

(* Dropping entries E of session s together with their references keeps     *)
(* the store's invariant: the counts of the named slots fall by one, and    *)
(* so do their sets of holders.                                             *)
LEMMA ReleasePreserves ==
  ASSUME StoreInv, NEW s \in Sids, NEW E \in SUBSET inflight[s],
         inflight' = [inflight EXCEPT ![s] = @ \ E],
         store' = Release(E)
  PROVE  StoreInv'
<1> DEFINE Named(k) == \E e \in E : e.slot = k
<1>1. inflight' \in [Sids -> SUBSET InflightEntry]
  BY DEF StoreInv
<1>2. \A t \in Sids : inflight'[t] = IF t = s THEN inflight[s] \ E ELSE inflight[t]
  BY DEF StoreInv
<1>3. \A k \in Slots : store'[k] =
        IF Named(k)
        THEN IF store[k].refcount <= 1 THEN NoPublish
             ELSE [store[k] EXCEPT !.refcount = @ - 1]
        ELSE store[k]
  BY ReleaseTakesOne
<1>4. store' \in [Slots -> StoredPublish]
  <2>1. DOMAIN store' = Slots /\ store' = [k \in Slots |-> store'[k]]
    BY DEF Release
  <2>2. ASSUME NEW k \in Slots PROVE store'[k] \in StoredPublish
    <3>1. store[k] \in StoredPublish
      BY DEF StoreInv
    <3>2. NoPublish \in StoredPublish
      BY ConstantsOK DEF NoPublish, StoredPublish
    <3>3. store[k].refcount \in Nat
      BY <3>1, ConstantsOK DEF StoredPublish
    <3>4. store[k].refcount > 1 =>
            [store[k] EXCEPT !.refcount = @ - 1] \in StoredPublish
      BY <3>1, OneReferenceLess
    <3> QED
      BY <1>3, <3>1, <3>2, <3>3, <3>4
  <2> QED
    BY <2>1, <2>2
<1>5. ASSUME NEW k \in Slots, Named(k)
      PROVE  /\ s \in Holders(k)
             /\ Holders(k)' = Holders(k) \ {s}
  <2>1. PICK e \in E : e.slot = k
    BY <1>5
  <2>2. \A f \in inflight[s] : f.slot = k => f = e
    BY <2>1 DEF StoreInv, OneEntryPerSlot
  <2> QED
    BY <1>2, <2>1, <2>2 DEF Holders
<1>6. ASSUME NEW k \in Slots, ~Named(k) PROVE Holders(k)' = Holders(k)
  BY <1>2, <1>6 DEF Holders
<1>7. ASSUME NEW k \in Slots, Named(k)
      PROVE  /\ Cardinality(Holders(k)') = Cardinality(Holders(k)) - 1
             /\ Cardinality(Holders(k)) \in Nat \ {0}
  <2>1. Holders(k) \in SUBSET Sids
    BY DEF Holders
  <2>2. IsFiniteSet(Holders(k)) /\ Cardinality(Holders(k)) \in Nat
    BY <2>1, SidSets, ConstantsOK
  <2>3. Cardinality(Holders(k)) # 0
    BY <2>1, <1>5, <1>7, SidSets
  <2>4. Cardinality(Holders(k) \ {s}) = Cardinality(Holders(k)) - 1
    BY Zenon, <2>2, <1>5, <1>7, FS_RemoveElement
  <2> QED
    BY Zenon, <2>2, <2>3, <2>4, <1>5, <1>7
<1>8. RefcountExact' /\ VacantIffUncounted'
  <2> SUFFICES ASSUME NEW k \in Slots
               PROVE  /\ store'[k].refcount = Cardinality(Holders(k)')
                      /\ store'[k].gen = 0 <=> store'[k].refcount = 0
    BY DEF RefcountExact, VacantIffUncounted
  <2>1. /\ store[k].refcount = Cardinality(Holders(k))
        /\ store[k].gen = 0 <=> store[k].refcount = 0
        /\ store[k] \in StoredPublish
    BY DEF StoreInv, RefcountExact, VacantIffUncounted
  <2>2. CASE Named(k)
    <3>1. CASE store[k].refcount <= 1
      <4>1. store'[k] = NoPublish
        BY Zenon, <1>3, <2>2, <3>1
      <4> QED
        BY <4>1, <1>7, <2>1, <2>2, <3>1 DEF NoPublish
    <3>2. CASE store[k].refcount > 1
      <4> DEFINE q == [store[k] EXCEPT !.refcount = @ - 1]
      <4>1. q.refcount = store[k].refcount - 1 /\ q.gen = store[k].gen
        BY <2>1, <3>2, OneReferenceLess
      <4>2. store[k].refcount \in Nat
        BY <1>7, <2>1, <2>2
      <4>3. store'[k] = q
        BY <1>3, <2>2, <3>2, <4>2
      <4> HIDE DEF q
      <4> QED
        BY <4>1, <4>2, <4>3, <1>7, <2>1, <2>2, <3>2
    <3> QED
      BY <3>1, <3>2, <1>7, <2>1, <2>2
  <2>3. CASE ~Named(k)
    BY Zenon, <1>3, <1>6, <2>1, <2>3
  <2> QED
    BY <2>2, <2>3
<1>9. OneEntryPerSlot' /\ InflightFinite' /\ InflightBounded'
  <2>1. OneEntryPerSlot'
    BY <1>2 DEF StoreInv, OneEntryPerSlot
  <2>2. IsFiniteSet(inflight[s] \ E)
        /\ Cardinality(inflight[s] \ E) <= Cardinality(inflight[s])
    BY FS_Subset DEF StoreInv, InflightFinite
  <2>3. Cardinality(inflight[s]) \in Nat /\ Cardinality(inflight[s] \ E) \in Nat
    BY <2>2, FS_CardinalityType DEF StoreInv, InflightFinite
  <2>4. InflightFinite'
    BY <1>2, <2>2 DEF StoreInv, InflightFinite
  <2>5. Cardinality(inflight[s] \ E) <= MaxInflight
    BY <2>2, <2>3, ConstantsOK DEF StoreInv, InflightBounded
  <2>6. InflightBounded'
    BY <1>2, <2>5 DEF StoreInv, InflightBounded
  <2> QED
    BY <2>1, <2>4, <2>6
<1>10. RetryResendsOriginal'
  <2> SUFFICES ASSUME NEW t \in Sids, NEW f \in inflight'[t]
               PROVE  store'[f.slot].gen = f.gen /\ store'[f.slot].msg = f.msg
    BY DEF RetryResendsOriginal, IsStored
  <2>1. f \in inflight[t] /\ f.slot \in Slots /\ f.gen \in 1..GenMax
    BY <1>2 DEF StoreInv, InflightEntry
  <2>2. store[f.slot].gen = f.gen /\ store[f.slot].msg = f.msg
    BY <2>1 DEF StoreInv, RetryResendsOriginal, IsStored
  <2>3. CASE Named(f.slot)
    <3>1. t # s
      BY <1>2, <2>1, <2>3 DEF StoreInv, OneEntryPerSlot
    <3>2. t \in Holders(f.slot)'
      BY <1>2 DEF Holders
    <3>3. Cardinality(Holders(f.slot)') # 0
      <4>1. Holders(f.slot)' \in SUBSET Sids
        BY DEF Holders
      <4> QED
        BY <4>1, <3>2, SidSets
    <3>4. store[f.slot].refcount = Cardinality(Holders(f.slot))
          /\ store[f.slot] \in StoredPublish
      BY <2>1 DEF StoreInv, RefcountExact
    <3>5. ~(store[f.slot].refcount <= 1)
      BY <3>3, <3>4, <1>7, <2>1, <2>3
    <3> QED
      BY ZenonT(40), <1>3, <2>1, <2>2, <2>3, <3>4, <3>5 DEF StoredPublish
  <2>4. CASE ~Named(f.slot)
    BY Zenon, <1>3, <2>1, <2>2, <2>4
  <2> QED
    BY <2>3, <2>4
<1> QED
  BY <1>1, <1>4, <1>8, <1>9, <1>10 DEF StoreInv

(* Updating the retry bookkeeping of an entry leaves its handle alone, and  *)
(* with it everything the store knows.                                      *)
LEMMA ReplacePreserves ==
  ASSUME StoreInv, NEW s \in Sids, NEW e \in inflight[s],
         NEW f \in InflightEntry,
         f.slot = e.slot, f.gen = e.gen, f.msg = e.msg,
         Replace(s, e, f), UNCHANGED store
  PROVE  StoreInv'
<1>1. \A t \in Sids : inflight'[t] =
        IF t = s THEN (inflight[s] \ {e}) \cup {f} ELSE inflight[t]
  BY DEF StoreInv, Replace
<1>2. inflight' \in [Sids -> SUBSET InflightEntry]
  BY DEF StoreInv, Replace
<1>3. \A k : Holders(k)' = Holders(k)
  BY <1>1 DEF Holders
<1>4. RefcountExact' /\ VacantIffUncounted'
  BY <1>3 DEF StoreInv, RefcountExact, VacantIffUncounted
<1>5. OneEntryPerSlot'
  BY <1>1 DEF StoreInv, OneEntryPerSlot
<1>6. RetryResendsOriginal'
  <2> SUFFICES ASSUME NEW t \in Sids, NEW g \in inflight'[t]
               PROVE  store[g.slot].gen = g.gen /\ store[g.slot].msg = g.msg
    BY DEF RetryResendsOriginal, IsStored
  <2>1. CASE g \in inflight[t]
    BY <2>1 DEF StoreInv, RetryResendsOriginal, IsStored
  <2>2. CASE t = s /\ g = f
    BY <2>2 DEF StoreInv, RetryResendsOriginal, IsStored
  <2> QED
    BY <1>1, <2>1, <2>2
<1>7. InflightFinite' /\ InflightBounded'
  <2> DEFINE S == inflight[s]
             T == (S \ {e}) \cup {f}
  <2>1. IsFiniteSet(S) /\ Cardinality(S) \in Nat /\ Cardinality(S) <= MaxInflight
    BY FS_CardinalityType DEF StoreInv, InflightFinite, InflightBounded
  <2>2. IsFiniteSet(S \ {e}) /\ Cardinality(S \ {e}) = Cardinality(S) - 1
    BY <2>1, FS_RemoveElement
  <2>3. /\ IsFiniteSet(T)
        /\ Cardinality(T) = Cardinality(S \ {e})
             \/ Cardinality(T) = Cardinality(S \ {e}) + 1
    BY <2>2, FS_AddElement
  <2>4. Cardinality(T) <= MaxInflight
    BY <2>1, <2>2, <2>3, ConstantsOK
  <2>5. inflight'[s] = T
    BY <1>1
  <2> HIDE DEF S, T
  <2> QED
    BY <1>1, <2>3, <2>4, <2>5 DEF StoreInv, InflightFinite, InflightBounded
<1> QED
  BY <1>2, <1>4, <1>5, <1>6, <1>7 DEF StoreInv

(* Storing a publish once for a set of subscribers: the slot was vacant, so *)
(* nobody held it, and now exactly those subscribers do.                    *)
LEMMA TrackPreserves ==
  ASSUME PsInv, NEW targets \in SUBSET live, NEW tracked \in SUBSET targets,
         NEW m \in Msgs, RouteTracked(targets, tracked, m)
  PROVE  StoreInv'
<1> DEFINE G == Eligible(tracked)
<1>1. PICK k \in Vacant :
        /\ store' = [store EXCEPT ![k] =
             [msg |-> m, gen |-> nextGen, refcount |-> Cardinality(G)]]
        /\ inflight' = [s \in Sids |->
             IF s \in G THEN inflight[s] \cup {NewEntry(s, k, m)}
             ELSE inflight[s]]
  BY Zenon DEF RouteTracked
<1>2. G \in SUBSET Sids /\ G # {} /\ k \in Slots /\ store[k].gen = 0
  BY DEF PsInv, PsTypeOK, RouteTracked, Eligible, Vacant
<1>3. Cardinality(G) \in 0..RefMax /\ Cardinality(G) # 0
  BY <1>2, SidSets
<1> HIDE DEF G
<1>4. \A s \in G : NewEntry(s, k, m) \in InflightEntry
  <2> SUFFICES ASSUME NEW s \in G PROVE NewEntry(s, k, m) \in InflightEntry
    OBVIOUS
  <2>1. nextPid[s] \in 0..PidMax /\ nextGen \in 1..GenMax
    BY <1>2 DEF PsInv, PsTypeOK
  <2>2. NextPacketId(nextPid[s]) \in 1..PidMax
    BY <2>1, ConstantsOK DEF NextPacketId
  <2> QED
    BY <1>2, <2>1, <2>2, ConstantsOK DEF NewEntry, InflightEntry
<1>5. inflight' \in [Sids -> SUBSET InflightEntry]
  BY <1>1, <1>4 DEF PsInv, StoreInv
<1>6. store' \in [Slots -> StoredPublish]
  <2>1. nextGen \in 0..GenMax
    BY ConstantsOK DEF PsInv, PsTypeOK
  <2>2. [msg |-> m, gen |-> nextGen, refcount |-> Cardinality(G)] \in StoredPublish
    BY <1>3, <2>1 DEF StoredPublish
  <2> QED
    BY Zenon, <1>1, <2>2 DEF PsInv, StoreInv
<1>7. \A s \in Sids : \A e \in inflight[s] : e.slot # k
  BY <1>2, ConstantsOK
  DEF PsInv, StoreInv, RetryResendsOriginal, IsStored, InflightEntry
<1>8. \A s \in Sids : inflight'[s] =
        IF s \in G THEN inflight[s] \cup {NewEntry(s, k, m)} ELSE inflight[s]
  BY <1>1
<1>9. \A s \in Sids : NewEntry(s, k, m).slot = k
        /\ NewEntry(s, k, m).gen = nextGen /\ NewEntry(s, k, m).msg = m
  BY DEF NewEntry
<1>10. Holders(k)' = G
  BY Zenon, <1>2, <1>7, <1>8, <1>9 DEF Holders
<1>11. \A j \in Slots \ {k} : Holders(j)' = Holders(j)
  BY Zenon, <1>8, <1>9 DEF Holders
<1>12. /\ store'[k].gen = nextGen /\ store'[k].msg = m
       /\ store'[k].refcount = Cardinality(G)
       /\ \A j \in Slots \ {k} : store'[j] = store[j]
  BY <1>1, <1>2 DEF PsInv, StoreInv
<1>13. RefcountExact' /\ VacantIffUncounted'
  <2>1. nextGen # 0
    BY ConstantsOK DEF PsInv, PsTypeOK
  <2> QED
    BY <1>3, <1>10, <1>11, <1>12, <2>1
    DEF PsInv, StoreInv, RefcountExact, VacantIffUncounted
<1>14. OneEntryPerSlot'
  <2> SUFFICES ASSUME NEW s \in Sids, NEW e \in inflight'[s],
                      NEW f \in inflight'[s], e.slot = f.slot
               PROVE  e = f
    BY DEF OneEntryPerSlot
  <2> DEFINE new == NewEntry(s, k, m)
  <2>1. new.slot = k /\ \A g \in inflight[s] : g.slot # k
    BY <1>7, <1>9
  <2>2. (e \in inflight[s] \/ e = new) /\ (f \in inflight[s] \/ f = new)
    BY Zenon, <1>8
  <2>3. e \in inflight[s] /\ f \in inflight[s] => e = f
    BY DEF PsInv, StoreInv, OneEntryPerSlot
  <2> HIDE DEF new
  <2> QED
    BY <2>1, <2>2, <2>3
<1>15. RetryResendsOriginal'
  <2> SUFFICES ASSUME NEW s \in Sids, NEW e \in inflight'[s]
               PROVE  store'[e.slot].gen = e.gen /\ store'[e.slot].msg = e.msg
    BY DEF RetryResendsOriginal, IsStored
  <2>1. CASE e \in inflight[s]
    <3>1. e.slot \in Slots \ {k}
      BY <1>7, <2>1 DEF PsInv, StoreInv, InflightEntry
    <3> QED
      BY <1>12, <2>1, <3>1 DEF PsInv, StoreInv, RetryResendsOriginal, IsStored
  <2>2. CASE e = NewEntry(s, k, m)
    BY <1>9, <1>12, <2>2
  <2> QED
    BY Zenon, <1>8, <2>1, <2>2
<1>16. InflightFinite' /\ InflightBounded'
  <2> SUFFICES ASSUME NEW s \in Sids
               PROVE  /\ IsFiniteSet(inflight'[s])
                      /\ Cardinality(inflight'[s]) <= MaxInflight
    BY DEF InflightFinite, InflightBounded
  <2>1. IsFiniteSet(inflight[s]) /\ Cardinality(inflight[s]) \in Nat
        /\ Cardinality(inflight[s]) <= MaxInflight
    BY FS_CardinalityType DEF PsInv, StoreInv, InflightFinite, InflightBounded
  <2>2. CASE s \in G
    <3>1. Cardinality(inflight[s]) < MaxInflight
      BY <2>2 DEF G, Eligible
    <3> DEFINE T == inflight[s] \cup {NewEntry(s, k, m)}
    <3>2. IsFiniteSet(T) /\ (Cardinality(T) = Cardinality(inflight[s])
                             \/ Cardinality(T) = Cardinality(inflight[s]) + 1)
      BY <2>1, FS_AddElement
    <3>3. inflight'[s] = T
      BY Zenon, <1>8, <2>2
    <3> HIDE DEF T
    <3> QED
      BY <2>1, <3>1, <3>2, <3>3, ConstantsOK
  <2>3. CASE s \notin G
    BY Zenon, <1>8, <2>1, <2>3
  <2> QED
    BY <2>2, <2>3
<1> QED
  BY <1>5, <1>6, <1>13, <1>14, <1>15, <1>16 DEF StoreInv
-----------------------------------------------------------------------------
(* A new registry (SessionRegistry::new) satisfies the invariant. *)
LEMMA PsInitInv == PsInit => PsInv
<1> SUFFICES ASSUME PsInit PROVE PsInv
  OBVIOUS
<1>1. NoPublish \in StoredPublish
  BY ConstantsOK DEF NoPublish, StoredPublish
<1>2. PsTypeOK
  BY <1>1, ConstantsOK DEF PsInit, PsTypeOK
<1>3. \A k : Holders(k) = {}
  BY DEF PsInit, Holders
<1>4. Cardinality({}) = 0 /\ IsFiniteSet({})
  BY FS_EmptySet
<1>5. RefcountExact /\ VacantIffUncounted
  BY <1>3, <1>4 DEF PsInit, RefcountExact, VacantIffUncounted, NoPublish
<1>6. InflightFinite /\ InflightBounded
  BY <1>4, ConstantsOK DEF PsInit, InflightFinite, InflightBounded
<1>7. RetryResendsOriginal /\ OneEntryPerSlot /\ VacantSessionsIdle
  BY DEF PsInit, RetryResendsOriginal, OneEntryPerSlot, VacantSessionsIdle
<1> QED
  BY <1>2, <1>5, <1>6, <1>7 DEF PsInv, StoreInv, PsTypeOK

(* Steps that touch neither the store nor an inflight list. *)
LEMMA StoreUntouched ==
  ASSUME StoreInv, UNCHANGED <<inflight, store>>
  PROVE  StoreInv'
  BY DEF StoreInv, RetryResendsOriginal, IsStored, OneEntryPerSlot,
         RefcountExact, Holders, VacantIffUncounted, InflightFinite,
         InflightBounded

(* Packet ids stay within u16 through next_packet_id. *)
LEMMA DrawnPidsTyped ==
  ASSUME PsTypeOK, NEW targets, DrawPids(targets)
  PROVE  nextPid' \in [Sids -> 0..PidMax]
  BY SMTT(40), ConstantsOK DEF PsTypeOK, DrawPids, NextPacketId

(* Every operation of the registry preserves the inductive invariant. *)
LEMMA PsStepInv == PsInv /\ [PsNext]_psVars => PsInv'
<1> SUFFICES ASSUME PsInv, [PsNext]_psVars PROVE PsInv'
  OBVIOUS
<1> USE DEF PsInv
<1>0. /\ live \in SUBSET Sids /\ nextPid \in [Sids -> 0..PidMax]
      /\ nextGen \in 1..GenMax /\ 0 \in 0..PidMax
      /\ inflight \in [Sids -> SUBSET InflightEntry]
  BY ConstantsOK DEF PsTypeOK
<1>1. ASSUME NEW s \in Sids, InsertSession(s) PROVE PsInv'
  <2>1. inflight' = inflight /\ store' = store
    BY <1>0, <1>1 DEF InsertSession, VacantSessionsIdle
  <2>2. StoreInv'
    BY <2>1, StoreUntouched
  <2> QED
    BY <1>0, <1>1, <2>1, <2>2
    DEF InsertSession, PsTypeOK, VacantSessionsIdle, StoreInv
<1>2. ASSUME NEW s \in Sids, RemoveSession(s) PROVE PsInv'
  <2>1. inflight' = [inflight EXCEPT ![s] = @ \ inflight[s]]
    BY Zenon, <1>0, <1>2 DEF RemoveSession
  <2>2. StoreInv'
    BY Zenon, <1>2, <2>1, ReleasePreserves DEF RemoveSession
  <2> QED
    BY <1>0, <1>2, <2>2
    DEF RemoveSession, PsTypeOK, VacantSessionsIdle, StoreInv
<1>3. ASSUME NEW s \in Sids, NEW t \in Sids, ReplaceSession(s, t) PROVE PsInv'
  <2>1. inflight' = [inflight EXCEPT ![s] = {}, ![t] = {}]
        /\ (t = s \/ inflight[t] = {})
    BY <1>3 DEF ReplaceSession, VacantSessionsIdle
  <2>2. inflight' = [inflight EXCEPT ![s] = @ \ inflight[s]]
    BY Zenon, <1>0, <2>1
  <2>3. StoreInv'
    BY Zenon, <1>3, <2>2, ReleasePreserves DEF ReplaceSession
  <2> QED
    BY <1>0, <1>3, <2>3
    DEF ReplaceSession, PsTypeOK, VacantSessionsIdle, StoreInv
<1>4. ASSUME NEW targets \in SUBSET live, NEW tracked \in SUBSET targets,
             RouteUntracked(targets, tracked)
      PROVE  PsInv'
  <2>1. nextPid' \in [Sids -> 0..PidMax]
    BY <1>4, DrawnPidsTyped DEF RouteUntracked
  <2>2. StoreInv'
    BY <1>4, StoreUntouched DEF RouteUntracked
  <2> QED
    BY <1>0, <1>4, <2>1, <2>2
    DEF RouteUntracked, PsTypeOK, VacantSessionsIdle, StoreInv
<1>5. ASSUME NEW targets \in SUBSET live, NEW tracked \in SUBSET targets,
             RouteUnstorable(targets, tracked)
      PROVE  PsInv'
  <2>1. nextPid' \in [Sids -> 0..PidMax]
    BY <1>5, DrawnPidsTyped DEF RouteUnstorable
  <2>2. StoreInv'
    BY <1>5, StoreUntouched DEF RouteUnstorable
  <2>3. nextGen' \in 1..GenMax
    <3> DEFINE n == Cardinality(Eligible(tracked))
    <3>1. Eligible(tracked) \in SUBSET Sids
      BY <1>0 DEF Eligible
    <3>2. n \in Nat
      BY <3>1, SidSets, ConstantsOK
    <3>3. nextGen' = ((nextGen - 1 + n) % GenMax) + 1
      BY <1>5 DEF RouteUnstorable
    <3> HIDE DEF n
    <3>4. (nextGen - 1 + n) % GenMax \in 0..(GenMax - 1)
      BY SMTT(40), <1>0, <3>2, ConstantsOK
    <3> QED
      BY <3>3, <3>4, ConstantsOK
  <2> QED
    BY <1>0, <1>5, <2>1, <2>2, <2>3
    DEF RouteUnstorable, PsTypeOK, VacantSessionsIdle, StoreInv
<1>6. ASSUME NEW targets \in SUBSET live, NEW tracked \in SUBSET targets,
             NEW m \in Msgs, RouteTracked(targets, tracked, m)
      PROVE  PsInv'
  <2>1. nextPid' \in [Sids -> 0..PidMax]
    BY Zenon, <1>6, DrawnPidsTyped DEF RouteTracked
  <2>2. StoreInv'
    BY <1>6, TrackPreserves
  <2>3. nextGen' \in 1..GenMax
    BY <1>0, <1>6, ConstantsOK DEF RouteTracked, NextGen
  <2>4. VacantSessionsIdle'
    <3>1. Eligible(tracked) \subseteq live
      BY DEF Eligible
    <3> QED
      BY <1>0, <1>6, <3>1 DEF RouteTracked, VacantSessionsIdle
  <2> QED
    BY SMTT(40), <1>0, <1>6, <2>1, <2>2, <2>3, <2>4 DEF RouteTracked, PsTypeOK, StoreInv
<1>7. ASSUME NEW s \in Sids, NEW pid \in 1..PidMax, Puback(s, pid) PROVE PsInv'
  <2>1. StoreInv' /\ VacantSessionsIdle'
    <3>1. CASE UNCHANGED <<inflight, store>>
      BY <1>7, <3>1, StoreUntouched DEF Puback, VacantSessionsIdle
    <3>2. CASE \E e \in inflight[s] :
                 /\ inflight' = [inflight EXCEPT ![s] = @ \ {e}]
                 /\ store' = Release({e})
      <4>1. PICK e \in inflight[s] :
                 /\ inflight' = [inflight EXCEPT ![s] = @ \ {e}]
                 /\ store' = Release({e})
        BY Zenon, <3>2
      <4>2. {e} \in SUBSET inflight[s]
        OBVIOUS
      <4>3. StoreInv'
        BY Zenon, <4>1, <4>2, ReleasePreserves
      <4> QED
        BY <1>0, <1>7, <4>1, <4>3 DEF Puback, VacantSessionsIdle
    <3> QED
      BY <1>7, <3>1, <3>2 DEF Puback
  <2> QED
    BY <1>0, <1>7, <2>1 DEF Puback, PsTypeOK, StoreInv
<1>8. ASSUME NEW s \in Sids, NEW e \in inflight[s],
             Expire(s, e) \/ RetryBegin(s, e) \/ RetrySent(s, e)
      PROVE  PsInv'
  <2>0. e \in InflightEntry
    BY <1>0
  <2>1. CASE Expire(s, e)
    <3> DEFINE f == [e EXCEPT !.due = TRUE]
    <3>1. f \in InflightEntry /\ f.slot = e.slot /\ f.gen = e.gen /\ f.msg = e.msg
      BY Zenon, <2>0 DEF InflightEntry
    <3>2. Replace(s, e, f) /\ UNCHANGED <<live, nextPid, store, nextGen>>
      BY <2>1 DEF Expire
    <3> HIDE DEF f
    <3>3. StoreInv'
      BY <3>1, <3>2, ReplacePreserves
    <3> QED
      BY <1>0, <3>2, <3>3 DEF PsTypeOK, VacantSessionsIdle, StoreInv, Replace
  <2>2. CASE RetryBegin(s, e)
    <3> DEFINE n == IF e.retries > MaxRetries THEN e.retries ELSE e.retries + 1
               f == [e EXCEPT !.retries = n]
    <3>0. n \in 0..(MaxRetries + 1)
      BY <2>0, ConstantsOK DEF InflightEntry
    <3>1. f \in InflightEntry /\ f.slot = e.slot /\ f.gen = e.gen /\ f.msg = e.msg
      BY <2>0, <3>0, ConstantsOK DEF InflightEntry
    <3>2. Replace(s, e, f) /\ UNCHANGED <<live, nextPid, store, nextGen>>
      BY <2>2 DEF RetryBegin
    <3> HIDE DEF n, f
    <3>3. StoreInv'
      BY <3>1, <3>2, ReplacePreserves
    <3> QED
      BY <1>0, <3>2, <3>3 DEF PsTypeOK, VacantSessionsIdle, StoreInv, Replace
  <2>3. CASE RetrySent(s, e)
    <3> DEFINE f == [e EXCEPT !.due = FALSE]
    <3>1. f \in InflightEntry /\ f.slot = e.slot /\ f.gen = e.gen /\ f.msg = e.msg
      BY Zenon, <2>0 DEF InflightEntry
    <3>2. Replace(s, e, f) /\ UNCHANGED <<live, nextPid, store, nextGen>>
      BY <2>3 DEF RetrySent
    <3> HIDE DEF f
    <3>3. StoreInv'
      BY <3>1, <3>2, ReplacePreserves
    <3> QED
      BY <1>0, <3>2, <3>3 DEF PsTypeOK, VacantSessionsIdle, StoreInv, Replace
  <2> QED
    BY <1>8, <2>1, <2>2, <2>3
<1>9. CASE UNCHANGED psVars
  BY <1>9, StoreUntouched DEF psVars, PsTypeOK, VacantSessionsIdle
<1> QED
  BY Zenon, <1>1, <1>2, <1>3, <1>4, <1>5, <1>6, <1>7, <1>8, <1>9 DEF PsNext

(* The inductive invariant holds in every reachable state. *)
LEMMA PsInvariant == PsSpec => []PsInv
<1>1. PsInit => PsInv
  BY PsInitInv
<1>2. PsInv /\ [PsNext]_psVars => PsInv'
  BY PsStepInv
<1> QED
  BY <1>1, <1>2, PTL DEF PsSpec

(* Type correctness of the registry's store, inflight lists and counters,  *)
(* whatever the capacities and counter widths.                              *)
THEOREM PsTypeCorrect == PsSpec => []PsTypeOK
<1>1. PsInv => PsTypeOK
  BY DEF PsInv
<1> QED
  BY <1>1, PsInvariant, PTL

(* A retry always finds the publish its entry was created for: no           *)
(* interleaving of fan-outs, PUBACKs and session removals frees or reuses   *)
(* a slot of stored_publishes under a pending inflight entry.               *)
THEOREM RetriesResendOriginal == PsSpec => []RetryResendsOriginal
<1>1. PsInv => RetryResendsOriginal
  BY DEF PsInv, StoreInv
<1> QED
  BY <1>1, PsInvariant, PTL

(* StoredPublish.refcount is exactly the number of sessions whose inflight  *)
(* list names the slot.                                                     *)
THEOREM RefcountsExact == PsSpec => []RefcountExact
<1>1. PsInv => RefcountExact
  BY DEF PsInv, StoreInv
<1> QED
  BY <1>1, PsInvariant, PTL

(* A slot of stored_publishes is occupied exactly while a session holds it. *)
THEOREM NoPublishLeaks == PsSpec => []NoLeakedPublish
<1>1. PsInv => NoLeakedPublish
  <2> SUFFICES ASSUME PsInv, NEW k \in Slots
               PROVE  store[k].gen # 0 <=> Holders(k) # {}
    BY DEF NoLeakedPublish
  <2>1. Holders(k) \in SUBSET Sids
    BY DEF Holders
  <2>2. Cardinality(Holders(k)) = 0 <=> Holders(k) = {}
    BY <2>1, SidSets
  <2> QED
    BY <2>2 DEF PsInv, StoreInv, RefcountExact, VacantIffUncounted
<1> QED
  BY <1>1, PsInvariant, PTL

(* A session holds one entry per slot and only occupied slots, so its list  *)
(* is at most as long as the store is full: the length test before          *)
(* inflight_add never decides anything.                                     *)
THEOREM StoreFillsBeforeLists == PsSpec => []StoreFillsFirst
<1>1. PsInv => StoreFillsFirst
  <2> SUFFICES ASSUME PsInv, NEW k \in Vacant, NEW s \in Sids
               PROVE  Cardinality(inflight[s]) < MaxInflight
    BY DEF StoreFillsFirst
  <2> DEFINE f == [e \in inflight[s] |-> e.slot]
             Rest == Slots \ {k}
  <2>1. k \in Slots /\ store[k].gen = 0
    BY DEF Vacant
  <2>2. \A e \in inflight[s] : e.slot \in Rest
    BY <2>1, ConstantsOK
    DEF PsInv, StoreInv, RetryResendsOriginal, IsStored, InflightEntry
  <2>3. f \in Injection(inflight[s], Rest)
    BY <2>2 DEF Injection, IsInjective, PsInv, StoreInv, OneEntryPerSlot
  <2>4. IsFiniteSet(Slots) /\ Cardinality(Slots) = MaxInflight
    BY SMTT(40), <2>1, FS_Interval, ConstantsOK DEF Slots
  <2>5. IsFiniteSet(Rest) /\ Cardinality(Rest) = MaxInflight - 1
    BY Zenon, <2>1, <2>4, FS_RemoveElement
  <2>6. IsFiniteSet(inflight[s]) /\ Cardinality(inflight[s]) \in Nat
    BY FS_CardinalityType DEF PsInv, StoreInv, InflightFinite
  <2> HIDE DEF f, Rest
  <2>7. Cardinality(inflight[s]) <= Cardinality(Rest)
    BY <2>3, <2>5, <2>6, FS_Injection
  <2> QED
    BY <2>5, <2>6, <2>7, ConstantsOK
<1> QED
  BY <1>1, PsInvariant, PTL

(* Releasing references either frees a slot or leaves its publish in place. *)
LEMMA ReleaseKeepsPublish ==
  ASSUME StoreInv, NEW s \in Sids, NEW E \in SUBSET inflight[s],
         NEW k \in Slots
  PROVE  \/ Release(E)[k].gen = 0
         \/ Release(E)[k].gen = store[k].gen /\ Release(E)[k].msg = store[k].msg
<1>1. store[k] \in StoredPublish
  BY DEF StoreInv
<1>2. store[k].refcount \in Nat
  BY <1>1, ConstantsOK DEF StoredPublish
<1>3. CASE store[k].refcount <= 1
  <2>1. Release(E)[k] = store[k] \/ Release(E)[k] = NoPublish
    BY Zenon, <1>3, ReleaseTakesOne
  <2>2. NoPublish.gen = 0
    BY DEF NoPublish
  <2> QED
    BY <2>1, <2>2
<1>4. CASE store[k].refcount > 1
  <2> DEFINE q == [store[k] EXCEPT !.refcount = @ - 1]
  <2>1. q.gen = store[k].gen /\ q.msg = store[k].msg
    BY <1>1, <1>4, OneReferenceLess
  <2>2. Release(E)[k] = store[k] \/ Release(E)[k] = q
    BY <1>2, <1>4, ReleaseTakesOne
  <2> HIDE DEF q
  <2> QED
    BY <2>1, <2>2
<1> QED
  BY <1>2, <1>3, <1>4

(* No step of the registry replaces one stored publish by another in the    *)
(* same slot, so a handle never changes what it refers to.                  *)
THEOREM SlotReuseVisible == PsSpec => SlotReuseIsVisible
<1> DEFINE Kept == \A k \in Slots :
             store[k].gen # 0 /\ store'[k].gen # 0
               => store'[k].msg = store[k].msg /\ store'[k].gen = store[k].gen
<1>1. PsInv /\ [PsNext]_psVars => [Kept]_psVars
  <2> SUFFICES ASSUME PsInv, PsNext PROVE Kept
    OBVIOUS
  <2>1. CASE UNCHANGED store
    BY <2>1
  <2>2. CASE \E s \in Sids : \E E \in SUBSET inflight[s] : store' = Release(E)
    BY <2>2, ReleaseKeepsPublish DEF PsInv
  <2>3. CASE \E k \in Vacant : \E p : store' = [store EXCEPT ![k] = p]
    BY <2>3 DEF PsInv, PsTypeOK, Vacant
  <2>4. \/ UNCHANGED store
        \/ \E s \in Sids : \E E \in SUBSET inflight[s] : store' = Release(E)
        \/ \E k \in Vacant : \E p : store' = [store EXCEPT ![k] = p]
    <3>1. ASSUME NEW s \in Sids, RemoveSession(s)
          PROVE  \E E \in SUBSET inflight[s] : store' = Release(E)
      BY <3>1 DEF RemoveSession
    <3>2. ASSUME NEW s \in Sids, NEW t \in Sids, ReplaceSession(s, t)
          PROVE  \E E \in SUBSET inflight[s] : store' = Release(E)
      BY <3>2 DEF ReplaceSession
    <3>3. ASSUME NEW s \in Sids, NEW pid \in 1..PidMax, Puback(s, pid)
          PROVE  UNCHANGED store
                 \/ \E E \in SUBSET inflight[s] : store' = Release(E)
      BY Zenon, <3>3 DEF Puback
    <3>4. ASSUME NEW targets, NEW tracked, NEW m,
                 RouteTracked(targets, tracked, m)
          PROVE  \E k \in Vacant : \E p : store' = [store EXCEPT ![k] = p]
      BY Zenon, <3>4 DEF RouteTracked
    <3> QED
      BY Zenon, <3>1, <3>2, <3>3, <3>4
      DEF PsNext, InsertSession, RouteUntracked, RouteUnstorable, Expire,
          RetryBegin, RetrySent
  <2> QED
    BY <2>1, <2>2, <2>3, <2>4
<1> QED
  BY <1>1, PsInvariant, PTL DEF PsSpec, SlotReuseIsVisible
-----------------------------------------------------------------------------
(* An entry with the publish that it was made for.  It does not depend on   *)
(* the store.                                                               *)
OwnView(e) == [place |-> e.slot, pid |-> e.pid, msg |-> e.msg,
               retries |-> e.retries, due |-> e.due]

(* What a retry would send is what the entry was made for, so a session's   *)
(* view of its entries does not depend on the store.                        *)
LEMMA ViewsOwn == PsInv => \A s \in Sids : Views(s) = {OwnView(e) : e \in inflight[s]}
<1> SUFFICES ASSUME PsInv
             PROVE  \A s \in Sids : Views(s) = {OwnView(e) : e \in inflight[s]}
  OBVIOUS
<1>1. ASSUME NEW s \in Sids, NEW e \in inflight[s] PROVE View(e) = OwnView(e)
  <2>1. store[e.slot].msg = e.msg
    BY Zenon DEF PsInv, StoreInv, RetryResendsOriginal
  <2> QED
    BY Zenon, <2>1 DEF View, OwnView
<1> QED
  BY Zenon, <1>1 DEF Views

(* The same of the state after a step. *)
LEMMA ViewsOwnNext ==
  PsInv' => (\A s \in Sids : Views(s) = {OwnView(e) : e \in inflight[s]})'
  BY ViewsOwn, PTL

(* Entries of one session are told apart by their places. *)
LEMMA OwnViewsDiffer ==
  ASSUME PsInv, NEW s \in Sids, NEW e \in inflight[s], NEW f \in inflight[s],
         OwnView(e) = OwnView(f)
  PROVE  e = f
<1>1. OwnView(e).place = e.slot /\ OwnView(f).place = f.slot
  BY DEF OwnView
<1>2. e.slot = f.slot
  BY <1>1
<1> QED
  BY Zenon, <1>2 DEF PsInv, StoreInv, OneEntryPerSlot

(* A session that drops an entry drops its copy; one that replaces it by    *)
(* another replaces the copy.                                               *)
LEMMA EntryReplaced ==
  ASSUME PsInv, PsInv', NEW s \in Sids, NEW e \in inflight[s], NEW F,
         inflight' = [inflight EXCEPT ![s] = (@ \ {e}) \cup F]
  PROVE  [t \in Sids |-> Views(t)]' =
           [[t \in Sids |-> Views(t)] EXCEPT ![s] =
              (@ \ {OwnView(e)}) \cup {OwnView(f) : f \in F}]
<1> DEFINE own(E) == {OwnView(x) : x \in E}
<1>1. inflight \in [Sids -> SUBSET InflightEntry]
  BY DEF PsInv, StoreInv
<1>2. inflight'[s] = (inflight[s] \ {e}) \cup F
  BY Zenon, <1>1
<1>3. \A t \in Sids \ {s} : inflight'[t] = inflight[t]
  BY Zenon, <1>1
<1>4. \A t \in Sids : Views(t) = own(inflight[t]) /\ Views(t)' = own(inflight'[t])
  BY Zenon, ViewsOwn, ViewsOwnNext
<1>5. own(inflight'[s]) = (own(inflight[s]) \ {OwnView(e)}) \cup own(F)
  <2>1. ASSUME NEW x \in inflight[s], OwnView(x) = OwnView(e) PROVE x = e
    BY Zenon, <2>1, OwnViewsDiffer
  <2> QED
    BY Zenon, <1>2, <2>1
<1> HIDE DEF own
<1>6. Views(s)' = (Views(s) \ {OwnView(e)}) \cup own(F)
  BY Zenon, <1>4, <1>5
<1>7. \A t \in Sids \ {s} : Views(t)' = Views(t)
  BY Zenon, <1>3, <1>4
<1> QED
  BY Zenon, <1>6, <1>7 DEF own

(* Sessions that come and go empty their copies, and no others. *)
LEMMA SessionsEmptied ==
  ASSUME PsInv, PsInv', NEW s \in Sids, NEW t \in Sids,
         inflight' = [inflight EXCEPT ![s] = {}, ![t] = {}]
  PROVE  [x \in Sids |-> Views(x)]' =
           [[x \in Sids |-> Views(x)] EXCEPT ![s] = {}, ![t] = {}]
<1>1. inflight \in [Sids -> SUBSET InflightEntry]
  BY DEF PsInv, StoreInv
<1>2. inflight'[s] = {} /\ inflight'[t] = {}
  BY Zenon, <1>1
<1>3. \A x \in Sids \ {s, t} : inflight'[x] = inflight[x]
  BY Zenon, <1>1
<1>4. Views(s)' = {} /\ Views(t)' = {}
  BY Zenon, <1>2 DEF Views
<1>5. \A x \in Sids \ {s, t} : Views(x)' = Views(x)
  BY Zenon, <1>3, ViewsOwn, ViewsOwnNext
<1> QED
  BY Zenon, <1>4, <1>5

(* The fan-out of a tracked publish: each of its holders gets a copy. *)
LEMMA FanoutCopies ==
  ASSUME PsInv, PsInv', NEW targets \in SUBSET live, NEW tracked \in SUBSET targets,
         NEW m \in Msgs, RouteTracked(targets, tracked, m)
  PROVE  Copies!Deliver(targets, Eligible(tracked), m)
<1> DEFINE keepers == Eligible(tracked)
<1>1. PICK k \in Vacant :
        inflight' = [s \in Sids |-> IF s \in keepers THEN inflight[s] \cup {NewEntry(s, k, m)}
                                   ELSE inflight[s]]
  BY Zenon DEF RouteTracked
<1>2. keepers \subseteq Sids /\ k \in Slots /\ store[k].gen = 0
  BY Zenon DEF Eligible, Vacant, PsInv, PsTypeOK
<1>3. ASSUME NEW s \in keepers, NEW c \in Views(s) PROVE c.place # k
  <2>1. PICK e \in inflight[s] : c = View(e)
    BY Zenon DEF Views
  <2>2. c.place = e.slot
    BY <2>1 DEF View
  <2>3. e \in InflightEntry /\ store[e.slot].gen = e.gen
    BY Zenon, <1>2 DEF PsInv, StoreInv, RetryResendsOriginal, IsStored
  <2>4. e.gen # 0
    BY <2>3, ConstantsOK DEF InflightEntry
  <2> QED
    BY Zenon, <1>2, <2>2, <2>3, <2>4
<1>4. \A s \in Sids :
        OwnView(NewEntry(s, k, m)) = Copies!CopyOf(m, k, Copies!Drawn(nextPid[s]))
  BY DEF OwnView, NewEntry, NextPacketId, Copies!CopyOf, Copies!Drawn
<1> HIDE DEF keepers
<1>5. ASSUME NEW s \in Sids
      PROVE  Views(s)' = IF s \in keepers
                         THEN Views(s) \cup {Copies!CopyOf(m, k, Copies!Drawn(nextPid[s]))}
                         ELSE Views(s)
  <2>1. Views(s)' = {OwnView(e) : e \in inflight'[s]}
    BY Zenon, ViewsOwnNext
  <2>2. Views(s) = {OwnView(e) : e \in inflight[s]}
    BY Zenon, ViewsOwn
  <2>3. CASE s \in keepers
    <3>1. inflight'[s] = inflight[s] \cup {NewEntry(s, k, m)}
      BY Zenon, <1>1, <2>3
    <3>2. Views(s)' = Views(s) \cup {OwnView(NewEntry(s, k, m))}
      BY Zenon, <2>1, <2>2, <3>1
    <3> QED
      BY Zenon, <1>4, <2>3, <3>2
  <2>4. CASE s \notin keepers
    <3>1. inflight'[s] = inflight[s]
      BY Zenon, <1>1, <2>4
    <3> QED
      BY Zenon, <2>1, <2>2, <2>4, <3>1
  <2> QED
    BY Zenon, <2>3, <2>4
<1> DEFINE at == [s \in keepers |-> k]
<1>6. at \in [keepers -> Slots]
  BY Zenon, <1>2
<1>7. \A s \in keepers : at[s] = k
  BY Zenon
<1> HIDE DEF at
<1>8. nextPid' = [s \in Sids |-> IF s \in targets THEN Copies!Drawn(nextPid[s])
                                ELSE nextPid[s]]
      /\ live' = live
  BY Zenon DEF RouteTracked, DrawPids, NextPacketId, Copies!Drawn
<1>9. \A s \in keepers : \A c \in [x \in Sids |-> Views(x)][s] : c.place # at[s]
  BY Zenon, <1>2, <1>3, <1>7
<1>10. [s \in Sids |-> Views(s)]' =
         [s \in Sids |->
            IF s \in keepers
            THEN [x \in Sids |-> Views(x)][s]
                   \cup {Copies!CopyOf(m, at[s], Copies!Drawn(nextPid[s]))}
            ELSE [x \in Sids |-> Views(x)][s]]
  BY Zenon, <1>5, <1>7
<1> QED
  BY Zenon, <1>6, <1>8, <1>9, <1>10 DEF Copies!Deliver, keepers

(* A changed deadline shows in the copy. *)
LEMMA OwnViewDue ==
  ASSUME NEW e \in InflightEntry, NEW d
  PROVE  OwnView([e EXCEPT !.due = d]) = [OwnView(e) EXCEPT !.due = d]
  BY DEF OwnView, InflightEntry

(* What happens to an entry happens to its copy. *)
LEMMA EntryHandled ==
  ASSUME PsInv, PsInv', NEW s \in Sids, NEW e \in inflight[s],
         UNCHANGED <<live, nextPid>>,
         \/ inflight' = [inflight EXCEPT ![s] = @ \ {e}]
         \/ ~e.due /\ Replace(s, e, [e EXCEPT !.due = TRUE])
         \/ e.due /\ Replace(s, e, [e EXCEPT !.retries = IF @ > MaxRetries THEN @ ELSE @ + 1])
         \/ /\ e.due /\ e.retries \in 1..MaxRetries
            /\ Replace(s, e, [e EXCEPT !.due = FALSE])
  PROVE  \E c \in Views(s) : Copies!Handle(s, c)
<1> DEFINE c == OwnView(e)
           n == IF e.retries > MaxRetries THEN e.retries ELSE e.retries + 1
<1>1. c \in Views(s)
  BY Zenon, ViewsOwn
<1>2. e \in InflightEntry
  BY DEF PsInv, StoreInv
<1>3. c.due = e.due /\ c.retries = e.retries
  BY DEF OwnView
<1>4. SUFFICES Copies!Handle(s, c)
  BY Zenon, <1>1
<1>5. CASE inflight' = [inflight EXCEPT ![s] = @ \ {e}]
  <2>1. inflight' = [inflight EXCEPT ![s] = (@ \ {e}) \cup {}]
    BY Zenon, <1>5
  <2>2. [t \in Sids |-> Views(t)]' =
          [[t \in Sids |-> Views(t)] EXCEPT ![s] =
             (@ \ {c}) \cup {OwnView(f) : f \in {}}]
    BY Zenon, <2>1, EntryReplaced
  <2>3. [t \in Sids |-> Views(t)]' = [[t \in Sids |-> Views(t)] EXCEPT ![s] = @ \ {c}]
    BY Zenon, <2>2
  <2> QED
    BY Zenon, <2>3 DEF Copies!Handle, Copies!Drop
<1>6. ASSUME NEW f, Replace(s, e, f) PROVE Copies!Become(s, c, OwnView(f))
  <2>1. inflight' = [inflight EXCEPT ![s] = (@ \ {e}) \cup {f}]
    BY Zenon, <1>6 DEF Replace
  <2>2. [t \in Sids |-> Views(t)]' =
          [[t \in Sids |-> Views(t)] EXCEPT ![s] =
             (@ \ {c}) \cup {OwnView(x) : x \in {f}}]
    BY Zenon, <2>1, EntryReplaced
  <2>3. {OwnView(x) : x \in {f}} = {OwnView(f)}
    BY Zenon
  <2> QED
    BY Zenon, <2>2, <2>3 DEF Copies!Become
<1>7. CASE ~e.due /\ Replace(s, e, [e EXCEPT !.due = TRUE])
  <2>1. OwnView([e EXCEPT !.due = TRUE]) = [c EXCEPT !.due = TRUE]
    BY Zenon, <1>2, OwnViewDue
  <2> HIDE DEF c
  <2> QED
    BY Zenon, <1>3, <1>6, <1>7, <2>1 DEF Copies!Handle
<1>8. CASE e.due /\ Replace(s, e, [e EXCEPT !.retries = n])
  <2>1. OwnView([e EXCEPT !.retries = n]) = [c EXCEPT !.retries = n]
    BY <1>2 DEF OwnView, InflightEntry
  <2>2. n = IF c.retries > MaxRetries THEN c.retries ELSE c.retries + 1
    BY Zenon, <1>3
  <2> HIDE DEF c, n
  <2>3. OwnView([e EXCEPT !.retries = n])
          = [c EXCEPT !.retries = IF @ > MaxRetries THEN @ ELSE @ + 1]
    BY Zenon, <2>1, <2>2
  <2>4. Copies!Become(s, c, OwnView([e EXCEPT !.retries = n]))
    BY Zenon, <1>6, <1>8
  <2>5. Copies!Become(s, c, [c EXCEPT !.retries = IF @ > MaxRetries THEN @ ELSE @ + 1])
    BY Zenon, <2>3, <2>4 DEF Copies!Become
  <2>6. c.due
    BY Zenon, <1>3, <1>8
  <2> QED
    BY Zenon, <2>5, <2>6 DEF Copies!Handle
<1>9. CASE /\ e.due /\ e.retries \in 1..MaxRetries
           /\ Replace(s, e, [e EXCEPT !.due = FALSE])
  <2>1. OwnView([e EXCEPT !.due = FALSE]) = [c EXCEPT !.due = FALSE]
    BY Zenon, <1>2, OwnViewDue
  <2> HIDE DEF c
  <2> QED
    BY Zenon, <1>3, <1>6, <1>9, <2>1 DEF Copies!Handle
<1> QED
  BY Zenon, <1>5, <1>7, <1>8, <1>9

(* Every step of the registry is a step on private copies. *)
LEMMA CopyStep ==
  ASSUME PsInv, PsInv', PsNext
  PROVE  Copies!CopyNext \/ UNCHANGED Copies!copyVars
<1>0. inflight \in [Sids -> SUBSET InflightEntry] /\ live \subseteq Sids
  BY DEF PsInv, PsTypeOK
<1>1. ASSUME NEW targets \in SUBSET live, NEW tracked \in SUBSET targets,
             RouteUntracked(targets, tracked) \/ RouteUnstorable(targets, tracked)
      PROVE  Copies!Forward(targets)
  <2>1. inflight' = inflight /\ live' = live /\ DrawPids(targets)
    BY Zenon, <1>1 DEF RouteUntracked, RouteUnstorable
  <2>2. \A s \in Sids : Views(s)' = Views(s)
    BY Zenon, <2>1, ViewsOwn, ViewsOwnNext
  <2>3. [s \in Sids |-> Views(s)]' = [s \in Sids |-> Views(s)]
    BY Zenon, <2>2
  <2> QED
    BY Zenon, <2>1, <2>3 DEF DrawPids, NextPacketId, Copies!Forward, Copies!Drawn
<1>2. ASSUME NEW targets \in SUBSET live, NEW tracked \in SUBSET targets, NEW m \in Msgs,
             RouteTracked(targets, tracked, m)
      PROVE  Copies!Deliver(targets, Eligible(tracked), m)
             /\ Eligible(tracked) \in SUBSET targets
  BY Zenon, <1>2, FanoutCopies DEF Eligible
<1>3. ASSUME NEW s \in Sids, InsertSession(s) PROVE Copies!Begin(s)
  <2>1. inflight' = [inflight EXCEPT ![s] = {}, ![s] = {}]
    BY Zenon, <1>0, <1>3 DEF InsertSession
  <2>2. [x \in Sids |-> Views(x)]' = [[x \in Sids |-> Views(x)] EXCEPT ![s] = {}, ![s] = {}]
    BY Zenon, <2>1, SessionsEmptied
  <2>3. [x \in Sids |-> Views(x)]' = [[x \in Sids |-> Views(x)] EXCEPT ![s] = {}]
    BY Zenon, <2>2
  <2> QED
    BY Zenon, <1>3, <2>3 DEF InsertSession, Copies!Begin
<1>4. ASSUME NEW s \in Sids, RemoveSession(s) PROVE Copies!End(s)
  <2>1. inflight' = [inflight EXCEPT ![s] = {}, ![s] = {}]
    BY Zenon, <1>0, <1>4 DEF RemoveSession
  <2>2. [x \in Sids |-> Views(x)]' = [[x \in Sids |-> Views(x)] EXCEPT ![s] = {}, ![s] = {}]
    BY Zenon, <2>1, SessionsEmptied
  <2>3. [x \in Sids |-> Views(x)]' = [[x \in Sids |-> Views(x)] EXCEPT ![s] = {}]
    BY Zenon, <2>2
  <2> QED
    BY Zenon, <1>4, <2>3 DEF RemoveSession, Copies!End
<1>5. ASSUME NEW s \in Sids, NEW t \in Sids, ReplaceSession(s, t) PROVE Copies!Restart(s, t)
  <2>1. [x \in Sids |-> Views(x)]' = [[x \in Sids |-> Views(x)] EXCEPT ![s] = {}, ![t] = {}]
    BY Zenon, <1>5, SessionsEmptied DEF ReplaceSession
  <2> QED
    BY Zenon, <1>5, <2>1 DEF ReplaceSession, Copies!Restart
<1>6. ASSUME NEW s \in Sids, NEW pid \in 1..PidMax, Puback(s, pid)
      PROVE  \/ UNCHANGED Copies!copyVars
             \/ \E c \in Views(s) : Copies!Handle(s, c)
  <2>1. CASE inflight' = inflight
    <3>1. \A x \in Sids : Views(x)' = Views(x)
      BY Zenon, <2>1, ViewsOwn, ViewsOwnNext
    <3>2. [x \in Sids |-> Views(x)]' = [x \in Sids |-> Views(x)]
      BY Zenon, <3>1
    <3> QED
      BY Zenon, <1>6, <3>2 DEF Puback, Copies!copyVars
  <2>2. CASE \E e \in inflight[s] : inflight' = [inflight EXCEPT ![s] = @ \ {e}]
    BY Zenon, <1>6, <2>2, EntryHandled DEF Puback
  <2> QED
    BY Zenon, <1>6, <2>1, <2>2 DEF Puback
<1>7. ASSUME NEW s \in Sids, NEW e \in inflight[s],
             Expire(s, e) \/ RetryBegin(s, e) \/ RetrySent(s, e)
      PROVE  \E c \in Views(s) : Copies!Handle(s, c)
  BY Zenon, <1>7, EntryHandled DEF Expire, RetryBegin, RetrySent
<1>8. ASSUME NEW s \in Sids, \E c \in Views(s) : Copies!Handle(s, c) PROVE Copies!CopyNext
  <2>1. [x \in Sids |-> Views(x)][s] = Views(s)
    BY Zenon
  <2> QED
    BY Zenon, <1>8, <2>1 DEF Copies!CopyNext
<1>9. ASSUME NEW targets \in SUBSET live, NEW tracked \in SUBSET targets,
             \/ RouteUntracked(targets, tracked)
             \/ RouteUnstorable(targets, tracked)
             \/ \E m \in Msgs : RouteTracked(targets, tracked, m)
      PROVE  Copies!CopyNext
  <2>1. CASE RouteUntracked(targets, tracked) \/ RouteUnstorable(targets, tracked)
    <3>1. Copies!Forward(targets)
      BY Zenon, <1>1, <2>1
    <3> QED
      BY Zenon, <3>1 DEF Copies!CopyNext
  <2>2. CASE \E m \in Msgs : RouteTracked(targets, tracked, m)
    <3>1. PICK m \in Msgs : RouteTracked(targets, tracked, m)
      BY Zenon, <2>2
    <3>2. Copies!Deliver(targets, Eligible(tracked), m)
      BY Zenon, <1>2, <3>1
    <3>3. Eligible(tracked) \in SUBSET targets
      BY Zenon, <1>2, <3>1
    <3> QED
      BY Zenon, <3>2, <3>3 DEF Copies!CopyNext
  <2> QED
    BY Zenon, <1>9, <2>1, <2>2
<1>10. ASSUME NEW s \in Sids, InsertSession(s) \/ RemoveSession(s) PROVE Copies!CopyNext
  BY Zenon, <1>3, <1>4, <1>10 DEF Copies!CopyNext
<1>11. ASSUME NEW s \in Sids, NEW t \in Sids, ReplaceSession(s, t) PROVE Copies!CopyNext
  BY Zenon, <1>5, <1>11 DEF Copies!CopyNext
<1> QED
  BY Zenon, <1>6, <1>7, <1>8, <1>9, <1>10, <1>11 DEF PsNext

(* The shared store implements private copies, for any number of sessions   *)
(* and slots and any width of the counters: one session never notices what  *)
(* others do with a publish that they hold together.                        *)
THEOREM StoreActsAsCopies == PsSpec => PrivateCopies
<1>1. PsInit => Copies!CopyInit
  <2> SUFFICES ASSUME PsInit PROVE Copies!CopyInit
    OBVIOUS
  <2>1. \A s \in Sids : Views(s) = {}
    BY Zenon DEF PsInit, Views
  <2> QED
    BY Zenon, <2>1 DEF PsInit, Copies!CopyInit
<1>2. PsInv /\ PsInv' /\ [PsNext]_psVars => [Copies!CopyNext]_(Copies!copyVars)
  <2>1. CASE UNCHANGED psVars
    BY Zenon, <2>1 DEF psVars, Copies!copyVars, Views, View
  <2> QED
    BY Zenon, <2>1, CopyStep
<1> QED
  BY <1>1, <1>2, PsInvariant, PTL DEF PsSpec, PrivateCopies, Copies!CopySpec
=============================================================================
