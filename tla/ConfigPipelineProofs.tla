------------------------ MODULE ConfigPipelineProofs ------------------------
(***************************************************************************)
(* Proofs about the configuration pipeline: of the update machine          *)
(* (ConfigUpdate), for every number of slots and every largest version; of *)
(* the compiler (ConfigCompiler), for every configuration; and of both put *)
(* together (ConfigPipeline), for every plan.                              *)
(***************************************************************************)
EXTENDS ConfigPipeline, WellFoundedInduction, TLAPS

-----------------------------------------------------------------------------
(* The update machine: the active configuration survives every failed or    *)
(* interrupted update, and updates are atomic and only move forward.        *)

Preparing == {"compile", "canonical", "canonicalWrite", "compiled",
              "compiledWrite", "discard", "prepared"}

(* While a candidate is being prepared it is in a spare slot and newer.     *)
CandidateIsSpare ==
  step \in Preparing =>
    /\ ram.candidate.slot \in SlotIds \ {pointer}
    /\ ram.candidate.version > ActiveVersion

(* The compiled blob is written after the canonical one. *)
CanonicalFirst ==
  step \in {"compiled", "compiledWrite"} =>
    blob[ram.candidate.slot]["canonical"] = Good(ram.candidate.version)

(* What activate_prepared is going to make active is complete: both blobs   *)
(* of the candidate slot were written by the same prepare_update.           *)
PreparedIsComplete ==
  step \in {"prepared", "activated"} =>
    \A k \in Kinds : blob[ram.candidate.slot][k] = Good(ram.candidate.version)

(* The inductive invariant. *)
CfgInv ==
  /\ CfgTypeOK
  /\ ActiveSlotIntact
  /\ PreparedIsComplete
  /\ StateMatchesStore
  /\ CandidateIsSpare
  /\ CanonicalFirst

(* Facts about the blob and state values that the steps below share. *)
LEMMA BlobValues ==
  /\ Empty \in Blob /\ Torn \in Blob
  /\ \A v \in Versions : Good(v) \in Blob /\ Good(v).version = v
                         /\ Good(v).state = "good"
  /\ Empty.version = 0 /\ Empty.state = "empty"
  /\ 0 \in Versions
  /\ \A s \in SlotIds \cup {0}, v \in Versions : New(s, v) \in ActiveSlotState
  BY ConfigConstantsOK
  DEF Empty, Torn, Good, Blob, Versions, New, ActiveSlotState, Candidate,
      NoCandidate

(* Opening or dropping a candidate leaves the active slot and version in    *)
(* ActiveSlotState alone.                                                   *)
LEMMA CandidateUpdate ==
  ASSUME NEW r \in ActiveSlotState, NEW c \in Candidate
  PROVE  LET q == [r EXCEPT !.candidate = c]
         IN  /\ q \in ActiveSlotState
             /\ q.slot = r.slot /\ q.version = r.version /\ q.candidate = c
  BY DEF ActiveSlotState

(* A new device satisfies the invariant, with or without a configuration. *)
LEMMA CfgInitInv == CfgInit => CfgInv
<1> SUFFICES ASSUME CfgInit PROVE CfgInv
  OBVIOUS
<1>1. PICK s \in SlotIds, v \in Versions :
        /\ blob = [t \in SlotIds |-> [k \in Kinds |->
                     IF t = s /\ v # 0 THEN Good(v) ELSE Empty]]
        /\ pointer = s /\ ram = NoRam /\ step = "off"
  BY DEF CfgInit
<1>2. CfgTypeOK
  BY <1>1, BlobValues DEF CfgTypeOK, Steps, NoRam
<1>3. ActiveSlotIntact
  BY <1>1, BlobValues DEF ActiveSlotIntact, ActiveVersion, Kinds
<1> QED
  BY <1>1, <1>2, <1>3
  DEF CfgInv, PreparedIsComplete, StateMatchesStore, CandidateIsSpare,
      CanonicalFirst, Preparing

(* Writing to the candidate slot does not reach the active one. *)
LEMMA SpareWrite ==
  ASSUME CfgInv, step \in Preparing, NEW b \in [Kinds -> Blob],
         blob' = [blob EXCEPT ![ram.candidate.slot] = b], UNCHANGED pointer
  PROVE  /\ blob' \in [SlotIds -> [Kinds -> Blob]]
         /\ blob'[pointer] = blob[pointer]
         /\ blob'[ram.candidate.slot] = b
         /\ ActiveVersion' = ActiveVersion
         /\ ActiveSlotIntact'
<1>1. ram.candidate.slot \in SlotIds \ {pointer}
  BY DEF CfgInv, CandidateIsSpare
<1>2. blob \in [SlotIds -> [Kinds -> Blob]] /\ pointer \in SlotIds
  BY DEF CfgInv, CfgTypeOK
<1>3. blob'[pointer] = blob[pointer]
  BY <1>1, <1>2
<1> QED
  BY <1>1, <1>2, <1>3 DEF CfgInv, ActiveVersion, ActiveSlotIntact

(* Every step of the updater, every boot and every power cut preserves the  *)
(* inductive invariant.                                                     *)
LEMMA CfgStepInv == CfgInv /\ [CfgNext]_cfgVars => CfgInv'
<1> SUFFICES ASSUME CfgInv, [CfgNext]_cfgVars PROVE CfgInv'
  OBVIOUS
<1>0. /\ blob \in [SlotIds -> [Kinds -> Blob]] /\ pointer \in SlotIds
      /\ ram \in ActiveSlotState /\ step \in Steps
      /\ ram.candidate \in Candidate
      /\ ram.candidate.version \in Versions
  BY DEF CfgInv, CfgTypeOK, ActiveSlotState, Candidate
<1>01. ActiveVersion \in Versions
  BY <1>0 DEF ActiveVersion, Blob, Kinds
<1>02. ASSUME UNCHANGED <<blob, pointer>>
       PROVE  /\ ActiveVersion' = ActiveVersion /\ ActiveSlotIntact'
              /\ blob' \in [SlotIds -> [Kinds -> Blob]] /\ pointer' \in SlotIds
  BY <1>0, <1>02 DEF CfgInv, ActiveVersion, ActiveSlotIntact
<1>1. ASSUME NEW schema \in Schemas, NEW version \in Versions,
             Boot(schema, version)
      PROVE  CfgInv'
  <2>1. \/ step' = "safe" /\ ram' = ram
        \/ step' = "idle" /\ ram' = New(pointer, ActiveVersion)
    <3>1. blob[pointer]["compiled"].state = "empty" => ActiveVersion = 0
      BY <1>01, BlobValues DEF CfgInv, ActiveSlotIntact, ActiveVersion, Kinds
    <3> QED
      BY <1>1, <3>1 DEF Boot, Goto, ActiveVersion
  <2>2. UNCHANGED <<blob, pointer>>
    BY <1>1 DEF Boot
  <2>3. New(pointer, ActiveVersion) \in ActiveSlotState
        /\ New(pointer, ActiveVersion).slot = pointer
        /\ New(pointer, ActiveVersion).version = ActiveVersion
    BY <1>0, <1>01, BlobValues DEF New
  <2>4. CfgTypeOK'
    BY <1>0, <1>02, <2>1, <2>2, <2>3 DEF CfgTypeOK, Steps
  <2> QED
    BY <1>02, <2>1, <2>2, <2>3, <2>4
    DEF CfgInv, PreparedIsComplete, StateMatchesStore, CandidateIsSpare,
        CanonicalFirst, Preparing
<1>2. CASE BootReadFails \/ PowerCut
  <2>1. /\ step' \in {"off", "safe"} /\ UNCHANGED <<blob, pointer>>
        /\ ram' \in ActiveSlotState
    BY Zenon, <1>0, <1>2, BlobValues DEF BootReadFails, PowerCut, Goto, NoRam
  <2> QED
    BY <1>02, <2>1
    DEF CfgInv, CfgTypeOK, PreparedIsComplete, StateMatchesStore,
        CandidateIsSpare, CanonicalFirst, Preparing, Steps
<1>3. ASSUME NEW slot \in SlotIds, NEW version \in Versions,
             BeginCandidate(slot, version)
      PROVE  CfgInv'
  <2> DEFINE c == [slot |-> slot, version |-> version]
  <2>1. c \in Candidate /\ c.slot = slot /\ c.version = version
    BY DEF Candidate
  <2>2. /\ step = "idle" /\ step' = "compile" /\ UNCHANGED <<blob, pointer>>
        /\ version > ram.version /\ slot # ram.slot
        /\ ram' = [ram EXCEPT !.candidate = c]
    BY <1>3 DEF BeginCandidate, Goto
  <2> HIDE DEF c
  <2>3. /\ ram' \in ActiveSlotState /\ ram'.slot = ram.slot
        /\ ram'.version = ram.version /\ ram'.candidate = c
    BY <1>0, <2>1, <2>2, CandidateUpdate
  <2>4. ram.slot = pointer /\ ram.version = ActiveVersion
    BY <2>2 DEF CfgInv, StateMatchesStore
  <2> QED
    BY <1>02, <2>1, <2>2, <2>3, <2>4
    DEF CfgInv, CfgTypeOK, PreparedIsComplete, StateMatchesStore,
        CandidateIsSpare, CanonicalFirst, Preparing, Steps
<1>4. CASE \E from \in Preparing : DiscardCandidate(from) /\ UNCHANGED <<blob, pointer>>
  <2>1. /\ step \in Preparing /\ step' = "idle" /\ UNCHANGED <<blob, pointer>>
        /\ ram' = [ram EXCEPT !.candidate = NoCandidate]
    BY <1>4 DEF DiscardCandidate, Goto
  <2>2. NoCandidate \in Candidate
    BY BlobValues DEF NoCandidate, Candidate
  <2>3. /\ ram' \in ActiveSlotState /\ ram'.slot = ram.slot
        /\ ram'.version = ram.version
    BY <1>0, <2>1, <2>2, CandidateUpdate
  <2>4. ram.slot = pointer /\ ram.version = ActiveVersion
    BY <2>1 DEF CfgInv, StateMatchesStore, Preparing
  <2> QED
    BY <1>02, <2>1, <2>3, <2>4
    DEF CfgInv, CfgTypeOK, PreparedIsComplete, StateMatchesStore,
        CandidateIsSpare, CanonicalFirst, Preparing, Steps
<1>5. CASE Compiles \/ EncodeFails \/ WriteFails
  BY <1>0, <1>02, <1>5
  DEF Compiles, EncodeFails, WriteFails, Goto, CfgInv, CfgTypeOK,
      PreparedIsComplete, StateMatchesStore, CandidateIsSpare, CanonicalFirst,
      Preparing, Steps
<1>6. CASE WriteBegins \/ WriteEnds
  <2> DEFINE s == ram.candidate.slot
             v == ram.candidate.version
  <2>1. PICK k \in Kinds, b \in {Torn, Good(v)} :
          blob' = [blob EXCEPT ![s] = [blob[s] EXCEPT ![k] = b]]
          /\ (step = "canonical" => k = "canonical" /\ step' = "canonicalWrite")
          /\ (step = "canonicalWrite" =>
                k = "canonical" /\ step' = "compiled" /\ b = Good(v))
          /\ (step = "compiled" => k = "compiled" /\ step' = "compiledWrite")
          /\ (step = "compiledWrite" =>
                k = "compiled" /\ step' = "prepared" /\ b = Good(v))
    BY <1>0, <1>6 DEF WriteBegins, WriteEnds, Goto, SetBlob, Kinds
  <2>2. /\ step \in {"canonical", "canonicalWrite", "compiled", "compiledWrite"}
        /\ UNCHANGED <<pointer, ram>>
    BY <1>6 DEF WriteBegins, WriteEnds, Goto
  <2>3. s \in SlotIds \ {pointer} /\ v > ActiveVersion
        /\ ram.slot = pointer /\ ram.version = ActiveVersion
    BY <2>2 DEF CfgInv, CandidateIsSpare, StateMatchesStore, Preparing
  <2>4. [blob[s] EXCEPT ![k] = b] \in [Kinds -> Blob]
    BY <1>0, <2>3, BlobValues
  <2>5. /\ blob' \in [SlotIds -> [Kinds -> Blob]]
        /\ ActiveVersion' = ActiveVersion /\ ActiveSlotIntact'
        /\ blob'[s] = [blob[s] EXCEPT ![k] = b]
    BY Zenon, <2>1, <2>2, <2>4, SpareWrite DEF Preparing
  <2>6. blob'[s][k] = b /\ \A j \in Kinds \ {k} : blob'[s][j] = blob[s][j]
    BY <1>0, <2>3, <2>5
  <2>7. step \in {"compiled", "compiledWrite"} => blob[s]["canonical"] = Good(v)
    BY DEF CfgInv, CanonicalFirst
  <2>8. step' \in {"canonicalWrite", "compiled", "compiledWrite", "prepared"}
    BY <2>1, <2>2
  <2>9. CanonicalFirst' /\ PreparedIsComplete'
    BY <2>1, <2>2, <2>6, <2>7 DEF CanonicalFirst, PreparedIsComplete, Kinds
  <2>10. CandidateIsSpare' /\ StateMatchesStore'
    BY <2>2, <2>3, <2>5, <2>8 DEF CandidateIsSpare, StateMatchesStore, Preparing
  <2> QED
    BY <1>0, <2>2, <2>5, <2>8, <2>9, <2>10 DEF CfgInv, CfgTypeOK, Steps
<1>7. CASE DiscardSlot /\ ~UNCHANGED blob
  <2> DEFINE e == [k \in Kinds |-> Empty]
  <2>1. /\ step = "discard" /\ step' = "idle" /\ UNCHANGED pointer
        /\ ram' = [ram EXCEPT !.candidate = NoCandidate]
        /\ blob' = [blob EXCEPT ![ram.candidate.slot] = e]
    BY <1>7 DEF DiscardSlot, DiscardCandidate, Goto
  <2>2. e \in [Kinds -> Blob]
    BY BlobValues
  <2> HIDE DEF e
  <2>3. /\ blob' \in [SlotIds -> [Kinds -> Blob]]
        /\ ActiveVersion' = ActiveVersion /\ ActiveSlotIntact'
    BY Zenon, <2>1, <2>2, SpareWrite DEF Preparing
  <2>4. NoCandidate \in Candidate
    BY BlobValues DEF NoCandidate, Candidate
  <2>5. /\ ram' \in ActiveSlotState /\ ram'.slot = ram.slot
        /\ ram'.version = ram.version
    BY <1>0, <2>1, <2>4, CandidateUpdate
  <2>6. ram.slot = pointer /\ ram.version = ActiveVersion
    BY <2>1 DEF CfgInv, StateMatchesStore
  <2> QED
    BY <1>0, <2>1, <2>3, <2>5, <2>6
    DEF CfgInv, CfgTypeOK, PreparedIsComplete, StateMatchesStore,
        CandidateIsSpare, CanonicalFirst, Preparing, Steps
<1>8. ASSUME NEW slot \in SlotIds, ActivatePrepared(slot) PROVE CfgInv'
  <2>1. /\ step = "prepared" /\ step' = "activated" /\ UNCHANGED <<blob, ram>>
        /\ pointer' = ram.candidate.slot /\ ram.candidate.slot \in SlotIds
    BY <1>8 DEF ActivatePrepared, Goto
  <2>2. \A k \in Kinds :
          blob[ram.candidate.slot][k] = Good(ram.candidate.version)
    BY <2>1 DEF CfgInv, PreparedIsComplete
  <2>3. ActiveVersion' = ram.candidate.version
    BY <1>0, <2>1, <2>2, BlobValues DEF ActiveVersion, Kinds
  <2>4. ActiveSlotIntact'
    BY <2>1, <2>2, <2>3 DEF ActiveSlotIntact
  <2>5. ram.candidate =
          [slot |-> ram.candidate.slot, version |-> ram.candidate.version]
    BY <1>0 DEF Candidate
  <2> QED
    BY <1>0, <2>1, <2>2, <2>3, <2>4, <2>5
    DEF CfgInv, CfgTypeOK, PreparedIsComplete, StateMatchesStore,
        CandidateIsSpare, CanonicalFirst, Preparing, Steps
<1>9. CASE CommitCandidate
  <2>1. /\ step = "activated" /\ step' = "idle" /\ UNCHANGED <<blob, pointer>>
        /\ ram' = New(ram.candidate.slot, ram.candidate.version)
    BY <1>9 DEF CommitCandidate, Goto
  <2>2. ram.candidate = [slot |-> pointer, version |-> ActiveVersion]
    BY <2>1 DEF CfgInv, StateMatchesStore
  <2>3. ram' = New(pointer, ActiveVersion)
    BY <2>1, <2>2
  <2>4. /\ ram' \in ActiveSlotState /\ ram'.slot = pointer
        /\ ram'.version = ActiveVersion
    BY <1>0, <1>01, <2>3, BlobValues DEF New
  <2> QED
    BY <1>02, <2>1, <2>4
    DEF CfgInv, CfgTypeOK, PreparedIsComplete, StateMatchesStore,
        CandidateIsSpare, CanonicalFirst, Preparing, Steps
<1>10. CASE UNCHANGED cfgVars
  BY <1>10, <1>02
  DEF cfgVars, CfgInv, CfgTypeOK, PreparedIsComplete, StateMatchesStore,
      CandidateIsSpare, CanonicalFirst
<1>11. CASE CompileFails \/ Abandon \/ (DiscardSlot /\ UNCHANGED blob)
  BY <1>4, <1>11 DEF CompileFails, Abandon, DiscardSlot, Preparing
<1> QED
  BY <1>1, <1>2, <1>3, <1>5, <1>6, <1>7, <1>8, <1>9, <1>10, <1>11 DEF CfgNext, StoreStep

(* The inductive invariant holds in every reachable state. *)
LEMMA CfgInvariant == CfgSpec => []CfgInv
<1>1. CfgInit => CfgInv
  BY CfgInitInv
<1>2. CfgInv /\ [CfgNext]_cfgVars => CfgInv'
  BY CfgStepInv
<1> QED
  BY <1>1, <1>2, PTL DEF CfgSpec

(* Type correctness of the store, the pointer and ActiveSlotState. *)
THEOREM CfgTypeCorrect == CfgSpec => []CfgTypeOK
<1>1. CfgInv => CfgTypeOK
  BY DEF CfgInv
<1> QED
  BY <1>1, CfgInvariant, PTL

(* At every moment the active slot is complete: whenever power fails,       *)
(* boot_load finds a whole configuration, for any number of slots.          *)
THEOREM ActiveSlotAlwaysIntact == CfgSpec => []ActiveSlotIntact
<1>1. CfgInv => ActiveSlotIntact
  BY DEF CfgInv
<1> QED
  BY <1>1, CfgInvariant, PTL

(* A step of the updater changes the active configuration only by replacing *)
(* it with a newer one: activate_prepared is the step that does.            *)
LEMMA ActiveVersionGrows ==
  ASSUME CfgInv, CfgNext
  PROVE  \/ ActiveVersion' = ActiveVersion
         \/ ActiveVersion' \in (ActiveVersion + 1)..MaxVersion
<1>1. ASSUME NEW slot \in SlotIds, ActivatePrepared(slot)
      PROVE  ActiveVersion' \in (ActiveVersion + 1)..MaxVersion
  <2>1. /\ step = "prepared" /\ blob' = blob /\ pointer' = ram.candidate.slot
        /\ ram.candidate.version \in Versions
    BY <1>1 DEF ActivatePrepared, Goto, CfgInv, CfgTypeOK, ActiveSlotState, Candidate
  <2>2. ram.candidate.version > ActiveVersion
        /\ blob[ram.candidate.slot]["compiled"] = Good(ram.candidate.version)
    BY <2>1 DEF CfgInv, CandidateIsSpare, PreparedIsComplete, Preparing, Kinds
  <2>3. ActiveVersion' = ram.candidate.version
    BY <2>1, <2>2, BlobValues DEF ActiveVersion
  <2>4. ActiveVersion \in Versions
    BY DEF CfgInv, CfgTypeOK, ActiveVersion, Blob, Kinds
  <2> QED
    BY <2>1, <2>2, <2>3, <2>4, ConfigConstantsOK DEF Versions
<1>2. ASSUME WriteBegins \/ WriteEnds \/ DiscardSlot
      PROVE  ActiveVersion' = ActiveVersion
  <2>1. step \in Preparing /\ pointer' = pointer
    BY <1>2 DEF WriteBegins, WriteEnds, DiscardSlot, DiscardCandidate, Goto,
                Preparing
  <2>2. ram.candidate.slot \in SlotIds \ {pointer}
        /\ blob \in [SlotIds -> [Kinds -> Blob]] /\ pointer \in SlotIds
    BY <2>1 DEF CfgInv, CandidateIsSpare, CfgTypeOK
  <2>3. blob'[pointer] = blob[pointer]
    BY <1>2, <2>2 DEF WriteBegins, WriteEnds, DiscardSlot, SetBlob
  <2> QED
    BY <2>1, <2>3 DEF ActiveVersion
<1>3. ASSUME UNCHANGED <<blob, pointer>> PROVE ActiveVersion' = ActiveVersion
  BY <1>3 DEF ActiveVersion
<1> QED
  BY <1>1, <1>2, <1>3
  DEF CfgNext, StoreStep, Boot, BootReadFails, PowerCut, BeginCandidate, CompileFails,
      Compiles, EncodeFails, WriteFails, Abandon, CommitCandidate

(* Prepare, activate, boot and power cuts implement the atomic register of  *)
(* module ConfigRegister: every step of the detailed specification is an    *)
(* Update of the active configuration or leaves it alone.                   *)
THEOREM UpdatesAreAtomic == CfgSpec => AtomicUpdates
<1>1. CfgInv => Register!RegisterInit
  BY DEF CfgInv, CfgTypeOK, ActiveVersion, Blob, Kinds, Versions,
         Register!RegisterInit
<1>2. CfgInv /\ [CfgNext]_cfgVars => [Register!Update]_ActiveVersion
  <2> SUFFICES ASSUME CfgInv, [CfgNext]_cfgVars
               PROVE  Register!Update \/ ActiveVersion' = ActiveVersion
    OBVIOUS
  <2>1. CASE CfgNext
    BY <2>1, ActiveVersionGrows DEF Register!Update
  <2>2. CASE UNCHANGED cfgVars
    BY <2>2 DEF cfgVars, ActiveVersion
  <2> QED
    BY <2>1, <2>2
<1> QED
  BY <1>1, <1>2, CfgInvariant, PTL DEF CfgSpec, AtomicUpdates, Register!RegisterSpec

-----------------------------------------------------------------------------
(* The compiler: the checks of validate_config accept exactly the           *)
(* well-formed configurations, and what compile_config makes of them is     *)
(* closed and a partition of the house.                                     *)

(* A non-empty set of naturals has a least element, and Least finds it. *)
LEMMA LeastIsLeast ==
  ASSUME NEW S \in SUBSET Nat, S # {}
  PROVE  Least(S) \in S /\ \A j \in S : Least(S) <= j
<1> DEFINE Below == {p \in Nat \X Nat : p[1] < p[2]}
<1>1. IsWellFoundedOn(Below, Nat)
  BY NatLessThanWellFounded, Zenon DEF OpToRel
<1> HIDE DEF Below
<1>2. PICK x \in S : \A y \in S : ~(<<y, x>> \in Below)
  BY <1>1, WFMin, Zenon
<1>3. ASSUME NEW y \in S, y < x PROVE FALSE
  <2>1. <<y, x>> \in Nat \X Nat
    OBVIOUS
  <2>2. <<y, x>>[1] < <<y, x>>[2]
    BY <1>3
  <2>3. <<y, x>> \in Below
    BY <2>1, <2>2, Zenon DEF Below
  <2> QED
    BY <1>2, <2>3
<1>4. \A y \in S : x <= y
  BY <1>3
<1> QED
  BY Zenon, <1>4 DEF Least

(* The ? operator: a list of checks succeeds when all of them do. *)
LEMMA FirstErrorOk ==
  ASSUME NEW rs, DOMAIN rs \subseteq Nat
  PROVE  FirstError(rs) = "Ok" <=> \A i \in DOMAIN rs : rs[i] = "Ok"
<1> DEFINE failed == {i \in DOMAIN rs : rs[i] # "Ok"}
<1>1. CASE failed = {}
  BY <1>1 DEF FirstError
<1>2. CASE failed # {}
  <2>1. Least(failed) \in failed
    BY <1>2, LeastIsLeast
  <2> QED
    BY <1>2, <2>1 DEF FirstError
<1> QED
  BY <1>1, <1>2

(* The first device with an id is one with that id. *)
LEMMA OwnerOfUnique ==
  ASSUME NEW c \in CanonicalConfig, NEW d, NEW b,
         \A i, j \in DOMAIN c.devices :
           c.devices[i].device_id = c.devices[j].device_id => i = j
  PROVE  DevicesWith(c, d) # {} /\ OwnedBy(c, d, b) <=> DeviceOn(c, d, b)
<1>1. DevicesWith(c, d) \in SUBSET Nat
  BY DEF DevicesWith, CanonicalConfig
<1>2. ASSUME DevicesWith(c, d) # {}
      PROVE  /\ Least(DevicesWith(c, d)) \in DOMAIN c.devices
             /\ c.devices[Least(DevicesWith(c, d))].device_id = d
  BY <1>1, <1>2, LeastIsLeast DEF DevicesWith
<1> QED
  BY Zenon, <1>2 DEF OwnedBy, OwnerOf, DeviceOn, DevicesWith

(* The short lists of checks that the code makes of one item. *)
LEMMA TwoChecks ==
  ASSUME NEW q, NEW r
  PROVE  FirstError(<<q, r>>) = "Ok" <=> q = "Ok" /\ r = "Ok"
  BY FirstErrorOk, DOMAIN <<q, r>> = {1, 2}

(* Likewise for three. *)
LEMMA ThreeChecks ==
  ASSUME NEW q, NEW r, NEW s
  PROVE  FirstError(<<q, r, s>>) = "Ok" <=> q = "Ok" /\ r = "Ok" /\ s = "Ok"
  BY FirstErrorOk, DOMAIN <<q, r, s>> = {1, 2, 3}

(* Likewise for four. *)
LEMMA FourChecks ==
  ASSUME NEW q, NEW r, NEW s, NEW t
  PROVE  FirstError(<<q, r, s, t>>) = "Ok"
           <=> q = "Ok" /\ r = "Ok" /\ s = "Ok" /\ t = "Ok"
  BY FirstErrorOk, DOMAIN <<q, r, s, t>> = {1, 2, 3, 4}

(* Likewise for six. *)
LEMMA SixChecks ==
  ASSUME NEW q, NEW r, NEW s, NEW t, NEW u, NEW v
  PROVE  FirstError(<<q, r, s, t, u, v>>) = "Ok"
           <=> q = "Ok" /\ r = "Ok" /\ s = "Ok" /\ t = "Ok" /\ u = "Ok" /\ v = "Ok"
  BY FirstErrorOk, DOMAIN <<q, r, s, t, u, v>> = {1, 2, 3, 4, 5, 6}

(* Likewise for seven. *)
LEMMA SevenChecks ==
  ASSUME NEW q, NEW r, NEW s, NEW t, NEW u, NEW v, NEW w
  PROVE  FirstError(<<q, r, s, t, u, v, w>>) = "Ok"
           <=> /\ q = "Ok" /\ r = "Ok" /\ s = "Ok" /\ t = "Ok" /\ u = "Ok" /\ v = "Ok"
               /\ w = "Ok"
  BY FirstErrorOk, DOMAIN <<q, r, s, t, u, v, w>> = {1, 2, 3, 4, 5, 6, 7}

(* A scan of every item against the ones after it finds every duplicate. *)
LEMMA LaterDuplicates ==
  ASSUME NEW id, DOMAIN id \subseteq Nat
  PROVE  UniqueIds(id) <=>
           \A i \in DOMAIN id :
             id[i] # 0 /\ \A j \in DOMAIN id : j > i => id[j] # id[i]
<1>1. ASSUME NEW i \in DOMAIN id, NEW j \in DOMAIN id PROVE i = j \/ i > j \/ j > i
  OBVIOUS
<1>2. ASSUME NEW i \in DOMAIN id, NEW j \in DOMAIN id, j > i PROVE i # j
  BY <1>2
<1> QED
  BY <1>1, <1>2 DEF UniqueIds

(* validate_boards: valid and distinct ids, one coordinator. *)
LEMMA BoardsOk ==
  ASSUME NEW c \in CanonicalConfig
  PROVE  ValidateBoards(c) = "Ok" <=>
           /\ UniqueIds([i \in DOMAIN c.boards |-> c.boards[i].board_id])
           /\ \E i \in DOMAIN c.boards : Coordinators(c) = {i}
<1> DEFINE each == [i \in DOMAIN c.boards |-> ValidateBoard(c, i)]
           id == [i \in DOMAIN c.boards |-> c.boards[i].board_id]
<1>1. DOMAIN c.boards \subseteq Nat
  BY DEF CanonicalConfig
<1>2. FirstError(each) = "Ok" <=>
        \A i \in DOMAIN c.boards : ValidateBoard(c, i) = "Ok"
  BY <1>1, FirstErrorOk
<1>3. ASSUME NEW i \in DOMAIN c.boards
      PROVE  ValidateBoard(c, i) = "Ok" <=>
               id[i] # 0 /\ \A j \in DOMAIN id : j > i => id[j] # id[i]
  BY TwoChecks DEF ValidateBoard, Check, IsValid
<1>4. FirstError(each) = "Ok" <=> UniqueIds(id)
  <2> DOMAIN id = DOMAIN c.boards
    OBVIOUS
  <2> HIDE DEF id, each
  <2> QED
    BY <1>1, <1>2, <1>3, LaterDuplicates
<1>5. (\E i \in DOMAIN c.boards : Coordinators(c) = {i})
        <=> Coordinators(c) # {} /\ \A i, j \in Coordinators(c) : i = j
  BY DEF Coordinators
<1>6. ValidateBoards(c) = "Ok" <=>
        /\ FirstError(each) = "Ok" /\ Coordinators(c) # {}
        /\ \A i, j \in Coordinators(c) : i = j
  <2> DEFINE all == FirstError(each)
             some == Check(Coordinators(c) # {}, "MissingCoordinator")
             one == Check(\A i, j \in Coordinators(c) : i = j, "MultipleCoordinators")
  <2>1. ValidateBoards(c) = FirstError(<<all, some, one>>)
    BY Zenon DEF ValidateBoards
  <2>2. some = "Ok" <=> Coordinators(c) # {}
    BY Zenon DEF Check
  <2>3. one = "Ok" <=> \A i, j \in Coordinators(c) : i = j
    BY DEF Check
  <2> HIDE DEF all, some, one
  <2>4. ValidateBoards(c) = "Ok" <=> all = "Ok" /\ some = "Ok" /\ one = "Ok"
    BY <2>1, ThreeChecks
  <2> QED
    BY <2>2, <2>3, <2>4 DEF all
<1> QED
  BY <1>4, <1>5, <1>6

(* find_board and owner_of succeed for the ids that are there. *)
LEMMA IdsFound ==
  ASSUME NEW c, NEW x
  PROVE  /\ HasBoard(c, x) <=> x \in BoardIds(c)
         /\ DevicesWith(c, x) # {} <=> x \in DeviceIds(c)
         /\ KnownDevice(c, x) = "Ok" <=> x \in DeviceIds(c)
<1>1. HasBoard(c, x) <=> x \in BoardIds(c)
  BY DEF HasBoard, BoardsWith, BoardIds
<1>2. DevicesWith(c, x) # {} <=> x \in DeviceIds(c)
  BY DEF DevicesWith, DeviceIds
<1> QED
  BY <1>1, <1>2 DEF KnownDevice, Check

(* validate_controllers. *)
LEMMA ControllersOk ==
  ASSUME NEW c \in CanonicalConfig
  PROVE  ValidateControllers(c) = "Ok" <=>
           \A i \in DOMAIN c.controllers :
             c.controllers[i].owner_board_id \in BoardIds(c)
<1>1. DOMAIN c.controllers \subseteq Nat
  BY DEF CanonicalConfig
<1> QED
  BY <1>1, FirstErrorOk, IdsFound DEF ValidateControllers, Check

(* validate_devices: valid and distinct ids, owners and controllers that    *)
(* exist.                                                                   *)
LEMMA DevicesOk ==
  ASSUME NEW c \in CanonicalConfig
  PROVE  ValidateDevices(c) = "Ok" <=>
           /\ UniqueIds([i \in DOMAIN c.devices |-> c.devices[i].device_id])
           /\ \A i \in DOMAIN c.devices :
                /\ c.devices[i].owner_board_id \in BoardIds(c)
                /\ \A p \in c.devices[i].port : HasController(c, c.devices[i], p)
<1> DEFINE id == [i \in DOMAIN c.devices |-> c.devices[i].device_id]
           placed(i) == /\ c.devices[i].owner_board_id \in BoardIds(c)
                        /\ \A p \in c.devices[i].port :
                             HasController(c, c.devices[i], p)
<1>1. DOMAIN c.devices \subseteq Nat
  BY DEF CanonicalConfig
<1>2. ValidateDevices(c) = "Ok" <=>
        \A i \in DOMAIN c.devices : ValidateDevice(c, i) = "Ok"
  BY <1>1, FirstErrorOk DEF ValidateDevices
<1>3. ASSUME NEW i \in DOMAIN c.devices
      PROVE  ValidateDevice(c, i) = "Ok" <=>
               /\ id[i] # 0
               /\ \A j \in DOMAIN id : j > i => id[j] # id[i]
               /\ placed(i)
  <2> DEFINE d == c.devices[i]
             valid == Check(IsValid(d.device_id), "EmptyDeviceId")
             single == Check(\A j \in DOMAIN c.devices :
                               j > i => c.devices[j].device_id # d.device_id,
                             "DuplicateDeviceId")
             owned == Check(HasBoard(c, d.owner_board_id), "DeviceBoardMissing")
             wired == Check(\A p \in d.port : HasController(c, d, p),
                            "DeviceControllerMissing")
  <2>1. ValidateDevice(c, i) = FirstError(<<valid, single, owned, wired>>)
    BY DEF ValidateDevice
  <2>2. valid = "Ok" <=> id[i] # 0
    BY DEF Check, IsValid
  <2>3. single = "Ok" <=> \A j \in DOMAIN id : j > i => id[j] # id[i]
    BY Zenon DEF Check
  <2>4. owned = "Ok" /\ wired = "Ok" <=> placed(i)
    BY IdsFound DEF Check
  <2> HIDE DEF valid, single, owned, wired, placed, id
  <2> QED
    BY <2>1, <2>2, <2>3, <2>4, FourChecks
<1>4. UniqueIds(id) <=>
        \A i \in DOMAIN c.devices :
          id[i] # 0 /\ \A j \in DOMAIN id : j > i => id[j] # id[i]
  <2> DOMAIN id = DOMAIN c.devices
    OBVIOUS
  <2> HIDE DEF id
  <2> QED
    BY <1>1, LaterDuplicates
<1> HIDE DEF id, placed
<1>5. ValidateDevices(c) = "Ok" <=>
        UniqueIds(id) /\ \A i \in DOMAIN c.devices : placed(i)
  BY <1>2, <1>3, <1>4
<1> QED
  BY <1>5 DEF id, placed

(* validate_dependencies, after validate_devices: the first device with an  *)
(* id is the only one, and its owner is a board.                            *)
LEMMA DependenciesOk ==
  ASSUME NEW c \in CanonicalConfig, ValidateDevices(c) = "Ok"
  PROVE  ValidateDependencies(c) = "Ok" <=>
           \A i \in DOMAIN c.dependencies : DependencyOK(c, c.dependencies[i])
<1>1. DOMAIN c.dependencies \subseteq Nat
  BY DEF CanonicalConfig
<1>2. ValidateDependencies(c) = "Ok" <=>
        \A i \in DOMAIN c.dependencies :
          ValidateDependency(c, c.dependencies[i]) = "Ok"
  BY <1>1, FirstErrorOk DEF ValidateDependencies
<1>3. \A i, j \in DOMAIN c.devices :
        c.devices[i].device_id = c.devices[j].device_id => i = j
  BY Zenon, DevicesOk DEF UniqueIds
<1>4. \A i \in DOMAIN c.devices : c.devices[i].owner_board_id \in BoardIds(c)
  BY Zenon, DevicesOk
<1>5. ASSUME NEW p
      PROVE  ValidateDependency(c, p) = "Ok" <=> DependencyOK(c, p)
  <2> DEFINE b == p.owner_board_id
             home == Check(HasBoard(c, b), "DependencyBoardMissing")
             near == Check(OwnedBy(c, p.source, b) /\ OwnedBy(c, p.destination, b),
                           "DependencyCrossesBoards")
  <2>1. ValidateDependency(c, p) =
          FirstError(<<home, KnownDevice(c, p.source),
                       KnownDevice(c, p.destination), near>>)
    BY Zenon DEF ValidateDependency
  <2>2. home = "Ok" <=> b \in BoardIds(c)
    BY IdsFound DEF Check
  <2>3. near = "Ok" <=> OwnedBy(c, p.source, b) /\ OwnedBy(c, p.destination, b)
    BY DEF Check
  <2>4. ASSUME NEW d
        PROVE  DeviceOn(c, d, b) <=> KnownDevice(c, d) = "Ok" /\ OwnedBy(c, d, b)
    BY <1>3, OwnerOfUnique, IdsFound
  <2>5. ASSUME NEW d, DeviceOn(c, d, b) PROVE b \in BoardIds(c)
    BY <1>4, <2>5 DEF DeviceOn
  <2> HIDE DEF home, near, b
  <2>6. ValidateDependency(c, p) = "Ok" <=>
          /\ home = "Ok" /\ KnownDevice(c, p.source) = "Ok"
          /\ KnownDevice(c, p.destination) = "Ok" /\ near = "Ok"
    BY <2>1, FourChecks
  <2>7. DependencyOK(c, p) <=>
          DeviceOn(c, p.source, b) /\ DeviceOn(c, p.destination, b)
    BY DEF DependencyOK, b
  <2> QED
    BY <2>2, <2>3, <2>4, <2>5, <2>6, <2>7
<1> QED
  BY <1>2, <1>5

(* validate_actions of one action, after validate_devices. *)
LEMMA ActionsOk ==
  ASSUME NEW c \in CanonicalConfig, ValidateDevices(c) = "Ok",
         NEW scope, NEW a \in Action
  PROVE  ValidateAction(c, scope, a) = "Ok" <=> ActionOK(c, scope, a)
<1>1. \A i, j \in DOMAIN c.devices :
        c.devices[i].device_id = c.devices[j].device_id => i = j
  BY Zenon, DevicesOk DEF UniqueIds
<1>2. a.kind \in {"SetDevice", "SendBoardCommand", "PublishEvent"}
  BY DEF Action
<1>3. CASE a.kind = "SetDevice"
  <2> DEFINE local == scope.kind = "BoardLocal"
             near == Check(local => OwnedBy(c, a.id, scope.board_id),
                           "BoardLocalRuleTargetsRemoteDevice")
  <2>1. ValidateAction(c, scope, a) = FirstError(<<KnownDevice(c, a.id), near>>)
    BY <1>3 DEF ValidateAction
  <2>2. near = "Ok" <=> (local => OwnedBy(c, a.id, scope.board_id))
    BY DEF Check
  <2>3. DeviceOn(c, a.id, scope.board_id) <=>
          KnownDevice(c, a.id) = "Ok" /\ OwnedBy(c, a.id, scope.board_id)
    BY <1>1, OwnerOfUnique, IdsFound
  <2>4. ActionOK(c, scope, a) <=>
          IF local THEN DeviceOn(c, a.id, scope.board_id) ELSE a.id \in DeviceIds(c)
    BY <1>3 DEF ActionOK
  <2> HIDE DEF near, local
  <2>5. ValidateAction(c, scope, a) = "Ok" <=>
          KnownDevice(c, a.id) = "Ok" /\ near = "Ok"
    BY <2>1, TwoChecks
  <2> QED
    BY <2>2, <2>3, <2>4, <2>5, IdsFound
<1>4. CASE a.kind = "SendBoardCommand"
  BY <1>4, IdsFound DEF ValidateAction, ActionOK, Check
<1>5. CASE a.kind = "PublishEvent"
  BY <1>5 DEF ValidateAction, ActionOK
<1> QED
  BY <1>2, <1>3, <1>4, <1>5

(* validate_condition. *)
LEMMA ConditionsOk ==
  ASSUME NEW c, NEW devices
  PROVE  ValidateCondition(c, devices) = "Ok" <=> devices \subseteq DeviceIds(c)
  BY IdsFound DEF ValidateCondition, Check

(* One step of a rule body, after validate_devices. *)
LEMMA StepsOk ==
  ASSUME NEW c \in CanonicalConfig, ValidateDevices(c) = "Ok",
         NEW scope, NEW st \in Step
  PROVE  ValidateStep(c, scope, st) = "Ok" <=> StepOK(c, scope, st)
<1> DEFINE some == Check(st.actions # <<>>, "EmptyRuleBody")
<1>1. ValidateStep(c, scope, st) =
        FirstError(<<some, ValidateCondition(c, st.precondition),
                     ValidateActions(c, scope, st.actions)>>)
  BY Zenon DEF ValidateStep
<1>2. some = "Ok" <=> st.actions # <<>>
  BY DEF Check
<1>3. /\ DOMAIN st.actions \subseteq Nat
      /\ \A k \in DOMAIN st.actions : st.actions[k] \in Action
  BY DEF Step
<1>4. ValidateActions(c, scope, st.actions) = "Ok" <=>
        \A k \in DOMAIN st.actions : ValidateAction(c, scope, st.actions[k]) = "Ok"
  BY <1>3, FirstErrorOk DEF ValidateActions
<1>5. ValidateActions(c, scope, st.actions) = "Ok" <=>
        \A k \in DOMAIN st.actions : ActionOK(c, scope, st.actions[k])
  BY <1>3, <1>4, ActionsOk
<1> HIDE DEF some
<1>6. ValidateStep(c, scope, st) = "Ok" <=>
        /\ some = "Ok" /\ ValidateCondition(c, st.precondition) = "Ok"
        /\ ValidateActions(c, scope, st.actions) = "Ok"
  BY <1>1, ThreeChecks
<1> QED
  BY <1>2, <1>5, <1>6, ConditionsOk DEF StepOK

(* validate_trigger. *)
LEMMA TriggersOk ==
  ASSUME NEW c, NEW t \in Trigger
  PROVE  ValidateTrigger(c, t) = "Ok" <=>
           /\ t.kind = "DeviceChanged" => t.id \in DeviceIds(c)
           /\ t.kind = "BoardEvent" => t.id \in BoardIds(c)
<1>1. t.kind \in {"DeviceChanged", "BoardEvent", "Schedule", "None"}
  BY DEF Trigger
<1>2. CASE t.kind = "DeviceChanged"
  BY <1>2, IdsFound DEF ValidateTrigger
<1>3. CASE t.kind = "BoardEvent"
  BY <1>3, IdsFound DEF ValidateTrigger, Check
<1>4. CASE t.kind \in {"Schedule", "None"}
  BY <1>4 DEF ValidateTrigger
<1> QED
  BY <1>1, <1>2, <1>3, <1>4

(* validate_rules, after validate_devices. *)
LEMMA RulesOk ==
  ASSUME NEW c \in CanonicalConfig, ValidateDevices(c) = "Ok"
  PROVE  ValidateRules(c) = "Ok" <=>
           /\ UniqueIds([i \in DOMAIN c.rules |-> c.rules[i].rule_id])
           /\ \A i \in DOMAIN c.rules : RuleOK(c, c.rules[i])
<1> DEFINE id == [i \in DOMAIN c.rules |-> c.rules[i].rule_id]
<1>1. /\ DOMAIN c.rules \subseteq Nat
      /\ \A i \in DOMAIN c.rules : c.rules[i] \in RuleConfig
  BY DEF CanonicalConfig
<1>2. ValidateRules(c) = "Ok" <=>
        \A i \in DOMAIN c.rules : ValidateRule(c, i) = "Ok"
  BY <1>1, FirstErrorOk DEF ValidateRules
<1>3. ASSUME NEW i \in DOMAIN c.rules
      PROVE  ValidateRule(c, i) = "Ok" <=>
               /\ id[i] # 0 /\ \A j \in DOMAIN id : j > i => id[j] # id[i]
               /\ RuleOK(c, c.rules[i])
  <2> DEFINE r == c.rules[i]
             local == r.scope.kind = "BoardLocal"
             valid == Check(IsValid(r.rule_id), "EmptyRuleId")
             single == Check(\A j \in DOMAIN c.rules :
                               j > i => c.rules[j].rule_id # r.rule_id,
                             "DuplicateRuleId")
             home == Check(local => HasBoard(c, r.scope.board_id),
                           "RuleScopeBoardMissing")
             some == Check(r.body # <<>>, "EmptyRuleBody")
             steps == FirstError([n \in DOMAIN r.body |->
                                    ValidateStep(c, r.scope, r.body[n])])
  <2>1. ValidateRule(c, i) =
          FirstError(<<valid, single, home, ValidateTrigger(c, r.trigger),
                       ValidateCondition(c, r.condition), ValidateRuleBody(c, r)>>)
    BY Zenon DEF ValidateRule
  <2>2. valid = "Ok" <=> id[i] # 0
    BY DEF Check, IsValid
  <2>3. single = "Ok" <=> \A j \in DOMAIN id : j > i => id[j] # id[i]
    BY Zenon DEF Check
  <2>4. home = "Ok" <=> (local => r.scope.board_id \in BoardIds(c))
    BY IdsFound DEF Check
  <2>5. r \in RuleConfig
    BY <1>1
  <2>6. r.trigger \in Trigger /\ r.body \in Seq(Step)
    BY <2>5 DEF RuleConfig
  <2>7. DOMAIN r.body \subseteq Nat /\ \A n \in DOMAIN r.body : r.body[n] \in Step
    BY <2>6
  <2>8. steps = "Ok" <=> \A n \in DOMAIN r.body : StepOK(c, r.scope, r.body[n])
    <3>1. steps = "Ok" <=>
            \A n \in DOMAIN r.body : ValidateStep(c, r.scope, r.body[n]) = "Ok"
      BY <2>7, FirstErrorOk
    <3> QED
      BY <2>7, <3>1, StepsOk
  <2>9. some = "Ok" <=> r.body # <<>>
    BY DEF Check
  <2>10. ValidateRuleBody(c, r) = "Ok" <=>
           r.body # <<>> /\ \A n \in DOMAIN r.body : StepOK(c, r.scope, r.body[n])
    <3>1. ValidateRuleBody(c, r) = FirstError(<<some, steps>>)
      BY Zenon DEF ValidateRuleBody
    <3> HIDE DEF some, steps
    <3> QED
      BY <2>8, <2>9, <3>1, TwoChecks
  <2>11. RuleOK(c, r) <=>
           /\ home = "Ok" /\ ValidateTrigger(c, r.trigger) = "Ok"
           /\ ValidateCondition(c, r.condition) = "Ok"
           /\ ValidateRuleBody(c, r) = "Ok"
    BY Zenon, <2>4, <2>6, <2>10, TriggersOk, ConditionsOk DEF RuleOK
  <2> HIDE DEF valid, single, home, r
  <2>12. ValidateRule(c, i) = "Ok" <=>
           /\ valid = "Ok" /\ single = "Ok" /\ home = "Ok"
           /\ ValidateTrigger(c, r.trigger) = "Ok"
           /\ ValidateCondition(c, r.condition) = "Ok"
           /\ ValidateRuleBody(c, r) = "Ok"
    BY <2>1, SixChecks
  <2> QED
    BY Zenon, <2>2, <2>3, <2>11, <2>12 DEF r
<1>4. UniqueIds(id) <=>
        \A i \in DOMAIN c.rules :
          id[i] # 0 /\ \A j \in DOMAIN id : j > i => id[j] # id[i]
  <2> DOMAIN id = DOMAIN c.rules
    OBVIOUS
  <2> HIDE DEF id
  <2> QED
    BY <1>1, LaterDuplicates
<1> HIDE DEF id
<1>5. ValidateRules(c) = "Ok" <=>
        UniqueIds(id) /\ \A i \in DOMAIN c.rules : RuleOK(c, c.rules[i])
  BY <1>2, <1>3, <1>4
<1> QED
  BY <1>5 DEF id

(* validate_config accepts a configuration, of whatever size, exactly when  *)
(* it is well-formed: stopping at the first error and looking up only the   *)
(* first device with an id lets nothing through and refuses nothing else.   *)
THEOREM ValidationExact ==
  ASSUME NEW c \in CanonicalConfig
  PROVE  ValidateConfig(c) = "Ok" <=> WellFormed(c)
<1> DEFINE schema == Check(c.schema_version = SUPPORTED_SCHEMA_VERSION,
                           "UnsupportedSchemaVersion")
           house == Check(IsValid(c.house_id), "EmptyHouseId")
<1>1. ValidateConfig(c) =
        FirstError(<<schema, house, ValidateBoards(c), ValidateControllers(c),
                     ValidateDevices(c), ValidateDependencies(c),
                     ValidateRules(c)>>)
  BY Zenon DEF ValidateConfig
<1>2. schema = "Ok" <=> c.schema_version = SUPPORTED_SCHEMA_VERSION
  BY Zenon DEF Check
<1>3. house = "Ok" <=> c.house_id # 0
  BY DEF Check, IsValid
<1> HIDE DEF schema, house
<1>4. ValidateConfig(c) = "Ok" <=>
        /\ schema = "Ok" /\ house = "Ok" /\ ValidateBoards(c) = "Ok"
        /\ ValidateControllers(c) = "Ok" /\ ValidateDevices(c) = "Ok"
        /\ ValidateDependencies(c) = "Ok" /\ ValidateRules(c) = "Ok"
  BY <1>1, SevenChecks
<1>5. ASSUME ValidateConfig(c) = "Ok" PROVE WellFormed(c)
  BY <1>2, <1>3, <1>4, <1>5, BoardsOk, ControllersOk, DevicesOk, DependenciesOk,
     RulesOk, Zenon DEF WellFormed
<1>6. ASSUME WellFormed(c) PROVE ValidateConfig(c) = "Ok"
  <2>1. ValidateDevices(c) = "Ok"
    BY <1>6, DevicesOk, ZenonT(40) DEF WellFormed
  <2> QED
    BY <1>2, <1>3, <1>4, <1>6, <2>1, BoardsOk, ControllersOk, DependenciesOk,
       RulesOk, Zenon DEF WellFormed
<1> QED
  BY <1>5, <1>6

(* m is what CompiledConfig keeps of c for the board with id b. *)
ImageOf(c, b, board, m) ==
  /\ m.board = board
  /\ m.controllers = {i \in DOMAIN c.controllers :
                        c.controllers[i].owner_board_id = b}
  /\ m.devices = {i \in DOMAIN c.devices : c.devices[i].owner_board_id = b}
  /\ m.dependencies = {i \in DOMAIN c.dependencies :
                         c.dependencies[i].owner_board_id = b}
  /\ m.rules = {i \in DOMAIN c.rules : RuleAppliesToBoard(c.rules[i], board)}
  /\ DOMAIN m.topology = DOMAIN c.devices
  /\ \A i \in DOMAIN c.devices :
       m.topology[i].device_id = c.devices[i].device_id

(* The fields of CompiledConfig. *)
LEMMA CompiledFields ==
  ASSUME NEW c, NEW b, NEW board
  PROVE  ImageOf(c, b, board, CompiledConfig(c, b, board))
<1> DEFINE m == CompiledConfig(c, b, board)
<1>1. m.board = board
  BY DEF CompiledConfig
<1>2. m.controllers = {i \in DOMAIN c.controllers :
                         c.controllers[i].owner_board_id = b}
  BY DEF CompiledConfig
<1>3. m.devices = {i \in DOMAIN c.devices : c.devices[i].owner_board_id = b}
  BY DEF CompiledConfig
<1>4. m.dependencies = {i \in DOMAIN c.dependencies :
                          c.dependencies[i].owner_board_id = b}
  BY DEF CompiledConfig
<1>5. m.rules = {i \in DOMAIN c.rules : RuleAppliesToBoard(c.rules[i], board)}
  BY DEF CompiledConfig
<1>6. m.topology = [i \in DOMAIN c.devices |->
                      [device_id |-> c.devices[i].device_id,
                       owner_board_id |-> c.devices[i].owner_board_id]]
  BY Zenon DEF CompiledConfig
<1> HIDE DEF m
<1>7. DOMAIN m.topology = DOMAIN c.devices
  BY <1>6
<1>8. \A i \in DOMAIN c.devices :
        m.topology[i].device_id = c.devices[i].device_id
  BY <1>6
<1>9. ImageOf(c, b, board, m)
  BY <1>1, <1>2, <1>3, <1>4, <1>5, <1>7, <1>8, Zenon DEF ImageOf
<1> QED
  BY <1>9 DEF m

(* What compile_config returns when it succeeds. *)
LEMMA ImageFields ==
  ASSUME NEW c \in CanonicalConfig, NEW b, CompileConfig(c, b).result = "Ok"
  PROVE  /\ WellFormed(c) /\ b \in BoardIds(c)
         /\ ImageOf(c, b, c.boards[Least(BoardsWith(c, b))], CompileConfig(c, b))
<1> DEFINE board == c.boards[Least(BoardsWith(c, b))]
<1>1. ValidateConfig(c) = "Ok"
  <2>1. \A r : [result |-> r].result = r
    OBVIOUS
  <2> QED
    BY <2>1, Zenon DEF CompileConfig
<1>2. HasBoard(c, b)
  <2>1. [result |-> "MissingTargetBoard"].result # "Ok"
    OBVIOUS
  <2> QED
    BY <1>1, <2>1, Zenon DEF CompileConfig
<1>3. CompileConfig(c, b) = CompiledConfig(c, b, board)
  BY <1>1, <1>2, Zenon DEF CompileConfig
<1>4. WellFormed(c)
  BY <1>1, ValidationExact, Zenon
<1>5. b \in BoardIds(c)
  BY <1>2, IdsFound, Zenon
<1> HIDE DEF board
<1>6. ImageOf(c, b, board, CompiledConfig(c, b, board))
  BY CompiledFields, Zenon
<1> QED
  BY <1>3, <1>4, <1>5, <1>6, Zenon DEF board

(* find_board returns the board with that id. *)
LEMMA BoardFound ==
  ASSUME NEW c \in CanonicalConfig, NEW b \in BoardIds(c)
  PROVE  /\ Least(BoardsWith(c, b)) \in DOMAIN c.boards
         /\ c.boards[Least(BoardsWith(c, b))].board_id = b
<1>1. BoardsWith(c, b) \in SUBSET Nat /\ BoardsWith(c, b) # {}
  BY SMTT(40) DEF BoardsWith, BoardIds, CanonicalConfig
<1> QED
  BY <1>1, LeastIsLeast DEF BoardsWith

(* Every image that compile_config returns is closed: a board has what its  *)
(* devices, dependencies and rules refer to.                                *)
THEOREM ImagesClosed ==
  ASSUME NEW c \in CanonicalConfig, NEW b, CompileConfig(c, b).result = "Ok"
  PROVE  ClosedImage(c, CompileConfig(c, b))
<1> DEFINE m == CompileConfig(c, b)
           board == c.boards[Least(BoardsWith(c, b))]
<1>a. WellFormed(c) /\ b \in BoardIds(c) /\ ImageOf(c, b, board, m)
  BY ImageFields, Zenon
<1>b. board.board_id = b
  BY <1>a, BoardFound, Zenon
<1> HIDE DEF m, board
<1>1. /\ WellFormed(c)
      /\ m.controllers = {i \in DOMAIN c.controllers :
                            c.controllers[i].owner_board_id = b}
      /\ m.devices = {i \in DOMAIN c.devices : c.devices[i].owner_board_id = b}
      /\ m.dependencies = {i \in DOMAIN c.dependencies :
                             c.dependencies[i].owner_board_id = b}
      /\ m.rules = {i \in DOMAIN c.rules : RuleAppliesToBoard(c.rules[i], board)}
  BY <1>a, Zenon DEF ImageOf
<1>2. TopologyIds(m) = DeviceIds(c)
  <2>1. /\ DOMAIN m.topology = DOMAIN c.devices
        /\ \A i \in DOMAIN c.devices :
             m.topology[i].device_id = c.devices[i].device_id
    BY <1>a, Zenon DEF ImageOf
  <2> QED
    BY <2>1, Zenon DEF TopologyIds, DeviceIds
<1>3. ASSUME NEW i \in m.devices, NEW p \in c.devices[i].port
      PROVE  \E k \in m.controllers : c.controllers[k].controller_id = p
  <2>1. i \in DOMAIN c.devices /\ c.devices[i].owner_board_id = b
    BY <1>1, <1>3, Zenon
  <2>2. HasController(c, c.devices[i], p)
    BY <1>1, <1>3, <2>1, Zenon DEF WellFormed
  <2>3. PICK k \in DOMAIN c.controllers : /\ c.controllers[k].controller_id = p
                                          /\ c.controllers[k].owner_board_id = b
    BY <2>1, <2>2, Zenon DEF HasController
  <2> QED
    BY <1>1, <2>3, Zenon
<1>4. ASSUME NEW d PROVE DeviceOn(c, d, b) <=> d \in LocalIds(c, m)
  BY SMTT(40), <1>1 DEF DeviceOn, LocalIds
<1>5. ASSUME NEW i \in m.dependencies
      PROVE  {c.dependencies[i].source, c.dependencies[i].destination}
               \subseteq LocalIds(c, m)
  BY Zenon, <1>1, <1>4, <1>5 DEF WellFormed, DependencyOK
<1>6. ASSUME NEW i \in m.rules
      PROVE  /\ RuleReads(c.rules[i]) \subseteq TopologyIds(m)
             /\ \A n \in DOMAIN c.rules[i].body :
                  SetBy(c.rules[i].body[n]) \subseteq
                    IF c.rules[i].scope.kind = "BoardLocal"
                    THEN LocalIds(c, m) ELSE TopologyIds(m)
  <2> DEFINE r == c.rules[i]
  <2>1. RuleOK(c, r) /\ RuleAppliesToBoard(r, board)
    BY Zenon, <1>1, <1>6 DEF WellFormed
  <2> HIDE DEF r
  <2>2. RuleReads(r) \subseteq TopologyIds(m)
    <3>1. \A n \in DOMAIN r.body : r.body[n].precondition \subseteq DeviceIds(c)
      BY <2>1, Zenon DEF RuleOK, StepOK
    <3>2. /\ r.condition \subseteq DeviceIds(c)
          /\ r.trigger.kind = "DeviceChanged" => r.trigger.id \in DeviceIds(c)
      BY <2>1, Zenon DEF RuleOK
    <3> SUFFICES ASSUME NEW d \in RuleReads(r) PROVE d \in DeviceIds(c)
      BY <1>2, Zenon
    <3>3. \/ d \in r.condition
          \/ \E n \in DOMAIN r.body : d \in r.body[n].precondition
          \/ d = r.trigger.id /\ r.trigger.kind = "DeviceChanged"
      BY DEF RuleReads
    <3> QED
      BY <3>1, <3>2, <3>3, Zenon
  <2>3. r.scope.kind = "BoardLocal" => r.scope.board_id = b
    BY <1>b, <2>1, Zenon DEF RuleAppliesToBoard
  <2>4. ASSUME NEW n \in DOMAIN r.body, NEW k \in DOMAIN r.body[n].actions,
               r.body[n].actions[k].kind = "SetDevice"
        PROVE  r.body[n].actions[k].id \in IF r.scope.kind = "BoardLocal"
                                            THEN LocalIds(c, m) ELSE TopologyIds(m)
    BY Zenon, <1>2, <1>4, <2>1, <2>3, <2>4 DEF RuleOK, StepOK, ActionOK
  <2>5. ASSUME NEW n \in DOMAIN r.body
        PROVE  SetBy(r.body[n]) \subseteq IF r.scope.kind = "BoardLocal"
                                          THEN LocalIds(c, m) ELSE TopologyIds(m)
    BY Zenon, <2>4 DEF SetBy
  <2> QED
    BY Zenon, <2>2, <2>5 DEF r
<1> QED
  BY Zenon, <1>3, <1>5, <1>6 DEF ClosedImage, m

(* The images that compile_config makes of a house are a partition of it:   *)
(* every controller, device, dependency and rule goes to exactly one board, *)
(* the house rules to the only coordinator.                                 *)
THEOREM ImagesArePartition ==
  ASSUME NEW c \in CanonicalConfig, ValidateConfig(c) = "Ok"
  PROVE  Partitioned(c)
<1>1. WellFormed(c)
  BY ValidationExact, Zenon
<1>2. ASSUME NEW b \in BoardIds(c) PROVE CompileConfig(c, b).result = "Ok"
  <2>1. HasBoard(c, b)
    BY IdsFound, Zenon
  <2>2. CompileConfig(c, b) = CompiledConfig(c, b, c.boards[Least(BoardsWith(c, b))])
    BY <2>1, Zenon DEF CompileConfig
  <2>3. \A board : CompiledConfig(c, b, board).result = "Ok"
    BY DEF CompiledConfig
  <2> QED
    BY <2>2, <2>3, Zenon
<1>b. ASSUME NEW b \in BoardIds(c), NEW i
      PROVE  LET m == CompileConfig(c, b)
             IN  /\ i \in DOMAIN c.controllers =>
                      (i \in m["controllers"] <=> c.controllers[i].owner_board_id = b)
                 /\ i \in DOMAIN c.devices =>
                      (i \in m["devices"] <=> c.devices[i].owner_board_id = b)
                 /\ i \in DOMAIN c.dependencies =>
                      (i \in m["dependencies"] <=>
                         c.dependencies[i].owner_board_id = b)
                 /\ i \in DOMAIN c.rules =>
                      (i \in m["rules"] <=>
                         RuleAppliesToBoard(c.rules[i],
                                            c.boards[Least(BoardsWith(c, b))]))
  <2> DEFINE m == CompileConfig(c, b)
             board == c.boards[Least(BoardsWith(c, b))]
  <2>1. ImageOf(c, b, board, m)
    BY <1>2, ImageFields, Zenon
  <2> HIDE DEF m, board
  <2>2. /\ m["controllers"] = m.controllers /\ m["devices"] = m.devices
        /\ m["dependencies"] = m.dependencies /\ m["rules"] = m.rules
    OBVIOUS
  <2>3. /\ i \in DOMAIN c.controllers =>
             (i \in m["controllers"] <=> c.controllers[i].owner_board_id = b)
        /\ i \in DOMAIN c.devices =>
             (i \in m["devices"] <=> c.devices[i].owner_board_id = b)
        /\ i \in DOMAIN c.dependencies =>
             (i \in m["dependencies"] <=> c.dependencies[i].owner_board_id = b)
        /\ i \in DOMAIN c.rules =>
             (i \in m["rules"] <=> RuleAppliesToBoard(c.rules[i], board))
    BY <2>1, <2>2, Zenon DEF ImageOf
  <2> QED
    BY <2>3, Zenon DEF m, board
<1>3. \A i \in DOMAIN c.controllers :
        \E b \in BoardIds(c) : Holders(c, "controllers", i) = {b}
  <2> TAKE i \in DOMAIN c.controllers
  <2>1. \A b \in BoardIds(c) : i \in CompileConfig(c, b)["controllers"] <=>
                                 c.controllers[i].owner_board_id = b
    BY <1>b, Zenon
  <2>2. c.controllers[i].owner_board_id \in BoardIds(c)
    BY <1>1, Zenon DEF WellFormed
  <2> QED
    BY <2>1, <2>2 DEF Holders
<1>4. \A i \in DOMAIN c.devices :
        \E b \in BoardIds(c) : Holders(c, "devices", i) = {b}
  <2> TAKE i \in DOMAIN c.devices
  <2>1. \A b \in BoardIds(c) : i \in CompileConfig(c, b)["devices"] <=>
                                 c.devices[i].owner_board_id = b
    BY <1>b, Zenon
  <2>2. c.devices[i].owner_board_id \in BoardIds(c)
    BY <1>1, Zenon DEF WellFormed
  <2> QED
    BY <2>1, <2>2 DEF Holders
<1>5. \A i \in DOMAIN c.dependencies :
        \E b \in BoardIds(c) : Holders(c, "dependencies", i) = {b}
  <2> TAKE i \in DOMAIN c.dependencies
  <2>1. \A b \in BoardIds(c) : i \in CompileConfig(c, b)["dependencies"] <=>
                                 c.dependencies[i].owner_board_id = b
    BY <1>b, Zenon
  <2>2. c.dependencies[i].owner_board_id \in BoardIds(c)
    BY Zenon, <1>1 DEF WellFormed, DependencyOK, DeviceOn
  <2> QED
    BY <2>1, <2>2 DEF Holders
<1>6. \A i \in DOMAIN c.rules :
        \E b \in BoardIds(c) : Holders(c, "rules", i) = {b}
  <2> TAKE i \in DOMAIN c.rules
  <2> DEFINE r == c.rules[i]
             board(b) == c.boards[Least(BoardsWith(c, b))]
  <2>1. \A b \in BoardIds(c) : i \in CompileConfig(c, b)["rules"] <=>
                                 RuleAppliesToBoard(r, board(b))
    BY <1>b, Zenon
  <2>2. \A b \in BoardIds(c) : /\ Least(BoardsWith(c, b)) \in DOMAIN c.boards
                                /\ board(b).board_id = b
    BY BoardFound, Zenon
  <2>3. CASE r.scope.kind = "BoardLocal"
    <3>1. r.scope.board_id \in BoardIds(c)
      BY Zenon, <1>1, <2>3 DEF WellFormed, RuleOK
    <3>2. \A b \in BoardIds(c) : i \in CompileConfig(c, b)["rules"] <=>
                                  b = r.scope.board_id
      BY <2>1, <2>2, <2>3, Zenon DEF RuleAppliesToBoard
    <3> QED
      BY <3>1, <3>2 DEF Holders
  <2>4. CASE r.scope.kind # "BoardLocal"
    <3>1. PICK k \in DOMAIN c.boards : Coordinators(c) = {k}
      BY Zenon, <1>1 DEF WellFormed
    <3>2. c.boards[k].board_id \in BoardIds(c)
      BY DEF BoardIds
    <3>3. \A b \in BoardIds(c) :
            board(b).role = "Coordinator" <=> b = c.boards[k].board_id
      <4> TAKE b \in BoardIds(c)
      <4>1. board(b).role = "Coordinator" <=> Least(BoardsWith(c, b)) = k
        BY SMTT(40), <2>2, <3>1 DEF Coordinators
      <4>2. Least(BoardsWith(c, b)) = k <=> b = c.boards[k].board_id
        BY Zenon, <1>1, <2>2 DEF WellFormed, UniqueIds
      <4> QED
        BY <4>1, <4>2
    <3>4. \A b \in BoardIds(c) : i \in CompileConfig(c, b)["rules"] <=>
                                  b = c.boards[k].board_id
      BY Zenon, <2>1, <2>4, <3>3 DEF RuleAppliesToBoard
    <3> QED
      BY Zenon, <3>2, <3>4 DEF Holders
  <2> QED
    BY <2>3, <2>4
<1> QED
  BY <1>3, <1>4, <1>5, <1>6 DEF Partitioned

-----------------------------------------------------------------------------
(* Both put together. *)

(* prepare_update implements the update machine that lets any candidate     *)
(* compile or fail, so all that is proved of that one holds here.           *)
THEOREM PipelineUpdates == PipeSpec => CfgSpec
<1>1. PipeInit => CfgInit
  BY DEF PipeInit
<1>2. [PipeNext]_pipeVars => [CfgNext]_cfgVars
  BY DEF PipeNext, Prepare, CfgNext, pipeVars
<1> QED
  BY <1>1, <1>2, PTL DEF PipeSpec, CfgSpec

(* Every complete compiled blob is of an accepted configuration, and so is  *)
(* the one that is being written.                                           *)
StoredAccepted ==
  /\ \A s \in SlotIds : blob[s]["compiled"].state = "good" =>
       Accepted(blob[s]["compiled"].version)
  /\ step \in {"canonical", "canonicalWrite", "compiled", "compiledWrite"} =>
       Accepted(ram.candidate.version)
  /\ plan \in Plans

(* Writing one blob of the candidate leaves all others alone. *)
LEMMA OneBlobChanges ==
  ASSUME CfgTypeOK, NEW k \in Kinds, NEW b, SetBlob(k, b), NEW s \in SlotIds
  PROVE  blob'[s]["compiled"] \in {blob[s]["compiled"], b}
         /\ (k # "compiled" => blob'[s]["compiled"] = blob[s]["compiled"])
  BY DEF CfgTypeOK, SetBlob, Kinds

(* Only the compilation step lets a candidate into the store. *)
LEMMA StoredStep ==
  ASSUME CfgTypeOK, StoredAccepted, [PipeNext]_pipeVars
  PROVE  StoredAccepted'
<1> USE DEF Goto, Kinds
<1>0. plan' = plan
  BY DEF PipeNext, pipeVars
<1>1. \A v : Accepted(v)' <=> Accepted(v)
  BY <1>0 DEF Accepted, Image
<1>2. plan' \in Plans
  BY <1>0 DEF StoredAccepted
<1>3. CASE \E schema \in Schemas, version \in Versions : Boot(schema, version)
  BY Zenon, <1>1, <1>2, <1>3 DEF Boot, StoredAccepted
<1>4. CASE BootReadFails \/ PowerCut \/ EncodeFails \/ WriteFails \/ CommitCandidate
  BY <1>1, <1>2, <1>4
  DEF BootReadFails, PowerCut, EncodeFails, WriteFails, CommitCandidate, StoredAccepted
<1>5. CASE \E slot \in SlotIds, version \in Versions : BeginCandidate(slot, version)
  BY <1>1, <1>2, <1>5 DEF BeginCandidate, StoredAccepted
<1>6. CASE Prepare
  BY <1>1, <1>2, <1>6
  DEF Prepare, Compiles, CompileFails, DiscardCandidate, StoredAccepted
<1>7. CASE WriteBegins
  <2>1. \A s \in SlotIds : blob'[s]["compiled"] \in {blob[s]["compiled"], Torn}
    BY <1>7, OneBlobChanges DEF WriteBegins
  <2>2. Torn.state # "good"
    BY DEF Torn
  <2>3. /\ step \in {"canonical", "compiled"} /\ ram' = ram
        /\ step' \in {"canonicalWrite", "compiledWrite"}
    BY <1>7 DEF WriteBegins
  <2> QED
    BY Zenon, <1>1, <1>2, <2>1, <2>2, <2>3 DEF StoredAccepted
<1>8. CASE WriteEnds
  <2>1. /\ step \in {"canonicalWrite", "compiledWrite"} /\ ram' = ram
        /\ \A s \in SlotIds : blob'[s]["compiled"] \in
             {blob[s]["compiled"], Good(ram.candidate.version)}
    BY <1>8, OneBlobChanges DEF WriteEnds
  <2>2. Good(ram.candidate.version).version = ram.candidate.version
    BY DEF Good
  <2> QED
    BY Zenon, <1>1, <1>2, <2>1, <2>2 DEF StoredAccepted
<1>9. CASE DiscardSlot
  <2>1. \A s \in SlotIds : blob'[s]["compiled"] \in {blob[s]["compiled"], Empty}
    BY <1>9 DEF DiscardSlot, CfgTypeOK
  <2>2. Empty.state # "good" /\ step' = "idle"
    BY <1>9 DEF Empty, DiscardSlot, DiscardCandidate
  <2> QED
    BY <1>1, <1>2, <2>1, <2>2 DEF StoredAccepted
<1>10. CASE Abandon \/ \E slot \in SlotIds : ActivatePrepared(slot)
  BY <1>1, <1>2, <1>10
  DEF Abandon, DiscardCandidate, ActivatePrepared, StoredAccepted
<1>11. CASE UNCHANGED pipeVars
  BY <1>1, <1>2, <1>11 DEF pipeVars, cfgVars, StoredAccepted
<1> QED
  BY <1>3, <1>4, <1>5, <1>6, <1>7, <1>8, <1>9, <1>10, <1>11 DEF PipeNext, StoreStep

(* The invariant of the update machine, with the stored blobs accepted. *)
LEMMA PipelineInvariant == PipeSpec => [](CfgInv /\ StoredAccepted)
<1>1. PipeInit => StoredAccepted
  BY DEF PipeInit, StoredAccepted, CfgInit
<1>2. CfgInv => CfgTypeOK
  BY DEF CfgInv
<1>3. CfgInv /\ StoredAccepted /\ [PipeNext]_pipeVars => StoredAccepted'
  BY <1>2, StoredStep
<1>4. PipeSpec => []CfgInv
  BY PipelineUpdates, CfgInvariant, PTL
<1> QED
  BY <1>1, <1>3, <1>4, PTL DEF PipeSpec

(* Whatever is submitted and whenever power fails, the device boots a       *)
(* closed image that was compiled for its board, for every plan.            *)
THEOREM BootsClosed == PipeSpec => []BootsClosedImage
<1>1. ASSUME CfgInv, StoredAccepted PROVE BootsClosedImage
  <2> SUFFICES ASSUME ActiveVersion # 0
               PROVE  Accepted(ActiveVersion)
                      /\ ClosedImage(plan[ActiveVersion], Image(ActiveVersion))
    BY DEF BootsClosedImage
  <2>1. pointer \in SlotIds /\ ActiveVersion \in 1..MaxVersion
    BY <1>1, ConfigConstantsOK DEF CfgInv, CfgTypeOK, ActiveVersion, Blob, Kinds, Versions
  <2>2. blob[pointer]["compiled"].state = "good"
    BY <1>1, <2>1, BlobValues DEF CfgInv, ActiveSlotIntact, ActiveVersion, Kinds, Versions
  <2>3. Accepted(ActiveVersion)
    BY <1>1, <2>1, <2>2 DEF StoredAccepted, ActiveVersion
  <2>4. plan[ActiveVersion] \in CanonicalConfig
    BY Zenon, <1>1, <2>1, PipelineConstantsOK DEF StoredAccepted
  <2>5. ClosedImage(plan[ActiveVersion], Image(ActiveVersion))
    BY <2>3, <2>4, ImagesClosed DEF Accepted, Image
  <2> QED
    BY <2>3, <2>5
<1> QED
  BY <1>1, PipelineInvariant, PTL

(* A candidate that is being compiled names a version of the plan. *)
LEMMA CandidateInPlan ==
  ASSUME CfgInv, StoredAccepted, step \in {"compile", "canonical"}
  PROVE  plan[ram.candidate.version] \in CanonicalConfig
<1>1. ram.candidate.version \in Versions /\ ActiveVersion \in Versions
      /\ ram.candidate.version > ActiveVersion
  BY DEF CfgInv, CfgTypeOK, CandidateIsSpare, Preparing, ActiveVersion,
         ActiveSlotState, Candidate, Blob, Kinds
<1>2. ram.candidate.version \in 1..MaxVersion
  BY <1>1, ConfigConstantsOK DEF Versions
<1> QED
  BY Zenon, <1>2, PipelineConstantsOK DEF StoredAccepted

(* Every candidate that is compiled is accepted just when it is well-formed *)
(* (and the board exists), for every plan.                                  *)
THEOREM CandidatesJudged == PipeSpec => []ValidateExact
<1>1. ASSUME CfgInv, StoredAccepted PROVE ValidateExact
  BY <1>1, CandidateInPlan, ValidationExact DEF ValidateExact
<1> QED
  BY <1>1, PipelineInvariant, PTL

(* The images made of an accepted configuration, one for each board, are a  *)
(* partition of the house, for every plan.                                  *)
THEOREM CandidatesPartitioned == PipeSpec => []ImagesPartition
<1>1. ASSUME CfgInv, StoredAccepted PROVE ImagesPartition
  <2> SUFFICES ASSUME step = "canonical"
               PROVE  Partitioned(plan[ram.candidate.version])
    BY DEF ImagesPartition
  <2>1. plan[ram.candidate.version] \in CanonicalConfig
    BY <1>1, CandidateInPlan
  <2>2. Image(ram.candidate.version).result = "Ok"
    BY SMTT(40), <1>1 DEF StoredAccepted, Accepted
  <2>3. ValidateConfig(plan[ram.candidate.version]) = "Ok"
    BY Zenon, <2>2 DEF Image, CompileConfig, CompiledConfig
  <2> QED
    BY <2>1, <2>3, ImagesArePartition
<1> QED
  BY <1>1, PipelineInvariant, PTL

(* Whatever is submitted and whenever power fails, ActiveSlotState agrees   *)
(* with the store; only between the write of the pointer and                *)
(* commit_candidate it lags behind, and then its candidate agrees.          *)
THEOREM StateAgreesWithStore == PipeSpec => []StateMatchesStore
<1>1. CfgInv => StateMatchesStore
  BY DEF CfgInv
<1> QED
  BY <1>1, PipelineInvariant, PTL

(* The pipeline with the real compiler updates atomically: whatever fails   *)
(* and whenever power is cut, the active slot is intact, and the active     *)
(* configuration only ever changes to a newer one, in one step.             *)
THEOREM PipelineAtomic == PipeSpec => AtomicUpdates /\ []ActiveSlotIntact
  BY PipelineUpdates, UpdatesAreAtomic, ActiveSlotAlwaysIntact, PTL
=============================================================================
