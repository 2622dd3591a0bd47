---------------------------- MODULE ConfigUpdate ----------------------------
(***************************************************************************)
(* Configuration updates of smartbox-config: ConfigManager over a          *)
(* ConfigStore with several slots, and the ActiveSlotState machine.        *)
(*                                                                         *)
(* A slot holds two enveloped blobs, the canonical configuration and the   *)
(* artifacts compiled from it.  prepare_update writes both to a candidate  *)
(* slot, activate_prepared moves the active-slot pointer, boot_load reads  *)
(* the compiled blob of the slot that the pointer names.  Power may fail   *)
(* between any two store operations, and during the write of a blob.       *)
(*                                                                         *)
(* The store behind the trait and the updater that calls the manager are   *)
(* not in the repository.  A blob write that did not finish leaves a torn  *)
(* blob that decode_enveloped refuses (length or CRC); the pointer is      *)
(* written atomically; the updater follows validate, persist candidate,    *)
(* commit pointer, and does not choose the active slot as the candidate.   *)
(***************************************************************************)
EXTENDS Naturals

CONSTANTS
  SlotIds,     \* ConfigSlotId values of the store; 0 is not one of them
  MaxVersion,  \* u32::MAX
  Schema,      \* SUPPORTED_SCHEMA_VERSION, written into the envelopes
  Schemas      \* schema versions that a boot loader may expect

ASSUME ConfigConstantsOK ==
  /\ SlotIds \subseteq Nat \ {0} /\ SlotIds # {}
  /\ MaxVersion \in Nat
  /\ Schema \in Schemas

VARIABLES
  blob,     \* persistent: the two blobs of every slot
  pointer,  \* persistent: the active slot
  ram,      \* ActiveSlotState: slot, version, candidate
  step      \* how far the updater is

cfgVars == <<blob, pointer, ram, step>>

Kinds == {"canonical", "compiled"}
Versions == 0..MaxVersion
Blob == [state : {"empty", "torn", "good"}, version : Versions]
Empty == [state |-> "empty", version |-> 0]
Torn == [state |-> "torn", version |-> 0]
Good(v) == [state |-> "good", version |-> v]

NoCandidate == [slot |-> 0, version |-> 0]
Candidate == [slot : SlotIds \cup {0}, version : Versions]
ActiveSlotState ==
  [slot : SlotIds \cup {0}, version : Versions, candidate : Candidate]
New(s, v) == [slot |-> s, version |-> v, candidate |-> NoCandidate]
NoRam == New(0, 0)

(* Before and during the write of each blob, and after both. *)
Steps == {"off", "safe", "idle", "compile", "canonical", "canonicalWrite",
          "compiled", "compiledWrite", "discard", "prepared", "activated"}

(* A new device without configuration, or one that left the factory with    *)
(* one.                                                                     *)
CfgInit ==
  \E s \in SlotIds, v \in Versions :
    /\ blob = [t \in SlotIds |-> [k \in Kinds |->
                 IF t = s /\ v # 0 THEN Good(v) ELSE Empty]]
    /\ pointer = s
    /\ ram = NoRam
    /\ step = "off"
-----------------------------------------------------------------------------
Goto(from, to) == step = from /\ step' = to

(* boot_load with the versions that the firmware expects.  The state        *)
(* machine starts from what was loaded, or from version 0 on a new device.  *)
Boot(schema, version) ==
  LET b == blob[pointer]["compiled"]
      ready == b.state = "good" /\ schema = Schema /\ b.version = version
  IN  /\ \/ ready /\ Goto("off", "idle") /\ ram' = New(pointer, b.version)
         \/ b.state = "empty" /\ Goto("off", "idle") /\ ram' = New(pointer, 0)
         \/ ~ready /\ Goto("off", "safe") /\ UNCHANGED ram
      /\ UNCHANGED <<blob, pointer>>

(* read_blob fails: SafeBootReason::Store. *)
BootReadFails ==
  /\ Goto("off", "safe")
  /\ UNCHANGED <<blob, pointer, ram>>

PowerCut ==
  /\ step # "off" /\ step' = "off"
  /\ ram' = NoRam
  /\ UNCHANGED <<blob, pointer>>

(* Mutant of BeginCandidate: the active slot may be the candidate. *)
BeginCandidateAnySlot(slot, version) ==
  /\ Goto("idle", "compile")
  /\ version > ram.version
  /\ ram' = [ram EXCEPT !.candidate = [slot |-> slot, version |-> version]]
  /\ UNCHANGED <<blob, pointer>>

(* Mutant of BeginCandidate: the version may be an old one. *)
BeginCandidateAnyVersion(slot, version) ==
  /\ Goto("idle", "compile")
  /\ version > 0 /\ slot # ram.slot
  /\ ram' = [ram EXCEPT !.candidate = [slot |-> slot, version |-> version]]
  /\ UNCHANGED <<blob, pointer>>

(* begin_candidate.  That the slot is not the active one is up to the       *)
(* caller: neither begin_candidate nor prepare_update tests it.             *)
BeginCandidate(slot, version) ==
  /\ Goto("idle", "compile")
  /\ ram.candidate = NoCandidate
  /\ version > ram.version
  /\ slot # ram.slot
  /\ ram' = [ram EXCEPT !.candidate = [slot |-> slot, version |-> version]]
  /\ UNCHANGED <<blob, pointer>>

(* discard_candidate, which the updater calls when preparation fails or     *)
(* when it decides against the candidate.                                   *)
DiscardCandidate(from) ==
  /\ Goto(from, "idle")
  /\ ram' = [ram EXCEPT !.candidate = NoCandidate]

CompileFails ==
  /\ DiscardCandidate("compile")
  /\ UNCHANGED <<blob, pointer>>

Compiles ==
  /\ Goto("compile", "canonical")
  /\ UNCHANGED <<blob, pointer, ram>>

(* prepare_candidate_slot: encode_enveloped may fail before the store is    *)
(* touched (scratch too small), write_blob may fail half way.               *)
EncodeFails ==
  /\ Goto("canonical", "discard") \/ Goto("compiled", "discard")
  /\ UNCHANGED <<blob, pointer, ram>>

SetBlob(k, b) == blob' = [blob EXCEPT ![ram.candidate.slot][k] = b]

WriteBegins ==
  /\ \/ Goto("canonical", "canonicalWrite") /\ SetBlob("canonical", Torn)
     \/ Goto("compiled", "compiledWrite") /\ SetBlob("compiled", Torn)
  /\ UNCHANGED <<pointer, ram>>

WriteEnds ==
  /\ \/ /\ Goto("canonicalWrite", "compiled")
        /\ SetBlob("canonical", Good(ram.candidate.version))
     \/ /\ Goto("compiledWrite", "prepared")
        /\ SetBlob("compiled", Good(ram.candidate.version))
  /\ UNCHANGED <<pointer, ram>>

WriteFails ==
  /\ Goto("canonicalWrite", "discard") \/ Goto("compiledWrite", "discard")
  /\ UNCHANGED <<blob, pointer, ram>>

(* discard_after_store_failure: discard_slot clears both blobs, or fails.   *)
DiscardSlot ==
  /\ DiscardCandidate("discard")
  /\ \/ blob' = [blob EXCEPT ![ram.candidate.slot] = [k \in Kinds |-> Empty]]
     \/ UNCHANGED blob
  /\ UNCHANGED pointer

Abandon ==
  /\ DiscardCandidate("prepared")
  /\ UNCHANGED <<blob, pointer>>

(* activate_prepared for the prepared slot; another slot is refused. *)
ActivatePrepared(requested) ==
  /\ Goto("prepared", "activated")
  /\ requested = ram.candidate.slot
  /\ pointer' = requested
  /\ UNCHANGED <<blob, ram>>

(* Mutant of CommitCandidate: active_config_version is not updated. *)
CommitCandidateKeepsVersion ==
  /\ Goto("activated", "idle")
  /\ ram' = New(ram.candidate.slot, ram.version)
  /\ UNCHANGED <<blob, pointer>>

CommitCandidate ==
  /\ Goto("activated", "idle")
  /\ ram' = New(ram.candidate.slot, ram.candidate.version)
  /\ UNCHANGED <<blob, pointer>>

(* All but the outcome of the compilation. *)
StoreStep ==
  \/ \E schema \in Schemas, version \in Versions : Boot(schema, version)
  \/ BootReadFails \/ PowerCut
  \/ \E slot \in SlotIds, version \in Versions : BeginCandidate(slot, version)
  \/ EncodeFails \/ WriteBegins \/ WriteEnds \/ WriteFails \/ DiscardSlot
  \/ Abandon \/ (\E slot \in SlotIds : ActivatePrepared(slot)) \/ CommitCandidate

CfgNext == StoreStep \/ Compiles \/ CompileFails

CfgSpec == CfgInit /\ [][CfgNext]_cfgVars
-----------------------------------------------------------------------------
CfgTypeOK ==
  /\ blob \in [SlotIds -> [Kinds -> Blob]]
  /\ pointer \in SlotIds
  /\ ram \in ActiveSlotState
  /\ step \in Steps

ActiveVersion == blob[pointer]["compiled"].version

(* Power may fail at any moment: the slot that the pointer names always has *)
(* both blobs, complete and of the same version, or is that of a device     *)
(* that never had a configuration.  No failed or interrupted prepare_update *)
(* can leave the device without a configuration to boot.                    *)
ActiveSlotIntact ==
  \/ \A k \in Kinds : blob[pointer][k] = Empty
  \/ \A k \in Kinds : blob[pointer][k] = Good(ActiveVersion)

(* ActiveSlotState agrees with the store, so begin_candidate compares new   *)
(* versions with the one that is really active; only between the write of   *)
(* the pointer and commit_candidate does it lag behind.                     *)
StateMatchesStore ==
  step \notin {"off", "safe"} =>
    IF step = "activated"
    THEN ram.candidate = [slot |-> pointer, version |-> ActiveVersion]
    ELSE ram.slot = pointer /\ ram.version = ActiveVersion

(* prepare, activate, boot and power cuts implement an atomic register of   *)
(* the active configuration whose version only grows.                       *)
Register == INSTANCE ConfigRegister WITH current <- ActiveVersion
AtomicUpdates == Register!RegisterSpec
=============================================================================
