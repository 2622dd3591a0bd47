--------------------------- MODULE ConfigRegister ---------------------------
(***************************************************************************)
(* What smartbox-config promises: the device has one configuration at a    *)
(* time, an update replaces it in one step by a newer one, and nothing     *)
(* else, a failed update or a power cut included, changes it.              *)
(***************************************************************************)
EXTENDS Naturals

CONSTANT MaxVersion  \* u32::MAX

VARIABLE current     \* config_version of the active configuration, 0: none

RegisterInit == current \in 0..MaxVersion

Update == \E v \in (current + 1)..MaxVersion : current' = v

RegisterSpec == RegisterInit /\ [][Update]_current
=============================================================================
