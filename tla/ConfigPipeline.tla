--------------------------- MODULE ConfigPipeline ---------------------------
(***************************************************************************)
(* prepare_update as a whole: ConfigUpdate with the compiler inside.  The  *)
(* author of the configurations (external) has a plan: what each version   *)
(* says.  A candidate is written only if it compiles for the board of this *)
(* device, and what boots is the image that was compiled then.             *)
(***************************************************************************)
EXTENDS ConfigUpdate, ConfigCompiler

CONSTANTS
  Board,   \* the board that this device is
  Plans    \* what the versions may say: functions from 1..MaxVersion

ASSUME PipelineConstantsOK ==
  /\ Board \in Nat
  /\ Plans \subseteq [1..MaxVersion -> CanonicalConfig]

VARIABLE plan

pipeVars == <<cfgVars, plan>>

Image(v) == CompileConfig(plan[v], Board)

(* compile_config(config, target_board_id) is Ok. *)
Accepted(v) == Image(v).result = "Ok"

(* A configuration from the factory was compiled as well. *)
PipeInit ==
  /\ CfgInit /\ plan \in Plans
  /\ \A s \in SlotIds :
       blob[s]["compiled"].state = "good" => Accepted(blob[s]["compiled"].version)

Prepare ==
  \/ Compiles /\ Accepted(ram.candidate.version)
  \/ CompileFails /\ ~Accepted(ram.candidate.version)

PipeNext == (StoreStep \/ Prepare) /\ UNCHANGED plan

PipeSpec == PipeInit /\ [][PipeNext]_pipeVars
-----------------------------------------------------------------------------
(* validate_config accepts exactly the well-formed configurations: its      *)
(* order of checks lets nothing through, although owner_of only looks at    *)
(* the first device with an id and each list is scanned before the next.    *)
ValidateExact ==
  step = "compile" =>
    LET c == plan[ram.candidate.version]
    IN  (ValidateConfig(c) = "Ok") <=> WellFormed(c)

(* The images of a house are a partition of it: every controller, device,   *)
(* dependency and rule is on exactly one board, so nothing is lost and no   *)
(* rule runs twice.                                                         *)
ImagesPartition ==
  step = "canonical" => Partitioned(plan[ram.candidate.version])

(* Whatever was submitted and whenever power failed: the configuration that *)
(* the device boots was accepted for its board, and its image is closed.    *)
BootsClosedImage ==
  ActiveVersion # 0 =>
    Accepted(ActiveVersion) /\ ClosedImage(plan[ActiveVersion], Image(ActiveVersion))
=============================================================================
