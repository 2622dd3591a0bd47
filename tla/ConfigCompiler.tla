--------------------------- MODULE ConfigCompiler ---------------------------
(***************************************************************************)
(* validate_config and compile_config of smartbox-config as operators.     *)
(*                                                                         *)
(* A configuration describes a house: boards, the controllers and devices  *)
(* that each board owns, dependencies between devices, and rules.  It is   *)
(* compiled for one board at a time.  Identifiers are numbers, and 0 is    *)
(* the invalid one.  What nothing in the compiler looks at (families,      *)
(* kinds, property values, delays, broker and network settings) is left    *)
(* out, and so are the identifiers that errors carry.  An Option is a set  *)
(* of at most one element.                                                 *)
(***************************************************************************)
EXTENDS Naturals, Sequences

SUPPORTED_SCHEMA_VERSION == 1

IsValid(id) == id # 0

BoardRole == {"Coordinator", "Standby", "Zone"}
BoardConfig == [board_id : Nat, role : BoardRole]
ControllerConfig == [controller_id : Nat, owner_board_id : Nat]
DeviceConfig == [device_id : Nat, owner_board_id : Nat, port : SUBSET Nat]

(* Two ends in devices; codes and tag do not matter here. *)
Stm32DependencyConfig ==
  [owner_board_id : Nat, source : Nat, destination : Nat]

(* board_id is used by the first kind only. *)
RuleScope == [kind : {"BoardLocal", "HouseLevel"}, board_id : Nat]

(* id is a device or a board; Schedule and None use it for nothing. *)
Trigger == [kind : {"DeviceChanged", "BoardEvent", "Schedule", "None"}, id : Nat]

(* Likewise. *)
Action == [kind : {"SetDevice", "SendBoardCommand", "PublishEvent"}, id : Nat]

(* A precondition, or the condition of a rule, is the device it reads. *)
Step == [actions : Seq(Action), precondition : SUBSET Nat]

(* The body of a rule is a sequence of steps.  RuleBody::Act is the body    *)
(* with one step and no precondition: both are checked alike.               *)
RuleConfig ==
  [rule_id : Nat, scope : RuleScope, trigger : Trigger,
   condition : SUBSET Nat, body : Seq(Step)]

CanonicalConfig ==
  [schema_version : Nat, house_id : Nat,
   boards : Seq(BoardConfig), controllers : Seq(ControllerConfig),
   devices : Seq(DeviceConfig), dependencies : Seq(Stm32DependencyConfig),
   rules : Seq(RuleConfig)]
-----------------------------------------------------------------------------
(* Result<(), CompileError> is "Ok" or the name of the error. *)
Check(cond, error) == IF cond THEN "Ok" ELSE error

Least(S) == CHOOSE i \in S : \A j \in S : i <= j

(* Checks in the order of the code, each followed by the ? operator: the    *)
(* first error is the result.                                               *)
FirstError(results) ==
  LET failed == {i \in DOMAIN results : results[i] # "Ok"}
  IN  IF failed = {} THEN "Ok" ELSE results[Least(failed)]

BoardsWith(c, b) == {i \in DOMAIN c.boards : c.boards[i].board_id = b}
DevicesWith(c, d) == {i \in DOMAIN c.devices : c.devices[i].device_id = d}

(* find_board(..).is_some(). *)
HasBoard(c, b) == BoardsWith(c, b) # {}

(* owner_of finds the first device with that id. *)
KnownDevice(c, d) == Check(DevicesWith(c, d) # {}, "UnknownDevice")
OwnerOf(c, d) == c.devices[Least(DevicesWith(c, d))].owner_board_id
OwnedBy(c, d, b) == DevicesWith(c, d) # {} => OwnerOf(c, d) = b

Coordinators(c) == {i \in DOMAIN c.boards : c.boards[i].role = "Coordinator"}

ValidateBoard(c, i) ==
  FirstError(<<
    Check(IsValid(c.boards[i].board_id), "EmptyBoardId"),
    Check(\A j \in DOMAIN c.boards :
            j > i => c.boards[j].board_id # c.boards[i].board_id,
          "DuplicateBoardId")>>)

ValidateBoards(c) ==
  FirstError(<<
    FirstError([i \in DOMAIN c.boards |-> ValidateBoard(c, i)]),
    Check(Coordinators(c) # {}, "MissingCoordinator"),
    Check(\A i, j \in Coordinators(c) : i = j, "MultipleCoordinators")>>)

ValidateControllers(c) ==
  FirstError([i \in DOMAIN c.controllers |->
    Check(HasBoard(c, c.controllers[i].owner_board_id),
          "ControllerBoardMissing")])

(* The port of device d is on a controller of the same board. *)
HasController(c, d, p) ==
  \E i \in DOMAIN c.controllers :
    /\ c.controllers[i].controller_id = p
    /\ c.controllers[i].owner_board_id = d.owner_board_id

(* Mutant of ValidateDevice: the scan for duplicates starts one too far. *)
ValidateDeviceSkipsOne(c, i) ==
  LET d == c.devices[i]
  IN  FirstError(<<
        Check(IsValid(d.device_id), "EmptyDeviceId"),
        Check(\A j \in DOMAIN c.devices :
                j > i + 1 => c.devices[j].device_id # d.device_id,
              "DuplicateDeviceId"),
        Check(HasBoard(c, d.owner_board_id), "DeviceBoardMissing"),
        Check(\A p \in d.port : HasController(c, d, p),
              "DeviceControllerMissing")>>)

ValidateDevice(c, i) ==
  LET d == c.devices[i]
  IN  FirstError(<<
        Check(IsValid(d.device_id), "EmptyDeviceId"),
        Check(\A j \in DOMAIN c.devices :
                j > i => c.devices[j].device_id # d.device_id,
              "DuplicateDeviceId"),
        Check(HasBoard(c, d.owner_board_id), "DeviceBoardMissing"),
        Check(\A p \in d.port : HasController(c, d, p),
              "DeviceControllerMissing")>>)

ValidateDevices(c) ==
  FirstError([i \in DOMAIN c.devices |-> ValidateDevice(c, i)])

ValidateDependency(c, p) ==
  FirstError(<<
    Check(HasBoard(c, p.owner_board_id), "DependencyBoardMissing"),
    KnownDevice(c, p.source),
    KnownDevice(c, p.destination),
    Check(OwnedBy(c, p.source, p.owner_board_id)
            /\ OwnedBy(c, p.destination, p.owner_board_id),
          "DependencyCrossesBoards")>>)

ValidateDependencies(c) ==
  FirstError([i \in DOMAIN c.dependencies |->
                ValidateDependency(c, c.dependencies[i])])

ValidateTrigger(c, t) ==
  CASE t.kind = "DeviceChanged" -> KnownDevice(c, t.id)
    [] t.kind = "BoardEvent" -> Check(HasBoard(c, t.id), "MissingBoard")
    [] t.kind \in {"Schedule", "None"} -> "Ok"

(* validate_condition and validate_property. *)
ValidateCondition(c, devices) ==
  Check(\A d \in devices : DevicesWith(c, d) # {}, "UnknownDevice")

ValidateAction(c, scope, a) ==
  CASE a.kind = "SetDevice" -> FirstError(<<
         KnownDevice(c, a.id),
         Check(scope.kind = "BoardLocal" => OwnedBy(c, a.id, scope.board_id),
               "BoardLocalRuleTargetsRemoteDevice")>>)
    [] a.kind = "SendBoardCommand" -> Check(HasBoard(c, a.id), "MissingBoard")
    [] a.kind = "PublishEvent" -> "Ok"

(* Mutant of ValidateActions: the first action stands for all of them. *)
ValidateActionsFirstOnly(c, scope, actions) ==
  FirstError([k \in DOMAIN actions \cap {1} |-> ValidateAction(c, scope, actions[k])])

ValidateActions(c, scope, actions) ==
  FirstError([k \in DOMAIN actions |-> ValidateAction(c, scope, actions[k])])

ValidateStep(c, scope, step) ==
  FirstError(<<
    Check(step.actions # <<>>, "EmptyRuleBody"),
    ValidateCondition(c, step.precondition),
    ValidateActions(c, scope, step.actions)>>)

ValidateRuleBody(c, rule) ==
  FirstError(<<
    Check(rule.body # <<>>, "EmptyRuleBody"),
    FirstError([n \in DOMAIN rule.body |->
                  ValidateStep(c, rule.scope, rule.body[n])])>>)

ValidateRule(c, i) ==
  LET r == c.rules[i]
  IN  FirstError(<<
        Check(IsValid(r.rule_id), "EmptyRuleId"),
        Check(\A j \in DOMAIN c.rules :
                j > i => c.rules[j].rule_id # r.rule_id, "DuplicateRuleId"),
        Check(r.scope.kind = "BoardLocal" => HasBoard(c, r.scope.board_id),
              "RuleScopeBoardMissing"),
        ValidateTrigger(c, r.trigger),
        ValidateCondition(c, r.condition),
        ValidateRuleBody(c, r)>>)

ValidateRules(c) ==
  FirstError([i \in DOMAIN c.rules |-> ValidateRule(c, i)])

ValidateConfig(c) ==
  FirstError(<<
    Check(c.schema_version = SUPPORTED_SCHEMA_VERSION,
          "UnsupportedSchemaVersion"),
    Check(IsValid(c.house_id), "EmptyHouseId"),
    ValidateBoards(c), ValidateControllers(c), ValidateDevices(c),
    ValidateDependencies(c), ValidateRules(c)>>)
-----------------------------------------------------------------------------
(* Mutant of RuleAppliesToBoard: house rules go to every board. *)
RuleAppliesEverywhere(rule, board) ==
  rule.scope.kind = "BoardLocal" => rule.scope.board_id = board.board_id

RuleAppliesToBoard(rule, board) ==
  IF rule.scope.kind = "BoardLocal"
  THEN rule.scope.board_id = board.board_id
  ELSE board.role = "Coordinator"

(* CompiledConfig, the image of c for one board.  A list that is filtered   *)
(* by position is given by the positions it keeps.                          *)
CompiledConfig(c, b, board) ==
  LET owned(list) == {i \in DOMAIN list : list[i].owner_board_id = b}
  IN  [result |-> "Ok",
       board |-> board,
       controllers |-> owned(c.controllers),
       devices |-> owned(c.devices),
       dependencies |-> owned(c.dependencies),
       rules |-> {i \in DOMAIN c.rules : RuleAppliesToBoard(c.rules[i], board)},
       topology |-> [i \in DOMAIN c.devices |->
                       [device_id |-> c.devices[i].device_id,
                        owner_board_id |-> c.devices[i].owner_board_id]]]

(* compile_config.  The capacities of source and target are the same, so    *)
(* CapacityExceeded cannot occur.                                           *)
CompileConfig(c, b) ==
  IF ValidateConfig(c) # "Ok" THEN [result |-> ValidateConfig(c)]
  ELSE IF ~HasBoard(c, b) THEN [result |-> "MissingTargetBoard"]
  ELSE CompiledConfig(c, b, c.boards[Least(BoardsWith(c, b))])
-----------------------------------------------------------------------------
(* What a configuration ought to be, said without an order of checks.       *)

BoardIds(c) == {c.boards[i].board_id : i \in DOMAIN c.boards}
DeviceIds(c) == {c.devices[i].device_id : i \in DOMAIN c.devices}

(* Identifiers are valid and used once. *)
UniqueIds(id) ==
  /\ \A i \in DOMAIN id : id[i] # 0
  /\ \A i, j \in DOMAIN id : id[i] = id[j] => i = j

(* Some device d is on board b. *)
DeviceOn(c, d, b) ==
  \E i \in DOMAIN c.devices :
    c.devices[i].device_id = d /\ c.devices[i].owner_board_id = b

DependencyOK(c, p) ==
  DeviceOn(c, p.source, p.owner_board_id)
    /\ DeviceOn(c, p.destination, p.owner_board_id)

ActionOK(c, scope, a) ==
  /\ a.kind = "SetDevice" =>
       IF scope.kind = "BoardLocal" THEN DeviceOn(c, a.id, scope.board_id)
       ELSE a.id \in DeviceIds(c)
  /\ a.kind = "SendBoardCommand" => a.id \in BoardIds(c)

StepOK(c, scope, step) ==
  /\ step.actions # <<>>
  /\ step.precondition \subseteq DeviceIds(c)
  /\ \A k \in DOMAIN step.actions : ActionOK(c, scope, step.actions[k])

RuleOK(c, r) ==
  /\ r.scope.kind = "BoardLocal" => r.scope.board_id \in BoardIds(c)
  /\ r.trigger.kind = "DeviceChanged" => r.trigger.id \in DeviceIds(c)
  /\ r.trigger.kind = "BoardEvent" => r.trigger.id \in BoardIds(c)
  /\ r.condition \subseteq DeviceIds(c)
  /\ r.body # <<>>
  /\ \A n \in DOMAIN r.body : StepOK(c, r.scope, r.body[n])

WellFormed(c) ==
  /\ c.schema_version = SUPPORTED_SCHEMA_VERSION /\ c.house_id # 0
  /\ UniqueIds([i \in DOMAIN c.boards |-> c.boards[i].board_id])
  /\ UniqueIds([i \in DOMAIN c.devices |-> c.devices[i].device_id])
  /\ UniqueIds([i \in DOMAIN c.rules |-> c.rules[i].rule_id])
  /\ \E i \in DOMAIN c.boards : Coordinators(c) = {i}
  /\ \A i \in DOMAIN c.controllers :
       c.controllers[i].owner_board_id \in BoardIds(c)
  /\ \A i \in DOMAIN c.devices :
       /\ c.devices[i].owner_board_id \in BoardIds(c)
       /\ \A p \in c.devices[i].port : HasController(c, c.devices[i], p)
  /\ \A i \in DOMAIN c.dependencies :
       DependencyOK(c, c.dependencies[i])
  /\ \A i \in DOMAIN c.rules : RuleOK(c, c.rules[i])

(* An image can do its work by itself: a board has the controllers of its   *)
(* devices, both ends of its dependencies and the targets of its own rules; *)
(* the devices that a rule reads or sets are in its topology.               *)
LocalIds(c, image) == {c.devices[i].device_id : i \in image.devices}
TopologyIds(image) ==
  {image.topology[i].device_id : i \in DOMAIN image.topology}

RuleReads(r) ==
  r.condition \cup (UNION {r.body[n].precondition : n \in DOMAIN r.body})
    \cup {d \in {r.trigger.id} : r.trigger.kind = "DeviceChanged"}

SetBy(step) ==
  {step.actions[k].id :
     k \in {m \in DOMAIN step.actions : step.actions[m].kind = "SetDevice"}}

ClosedImage(c, image) ==
  /\ \A i \in image.devices : \A p \in c.devices[i].port :
       \E k \in image.controllers : c.controllers[k].controller_id = p
  /\ \A i \in image.dependencies :
       {c.dependencies[i].source, c.dependencies[i].destination}
         \subseteq LocalIds(c, image)
  /\ \A i \in image.rules :
       /\ RuleReads(c.rules[i]) \subseteq TopologyIds(image)
       /\ \A n \in DOMAIN c.rules[i].body :
            SetBy(c.rules[i].body[n]) \subseteq
              IF c.rules[i].scope.kind = "BoardLocal"
              THEN LocalIds(c, image) ELSE TopologyIds(image)

(* The boards whose image has item i of a list. *)
Holders(c, list, i) == {b \in BoardIds(c) : i \in CompileConfig(c, b)[list]}

Partitioned(c) ==
  \A list \in {"controllers", "devices", "dependencies", "rules"} :
    \A i \in DOMAIN c[list] : \E b \in BoardIds(c) : Holders(c, list, i) = {b}
=============================================================================
