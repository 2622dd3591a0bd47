-------------------------- MODULE MCConfigPipeline --------------------------
(***************************************************************************)
(* ConfigPipeline for TLC.  Version 1 is a small house; the candidates are *)
(* the combinations of the lists below, most of them wrong in one or more  *)
(* ways.  Boards are 1 (coordinator) and 2; 3 exists nowhere.              *)
(***************************************************************************)
EXTENDS ConfigPipeline, TLC

B(id, role) == [board_id |-> id, role |-> role]
C(id, owner) == [controller_id |-> id, owner_board_id |-> owner]
D(id, owner, port) == [device_id |-> id, owner_board_id |-> owner, port |-> port]
P(owner, from, to) == [owner_board_id |-> owner, source |-> from, destination |-> to]
R(id, scope, trigger, condition, body) ==
  [rule_id |-> id, scope |-> scope, trigger |-> trigger,
   condition |-> condition, body |-> body]

Local(b) == [kind |-> "BoardLocal", board_id |-> b]
House == [kind |-> "HouseLevel", board_id |-> 0]
T(kind, id) == [kind |-> kind, id |-> id]
A(kind, id) == [kind |-> kind, id |-> id]
Act(actions) == <<[actions |-> actions, precondition |-> {}]>>
When(d, actions) == <<[actions |-> actions, precondition |-> {d}]>>
None == T("None", 0)
Set(d) == A("SetDevice", d)

Two == <<B(1, "Coordinator"), B(2, "Zone")>>

BoardLists == {Two, <<B(1, "Coordinator")>>, <<B(2, "Coordinator"), B(1, "Standby")>>}

WrongBoardLists == {
  <<>>, <<B(1, "Zone"), B(2, "Zone")>>, <<B(1, "Coordinator"), B(2, "Coordinator")>>,
  <<B(1, "Coordinator"), B(1, "Zone")>>, <<B(0, "Coordinator"), B(1, "Zone")>>}

ControllerLists == {<<>>, <<C(1, 1), C(1, 2)>>, <<C(1, 1)>>, <<C(1, 3)>>}

DeviceLists == {
  <<>>, <<D(1, 1, {}), D(2, 2, {})>>, <<D(1, 1, {1}), D(2, 2, {1})>>,
  <<D(1, 1, {}), D(1, 2, {})>>, <<D(1, 2, {}), D(2, 1, {}), D(1, 1, {})>>,
  <<D(0, 1, {})>>, <<D(1, 3, {})>>, <<D(2, 1, {}), D(1, 1, {})>>}

DependencyLists == {
  <<>>, <<P(1, 1, 1)>>, <<P(2, 2, 1)>>, <<P(1, 2, 1), P(2, 2, 2)>>, <<P(3, 1, 1)>>}

RuleLists == {
  <<>>,
  <<R(1, House, T("DeviceChanged", 1), {2}, Act(<<Set(1), Set(2)>>)),
    R(2, Local(1), T("BoardEvent", 2), {}, When(1, <<A("PublishEvent", 0), Set(1)>>))>>,
  <<R(1, Local(2), None, {}, Act(<<Set(2), Set(1)>>))>>,
  <<R(1, Local(2), T("Schedule", 0), {},
      Act(<<A("SendBoardCommand", 1)>>) \o When(1, <<Set(2)>>))>>,
  <<R(1, Local(3), None, {}, Act(<<A("PublishEvent", 0)>>))>>,
  <<R(1, House, None, {}, Act(<<>>))>>, <<R(1, House, None, {}, <<>>)>>,
  <<R(1, House, T("DeviceChanged", 3), {}, Act(<<Set(1)>>))>>,
  <<R(1, House, T("BoardEvent", 3), {}, Act(<<Set(1)>>))>>,
  <<R(1, House, None, {3}, Act(<<Set(1)>>))>>,
  <<R(1, House, None, {}, When(3, <<Set(1)>>))>>,
  <<R(1, House, None, {}, Act(<<Set(1), A("SendBoardCommand", 3)>>))>>,
  <<R(0, House, None, {}, Act(<<Set(1)>>))>>,
  <<R(1, House, None, {}, Act(<<Set(1)>>)), R(1, Local(1), None, {}, Act(<<Set(1)>>))>>}

Config(schema, house, boards, controllers, devices, dependencies, rules) ==
  [schema_version |-> schema, house_id |-> house, boards |-> boards,
   controllers |-> controllers, devices |-> devices,
   dependencies |-> dependencies, rules |-> rules]

Factory == Config(1, 1, Two, <<>>, <<D(1, 1, {})>>, <<>>, <<>>)

Candidates ==
  {Config(1, 1, b, c, d, <<>>, r) :
     b \in BoardLists, c \in ControllerLists, d \in DeviceLists, r \in RuleLists}
  \cup {Config(1, 1, b, <<C(1, 1), C(1, 2)>>, d, p, r) :
     b \in BoardLists, d \in DeviceLists, p \in DependencyLists, r \in RuleLists}
  \cup {Config(1, 1, b, <<>>, d, <<>>, <<>>) :
     b \in WrongBoardLists, d \in DeviceLists}
  \cup {[Factory EXCEPT !.schema_version = 2], [Factory EXCEPT !.house_id = 0]}

MCPlans == {<<Factory, c>> : c \in Candidates}
=============================================================================
