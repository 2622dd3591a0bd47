-------------------------- MODULE MCSubscriptions --------------------------
(* Two topics with exact, '+' and '#' filters that overlap, and filters     *)
(* that must be refused; reserved and empty levels among the probes.  One   *)
(* topic changes its value, is deleted and has wills; the other is there to *)
(* fill the store and the replay.                                           *)
EXTENDS Subscriptions, TLC

CONSTANTS v, w, x

MCTopics == {<<"a">>, <<"a", "b">>}
MCProbeTopics == {<<"$s", "b">>, <<"", "b">>, <<"a", "b", "c">>}
MCRequests ==
  {[filter |-> <<"a">>, qos |-> "qos0"], [filter |-> <<"a">>, qos |-> "qos1"],
   [filter |-> <<"+", "b">>, qos |-> "qos0"], [filter |-> <<"#">>, qos |-> "qos0"],
   [filter |-> <<"#", "b">>, qos |-> "qos0"]}
MCPayloads == {"", v, w, x}
MCPublishes ==
  [topic : {<<"a">>}, payload : {"", v, w, NotRetained}] \cup [topic : {<<"a", "b">>}, payload : {x}]
MCWills == [topic : {<<"a">>}, payload : {v, w}]
MCPlusLevels == {"+", "a+"}
MCHashLevels == {"#", "b#"}
MCSymmetry == Permutations({v, w})
=============================================================================
