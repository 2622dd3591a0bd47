------------------------------ MODULE MCBroker ------------------------------
(* Instances of Broker for TLC. *)
EXTENDS Broker, TLC

CONSTANT t1

PlainWill == [topic |-> t1, retain |-> "none", size |-> "small"]
PlainWills == {PlainWill}

ConnSymmetry == Permutations(Conns) \cup Permutations(Clients)

(* All of the state but the history variable owner, for runs whose          *)
(* properties do not read it.                                               *)
NoHistory == <<connVars, sharedVars, lockVars, psVars>>
=============================================================================
