------------------------------ MODULE Outboxes ------------------------------
(***************************************************************************)
(* What the broker promises for the frames it queues: every session has a  *)
(* bounded outbox.  A publish or a will puts at most one frame at the end  *)
(* of each outbox with room, a connection takes frames from the front, and *)
(* frames go unwritten only together with their session.                   *)
(***************************************************************************)
EXTENDS Sequences, Naturals

CONSTANTS
  Sids,    \* session slots
  Frames,
  Depth    \* capacity of an outbox

VARIABLES
  live,    \* sessions
  boxes    \* their outboxes

boxVars == <<live, boxes>>

BoxInit == live = {} /\ boxes = [s \in Sids |-> <<>>]

Open(s) ==
  /\ s \notin live /\ live' = live \cup {s}
  /\ boxes' = [boxes EXCEPT ![s] = <<>>]

Discard(s) ==
  /\ s \in live /\ live' = live \ {s}
  /\ boxes' = [boxes EXCEPT ![s] = <<>>]

(* A client starts afresh: its session goes and a new one takes slot t. *)
Reopen(s, t) ==
  /\ s \in live /\ t \notin live \ {s} /\ live' = (live \ {s}) \cup {t}
  /\ boxes' = [boxes EXCEPT ![s] = <<>>, ![t] = <<>>]

Post(S) ==
  /\ \A s \in S : Len(boxes[s]) < Depth
  /\ \E f \in [S -> Frames] :
       boxes' = [s \in Sids |-> IF s \in S THEN Append(boxes[s], f[s]) ELSE boxes[s]]
  /\ UNCHANGED live

Take(s) ==
  /\ boxes[s] # <<>> /\ boxes' = [boxes EXCEPT ![s] = Tail(@)]
  /\ UNCHANGED live

BoxNext ==
  \/ \E s \in Sids : Open(s) \/ Discard(s)
  \/ \E s, t \in Sids : Reopen(s, t)
  \/ \E S \in SUBSET live : Post(S)
  \/ \E s \in live : Take(s)

BoxSpec == BoxInit /\ [][BoxNext]_boxVars
=============================================================================
