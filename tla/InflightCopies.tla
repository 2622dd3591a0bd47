--------------------------- MODULE InflightCopies ---------------------------
(***************************************************************************)
(* What the shared publish store promises: it is as if every session kept  *)
(* a copy of its own of each unacknowledged publish.  There is no store    *)
(* here, no handle, no generation and no reference count.  What a session  *)
(* acknowledges, retries or takes away when it ends changes no copy of     *)
(* another session.  Sharing shows only in this: a publish may be routed   *)
(* to a session without being kept for it.                                 *)
(***************************************************************************)
EXTENDS Naturals

CONSTANTS
  Sids,        \* session slots
  Places,      \* places for copies in each session
  PidMax,      \* u16::MAX
  MaxRetries,  \* qos1_max_retries
  Msgs

VARIABLES
  live,    \* sessions
  copies,  \* per session, its set of copies
  nextPid  \* per session, the packet id that it drew last

copyVars == <<live, copies, nextPid>>

Drawn(p) == IF p = PidMax THEN 1 ELSE p + 1

CopyOf(m, k, pid) ==
  [place |-> k, pid |-> pid, msg |-> m, retries |-> 0, due |-> FALSE]

CopyInit ==
  /\ live = {}
  /\ copies = [s \in Sids |-> {}]
  /\ nextPid = [s \in Sids |-> 0]

(* A session begins; a session ends; a client starts afresh. *)
Begin(s) ==
  /\ s \notin live /\ live' = live \cup {s}
  /\ copies' = [copies EXCEPT ![s] = {}]
  /\ nextPid' = [nextPid EXCEPT ![s] = 0]

End(s) ==
  /\ s \in live /\ live' = live \ {s}
  /\ copies' = [copies EXCEPT ![s] = {}]
  /\ nextPid' = [nextPid EXCEPT ![s] = 0]

Restart(s, t) ==
  /\ s \in live /\ t \notin live \ {s} /\ live' = (live \ {s}) \cup {t}
  /\ copies' = [copies EXCEPT ![s] = {}, ![t] = {}]
  /\ nextPid' = [nextPid EXCEPT ![s] = 0, ![t] = 0]

(* A publish is routed to the targets.  Each of them draws a packet id, and *)
(* the keepers among them put a copy into a free place.                     *)
Deliver(targets, keepers, m) ==
  /\ UNCHANGED live
  /\ nextPid' = [s \in Sids |-> IF s \in targets THEN Drawn(nextPid[s]) ELSE nextPid[s]]
  /\ \E at \in [keepers -> Places] :
       /\ \A s \in keepers : \A c \in copies[s] : c.place # at[s]
       /\ copies' = [s \in Sids |->
            IF s \in keepers
            THEN copies[s] \cup {CopyOf(m, at[s], Drawn(nextPid[s]))}
            ELSE copies[s]]

(* A publish that nobody keeps. *)
Forward(targets) ==
  /\ UNCHANGED live
  /\ nextPid' = [s \in Sids |-> IF s \in targets THEN Drawn(nextPid[s]) ELSE nextPid[s]]
  /\ UNCHANGED copies

(* Session s drops its copy c, or replaces it by d. *)
Drop(s, c) == copies' = [copies EXCEPT ![s] = @ \ {c}]
Become(s, c, d) == copies' = [copies EXCEPT ![s] = (@ \ {c}) \cup {d}]

(* A PUBACK; the retry timeout; the count of a retry; its end.  A copy that *)
(* is sent again is the one that was made for the session.                  *)
Handle(s, c) ==
  /\ UNCHANGED <<live, nextPid>>
  /\ \/ Drop(s, c)
     \/ ~c.due /\ Become(s, c, [c EXCEPT !.due = TRUE])
     \/ c.due /\ Become(s, c, [c EXCEPT !.retries = IF @ > MaxRetries THEN @ ELSE @ + 1])
     \/ c.due /\ c.retries \in 1..MaxRetries /\ Become(s, c, [c EXCEPT !.due = FALSE])

CopyNext ==
  \/ \E s \in Sids : Begin(s) \/ End(s)
  \/ \E s, t \in Sids : Restart(s, t)
  \/ \E targets \in SUBSET live :
       \/ Forward(targets)
       \/ \E keepers \in SUBSET targets, m \in Msgs : Deliver(targets, keepers, m)
  \/ \E s \in Sids : \E c \in copies[s] : Handle(s, c)

CopySpec == CopyInit /\ [][CopyNext]_copyVars
=============================================================================
