-------------------------- MODULE TlsWorkersProofs --------------------------
(***************************************************************************)
(* The hand-over protocol of the TLS workers is safe for any number of     *)
(* workers.  The properties are not inductive by themselves: that a free   *)
(* worker has no socket anywhere is what the busy flag means, and what     *)
(* makes the next reservation safe.                                        *)
(***************************************************************************)
EXTENDS TlsWorkers, TLAPS

(* What the busy flag stands for: whoever holds a socket over the buffers   *)
(* of w holds w reserved, except during the back-off after a failed accept, *)
(* when the accept task itself is the only one with a socket.               *)
FlagCovers(w) ==
  /\ apc = "listen" /\ aslot = w => busy[w]
  /\ sock[w] => busy[w]
  /\ Serving(w) => busy[w]
  /\ apc = "backoff" /\ aslot = w => ~busy[w]

PoolInv ==
  /\ PoolTypeOK
  /\ \A w \in Workers : FlagCovers(w)
  /\ BuffersExclusive
  /\ NoWorkerLost
  /\ HandOffNoticed

(* Initially nobody holds a socket. *)
LEMMA PoolInitInv == PoolInit => PoolInv
  BY SMTT(40), NumWorkersOK
  DEF PoolInit, PoolInv, PoolTypeOK, FlagCovers, BuffersExclusive,
      NoWorkerLost, HandOffNoticed, Listening, Serving, Workers

(* Every step of the accept task and of the workers keeps the invariant. *)
LEMMA PoolStepInv == PoolInv /\ [PoolNext]_poolVars => PoolInv'
<1> SUFFICES ASSUME PoolInv, [PoolNext]_poolVars PROVE PoolInv'
  OBVIOUS
<1> USE DEF PoolInv, PoolTypeOK, FlagCovers, BuffersExclusive, NoWorkerLost,
            HandOffNoticed, Listening, Serving
<1>1. ASSUME NEW w \in Workers, Reserve(w) PROVE PoolInv'
  BY <1>1 DEF Reserve
<1>2. CASE AllBusy
  BY <1>2 DEF AllBusy
<1>3. CASE SleepEnds
  BY <1>3 DEF SleepEnds
<1>4. CASE BackoffEnds
  BY <1>4 DEF BackoffEnds
<1>5. CASE AcceptFails
  BY <1>5 DEF AcceptFails
<1>6. CASE HandOff
  BY <1>6 DEF HandOff
<1>7. ASSUME NEW w \in Workers, WorkerStarts(w) PROVE PoolInv'
  BY <1>7 DEF WorkerStarts, TakeSocket
<1>8. ASSUME NEW w \in Workers, WorkerWakes(w) PROVE PoolInv'
  BY <1>8 DEF WorkerWakes, TakeSocket
<1>9. ASSUME NEW w \in Workers, HandshakeEnds(w) PROVE PoolInv'
  BY <1>9 DEF HandshakeEnds
<1>10. ASSUME NEW w \in Workers, ConnectionEnds(w) PROVE PoolInv'
  BY <1>10 DEF ConnectionEnds
<1>11. ASSUME NEW w \in Workers, CloseEnds(w) PROVE PoolInv'
  BY <1>11 DEF CloseEnds
<1>12. ASSUME NEW w \in Workers, Release(w) PROVE PoolInv'
  BY <1>12 DEF Release, TakeSocket
<1>13. CASE UNCHANGED poolVars
  BY <1>13 DEF poolVars
<1> QED
  BY Zenon, <1>1, <1>2, <1>3, <1>4, <1>5, <1>6, <1>7, <1>8, <1>9, <1>10, <1>11,
     <1>12, <1>13
  DEF PoolNext, Acceptor, Incoming, Worker, Client

(* The invariant holds in every reachable state. *)
LEMMA PoolInvariant == PoolSpec => []PoolInv
  BY PoolInitInv, PoolStepInv, PTL DEF PoolSpec

(* The accept task and the workers stay within their states. *)
THEOREM PoolTypeCorrect == PoolSpec => []PoolTypeOK
<1>1. PoolInv => PoolTypeOK
  BY DEF PoolInv
<1> QED
  BY <1>1, PoolInvariant, PTL

(* WORKER_BUFFERS[w] is never borrowed twice, and a handed-over socket is   *)
(* never overwritten.                                                       *)
THEOREM BuffersNeverShared == PoolSpec => []BuffersExclusive
<1>1. PoolInv => BuffersExclusive
  BY DEF PoolInv
<1> QED
  BY <1>1, PoolInvariant, PTL

(* No path through the firmware loses a worker. *)
THEOREM WorkersNeverLost == PoolSpec => []NoWorkerLost
<1>1. PoolInv => NoWorkerLost
  BY DEF PoolInv
<1> QED
  BY <1>1, PoolInvariant, PTL

(* No worker sleeps over a socket that was handed to it. *)
THEOREM HandOffsNoticed == PoolSpec => []HandOffNoticed
<1>1. PoolInv => HandOffNoticed
  BY DEF PoolInv
<1> QED
  BY <1>1, PoolInvariant, PTL
=============================================================================
