----------------------------- MODULE TlsWorkers -----------------------------
(***************************************************************************)
(* The worker pool of the TLS firmware: one accept task and a fixed set of *)
(* worker tasks.  The accept task reserves a worker, listens with a socket *)
(* built over that worker's static buffers, and hands the socket over      *)
(* through WORKER_SOCKETS and WORKER_SIGNALS.  The worker gives itself     *)
(* back by clearing its WORKER_BUSY flag.                                  *)
(*                                                                         *)
(* Buffers and socket slots are UnsafeCells that are borrowed as 'static   *)
(* mutable references; that nobody borrows them twice rests on this        *)
(* protocol alone.  All tasks share one cooperative executor: what a task  *)
(* does between two awaits is one action.  A WORKER_BUSY mutex is held     *)
(* across an await only during the back-off after a failed accept.         *)
(***************************************************************************)
EXTENDS Naturals

CONSTANT NumWorkers  \* MAX_TLS_CONNECTIONS

ASSUME NumWorkersOK == NumWorkers \in Nat \ {0}

VARIABLES
  apc,    \* where the accept task is
  aslot,  \* the worker it works for
  busy,   \* WORKER_BUSY
  sock,   \* WORKER_SOCKETS: is a socket waiting in the slot?
  ready,  \* WORKER_SIGNALS
  wpc     \* where each worker task is

poolVars == <<apc, aslot, busy, sock, ready, wpc>>

Workers == 0..(NumWorkers - 1)

PoolInit ==
  /\ apc = "reserve" /\ aslot = 0
  /\ busy = [w \in Workers |-> FALSE]
  /\ sock = [w \in Workers |-> FALSE]
  /\ ready = [w \in Workers |-> FALSE]
  /\ wpc = [w \in Workers |-> "start"]
-----------------------------------------------------------------------------
(* try_reserve_worker_slot finds the lowest worker that is not busy; then   *)
(* a socket over its buffers listens.                                       *)
Reserve(w) ==
  /\ apc = "reserve" /\ apc' = "listen"
  /\ ~busy[w] /\ \A v \in Workers : v < w => busy[v]
  /\ aslot' = w
  /\ busy' = [busy EXCEPT ![w] = TRUE]
  /\ UNCHANGED <<sock, ready, wpc>>

(* No worker: sleep 50 ms and look again. *)
AllBusy ==
  /\ apc = "reserve" /\ apc' = "sleep"
  /\ \A w \in Workers : busy[w]
  /\ UNCHANGED <<aslot, busy, sock, ready, wpc>>

(* Mutant of SleepEnds: waits until every worker is idle. *)
SleepEndsWhenIdle ==
  /\ apc = "sleep" /\ apc' = "reserve"
  /\ \A w \in Workers : ~busy[w]
  /\ UNCHANGED <<aslot, busy, sock, ready, wpc>>

SleepEnds ==
  /\ apc = "sleep" /\ apc' = "reserve"
  /\ UNCHANGED <<aslot, busy, sock, ready, wpc>>

(* Mutant of AcceptFails: the worker stays reserved. *)
AcceptFailsKeepsWorker ==
  /\ apc = "listen" /\ apc' = "backoff"
  /\ UNCHANGED <<aslot, busy, sock, ready, wpc>>

(* accept failed: the worker is given back, but the socket and the lock on  *)
(* the flag live on through the 250 ms back-off.                            *)
AcceptFails ==
  /\ apc = "listen" /\ apc' = "backoff"
  /\ busy' = [busy EXCEPT ![aslot] = FALSE]
  /\ UNCHANGED <<aslot, sock, ready, wpc>>

BackoffEnds ==
  /\ apc = "backoff" /\ apc' = "reserve"
  /\ UNCHANGED <<aslot, busy, sock, ready, wpc>>

(* Mutant of HandOff: the worker is not woken. *)
HandOffSilently ==
  /\ apc = "listen" /\ apc' = "reserve"
  /\ sock' = [sock EXCEPT ![aslot] = TRUE]
  /\ UNCHANGED <<aslot, busy, ready, wpc>>

(* socket_slot.put and ready.signal. *)
HandOff ==
  /\ apc = "listen" /\ apc' = "reserve"
  /\ sock' = [sock EXCEPT ![aslot] = TRUE]
  /\ ready' = [ready EXCEPT ![aslot] = TRUE]
  /\ UNCHANGED <<aslot, busy, wpc>>
-----------------------------------------------------------------------------
(* wait_for_worker_socket: the slot is looked at before every wait. *)
TakeSocket(w) ==
  /\ sock' = [sock EXCEPT ![w] = FALSE]
  /\ wpc' = [wpc EXCEPT ![w] = IF sock[w] THEN "handshake" ELSE "wait"]

WorkerStarts(w) ==
  /\ wpc[w] = "start"
  /\ TakeSocket(w)
  /\ UNCHANGED <<apc, aslot, busy, ready>>

WorkerWakes(w) ==
  /\ wpc[w] = "wait" /\ ready[w]
  /\ ready' = [ready EXCEPT ![w] = FALSE]
  /\ TakeSocket(w)
  /\ UNCHANGED <<apc, aslot, busy>>

(* transport.accept succeeds, or fails on a bad record or a lost peer. *)
HandshakeEnds(w) ==
  /\ wpc[w] = "handshake"
  /\ wpc' = [wpc EXCEPT ![w] = "serve"] \/ wpc' = [wpc EXCEPT ![w] = "close"]
  /\ UNCHANGED <<apc, aslot, busy, sock, ready>>

(* connection_loop returns, with the transport closed. *)
ConnectionEnds(w) ==
  /\ wpc[w] = "serve"
  /\ wpc' = [wpc EXCEPT ![w] = "release"]
  /\ UNCHANGED <<apc, aslot, busy, sock, ready>>

(* Mutant of CloseEnds: the flag is cleared before the close is awaited. *)
CloseReleasesFirst(w) ==
  /\ wpc[w] = "close" /\ busy[w]
  /\ busy' = [busy EXCEPT ![w] = FALSE]
  /\ UNCHANGED <<apc, aslot, sock, ready, wpc>>

(* transport.close after a failed handshake. *)
CloseEnds(w) ==
  /\ wpc[w] = "close"
  /\ wpc' = [wpc EXCEPT ![w] = "release"]
  /\ UNCHANGED <<apc, aslot, busy, sock, ready>>

(* release_worker_slot, the end of the loop body, where the socket is       *)
(* dropped, and the next look at the socket slot: no await in between.      *)
Release(w) ==
  /\ wpc[w] = "release"
  /\ ~(apc = "backoff" /\ aslot = w)
  /\ busy' = [busy EXCEPT ![w] = FALSE]
  /\ TakeSocket(w)
  /\ UNCHANGED <<apc, aslot, ready>>

Acceptor ==
  \/ \E w \in Workers : Reserve(w)
  \/ AllBusy \/ SleepEnds \/ BackoffEnds

Incoming == AcceptFails \/ HandOff

Worker(w) ==
  \/ WorkerStarts(w) \/ WorkerWakes(w) \/ CloseEnds(w) \/ Release(w)

Client(w) == HandshakeEnds(w) \/ ConnectionEnds(w)

PoolNext ==
  \/ Acceptor \/ Incoming
  \/ \E w \in Workers : Worker(w) \/ Client(w)

PoolSpec == PoolInit /\ [][PoolNext]_poolVars

(* Timers fire and woken tasks are polled; the socket's 30 s timeout bounds *)
(* the write of the close alert.  Nothing makes a client connect, send its  *)
(* hello, or leave.                                                         *)
FairPoolSpec ==
  /\ PoolSpec
  /\ WF_poolVars(Acceptor)
  /\ \A w \in Workers : WF_poolVars(Worker(w))
-----------------------------------------------------------------------------
PoolTypeOK ==
  /\ apc \in {"reserve", "sleep", "listen", "backoff"}
  /\ aslot \in Workers
  /\ busy \in [Workers -> BOOLEAN]
  /\ sock \in [Workers -> BOOLEAN]
  /\ ready \in [Workers -> BOOLEAN]
  /\ wpc \in [Workers ->
       {"start", "wait", "handshake", "serve", "close", "release"}]

(* The three places where a socket over the buffers of worker w can be. *)
Listening(w) == apc \in {"listen", "backoff"} /\ aslot = w
Serving(w) == wpc[w] \in {"handshake", "serve", "close", "release"}

(* WORKER_BUFFERS[w].borrow() never hands out a second pair of mutable      *)
(* references while a socket over the first one lives, and put never drops  *)
(* a socket that the worker has not taken yet.                              *)
BuffersExclusive ==
  \A w \in Workers :
    /\ ~(Listening(w) /\ sock[w])
    /\ ~(Listening(w) /\ Serving(w))
    /\ ~(sock[w] /\ Serving(w))

(* A busy flag always has somebody who will clear it: no path through       *)
(* accept errors, failed handshakes and closed connections loses a worker.  *)
NoWorkerLost ==
  \A w \in Workers :
    busy[w] => (apc = "listen" /\ aslot = w) \/ sock[w] \/ Serving(w)

(* A worker does not sleep over a socket that was handed to it, whether the *)
(* hand-off came before its first poll, or met a stale signal.              *)
HandOffNoticed ==
  \A w \in Workers : sock[w] /\ wpc[w] = "wait" => ready[w]

(* An accepted connection gets its handshake. *)
HandOffServed ==
  \A w \in Workers : sock[w] ~> wpc[w] = "handshake"

(* The firmware keeps accepting: when a worker is free, or becomes free     *)
(* after all were busy, the accept task listens again.                      *)
KeepsAccepting ==
  \A w \in Workers : ~busy[w] ~> apc = "listen"
=============================================================================
