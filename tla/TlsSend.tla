------------------------------ MODULE TlsSend -------------------------------
(***************************************************************************)
(* The sending side of one TLS connection, from the handshake to the drop  *)
(* of the socket: write_packet over TlsTransport::write, which cuts a      *)
(* frame into records, over TcpTransport::write, which pushes a record     *)
(* into a socket buffer that takes a part of it at a time.  Each of the    *)
(* loops may fail half way, and close then tries to send close_notify on   *)
(* the same stream.                                                        *)
(*                                                                         *)
(* The MQTT bytes are numbered 0, 1, 2, ...  A record is a header cell and *)
(* a cell per byte.  The peer (external) collects cells into records and   *)
(* decrypts those that are whole and the next in number.                   *)
(***************************************************************************)
EXTENDS Integers, Sequences

CONSTANTS
  FrameLens,  \* bytes of a frame
  MaxFrames,  \* bound: frames that the connection loop writes
  MaxChunk,   \* BUF - record_header(5) - inner_marker(1) - aead_tag(16)
  SendBuf     \* cells in the send buffer of the socket

ASSUME SendConstantsOK ==
  /\ FrameLens \subseteq Nat \ {0} /\ MaxFrames \in Nat
  /\ MaxChunk \in Nat \ {0} /\ SendBuf \in Nat \ {0}

VARIABLES
  pc,       \* where the worker task is
  hs,       \* progress of do_accept; "done" is handshake_done
  closed,   \* EmbeddedTlsPskSession::closed
  frames,   \* frames that were handed to write
  total,    \* their bytes
  buf,      \* buf[written..] in TlsTransport::write
  out,      \* out_buf[written..record_len] in TcpTransport::write
  kind,     \* of the record in out_buf
  nrec,     \* records made so far
  sock,     \* the TCP socket
  wire,     \* its send buffer
  part,     \* peer: cells of a record that is not complete
  read,     \* peer: records read
  got,      \* peer: MQTT bytes decrypted
  peer,     \* peer: what it makes of the stream
  ending    \* history: how the connection loop came to its end

tlsVars == <<hs, closed, frames, total, buf, kind, nrec>>
netVars == <<sock, wire>>
peerVars == <<part, read, got, peer>>
sendVars == <<pc, tlsVars, out, netVars, peerVars, ending>>

SendInit ==
  /\ pc = "accept" /\ hs = "hello1" /\ closed = FALSE
  /\ frames = 0 /\ total = 0 /\ buf = <<>>
  /\ out = <<>> /\ kind = "none" /\ nrec = 0
  /\ sock = "open" /\ wire = <<>>
  /\ part = <<>> /\ read = 0 /\ got = <<>> /\ peer = "reading"
  /\ ending = "none"

Goto(from, to) == pc = from /\ pc' = to

(* A record as cells: the header, then the bytes.  The header stands at the *)
(* number of the byte that comes next.                                      *)
Record(k, data) ==
  [i \in 1..Len(data) + 1 |->
     [num |-> nrec, pos |-> i, of |-> Len(data) + 1, kind |-> k,
      byte |-> IF i = 1 THEN total - Len(buf) ELSE data[i - 1]]]

(* A record is encrypted into out_buf, which uses up its number. *)
Emit(k, data) == kind' = k /\ out' = Record(k, data) /\ nrec' = nrec + 1
-----------------------------------------------------------------------------
(* do_accept: a HelloRetryRequest at most, the first flight, the Finished.  *)
AcceptWrite ==
  /\ Goto("accept", "send")
  /\ \/ hs = "hello1" /\ hs' = "hello2"
     \/ hs \in {"hello1", "hello2"} /\ hs' = "finished"
  /\ Emit("handshake", <<>>)
  /\ UNCHANGED <<closed, frames, total, buf, netVars, peerVars, ending>>

AcceptDone ==
  /\ hs = "finished" /\ hs' = "done"
  /\ Goto("accept", "idle")
  /\ UNCHANGED <<closed, frames, total, buf, kind, nrec, out, netVars, peerVars, ending>>

(* Whatever do_accept reads or decrypts may be wrong. *)
AcceptFails ==
  /\ Goto("accept", "ended") /\ ending' = "handshake"
  /\ UNCHANGED <<tlsVars, out, netVars, peerVars>>
-----------------------------------------------------------------------------
(* write_packet and the flush of the outbox: a frame for TlsTransport.      *)
Frame(n) ==
  /\ Goto("idle", "write") /\ frames < MaxFrames
  /\ frames' = frames + 1 /\ total' = total + n
  /\ buf' = [i \in 1..n |-> total + i - 1]
  /\ UNCHANGED <<hs, closed, kind, nrec, out, netVars, peerVars, ending>>

(* min(buf.len(), max_chunk). *)
Chunk == IF Len(buf) < MaxChunk THEN Len(buf) ELSE MaxChunk

(* Mutant of WriteRecord: the last byte of the chunk is sent again. *)
WriteRecordOverlaps ==
  /\ buf # <<>> /\ ~closed
  /\ Goto("write", "send")
  /\ Emit("data", SubSeq(buf, 1, Chunk))
  /\ buf' = SubSeq(buf, Chunk, Len(buf))
  /\ UNCHANGED <<hs, closed, frames, total, netVars, peerVars, ending>>

(* Mutant of WriteRecord: all of buf counts as written. *)
WriteRecordTruncates ==
  /\ buf # <<>> /\ ~closed
  /\ Goto("write", "send")
  /\ Emit("data", SubSeq(buf, 1, Chunk))
  /\ buf' = <<>>
  /\ UNCHANGED <<hs, closed, frames, total, netVars, peerVars, ending>>

(* One round of TlsTransport::write: the session takes one chunk. *)
WriteRecord ==
  /\ buf # <<>> /\ ~closed
  /\ Goto("write", "send")
  /\ Emit("data", SubSeq(buf, 1, Chunk))
  /\ buf' = SubSeq(buf, Chunk + 1, Len(buf))
  /\ UNCHANGED <<hs, closed, frames, total, netVars, peerVars, ending>>

(* The session is closed, or encrypt_app_data fails. *)
WriteFails ==
  /\ buf # <<>>
  /\ Goto("write", "ended") /\ ending' = "write"
  /\ UNCHANGED <<tlsVars, out, netVars, peerVars>>

(* flush has nothing to do, and write returns Ok. *)
WriteDone ==
  /\ buf = <<>>
  /\ Goto("write", "idle")
  /\ UNCHANGED <<tlsVars, out, netVars, peerVars, ending>>
-----------------------------------------------------------------------------
(* Mutant of SocketWrite: what the socket does not take at once is lost. *)
SocketWriteOnce(n) ==
  /\ pc = "send" /\ out # <<>> /\ sock = "open"
  /\ n <= Len(out) /\ Len(wire) + n <= SendBuf
  /\ wire' = wire \o SubSeq(out, 1, n)
  /\ out' = <<>>
  /\ UNCHANGED <<pc, tlsVars, sock, peerVars, ending>>

(* One round of TcpTransport::write: the socket takes n cells. *)
SocketWrite(n) ==
  /\ pc = "send" /\ out # <<>> /\ sock = "open"
  /\ n <= Len(out) /\ Len(wire) + n <= SendBuf
  /\ wire' = wire \o SubSeq(out, 1, n)
  /\ out' = SubSeq(out, n + 1, Len(out))
  /\ UNCHANGED <<pc, tlsVars, sock, peerVars, ending>>

(* Mutant of SocketFails: close gives up when close_notify cannot be sent. *)
SocketFailsInClose ==
  /\ pc = "send" /\ out # <<>>
  /\ pc' = IF kind = "alert" THEN "done" ELSE "ended"
  /\ ending' = IF kind = "alert" THEN ending ELSE "write"
  /\ UNCHANGED <<tlsVars, out, netVars, peerVars>>

(* The socket reports an error, or 0 bytes, which is WriteZero.  In close   *)
(* nobody looks, and transport.close() follows.                             *)
SocketFails ==
  /\ pc = "send" /\ out # <<>>
  /\ IF kind = "alert"
     THEN pc' = "done" /\ sock' = "closed" /\ UNCHANGED ending
     ELSE pc' = "ended" /\ ending' = "write" /\ UNCHANGED sock
  /\ UNCHANGED <<tlsVars, out, wire, peerVars>>

(* The record is in the socket: on with the handshake, the frame or close. *)
RecordSent ==
  /\ pc = "send" /\ out = <<>>
  /\ pc' = CASE kind = "handshake" -> "accept"
             [] kind = "data" -> "write"
             [] OTHER -> "done"
  /\ sock' = IF kind = "alert" THEN "closed" ELSE sock
  /\ UNCHANGED <<tlsVars, out, wire, peerVars, ending>>
-----------------------------------------------------------------------------
(* refill_plaintext finds an alert of the peer: the session is closed, and  *)
(* the connection loop ends at what looks like EOF.                         *)
ReadAlert ==
  /\ Goto("idle", "ended") /\ ending' = "alert"
  /\ closed' = TRUE
  /\ UNCHANGED <<hs, frames, total, buf, kind, nrec, out, netVars, peerVars>>

(* The loop ends for a reason of its own or at the end of the stream. *)
LoopEnds ==
  /\ Goto("idle", "ended") /\ ending' = "loop"
  /\ UNCHANGED <<tlsVars, out, netVars, peerVars>>

(* A CONNECT that prepare_connect finds faulty: connection_loop returns at  *)
(* once.                                                                    *)
LoopReturns ==
  /\ frames = 0
  /\ Goto("idle", "done") /\ ending' = "returned"
  /\ UNCHANGED <<tlsVars, out, netVars, peerVars>>

(* TlsSession::close up to its first await. *)
Close ==
  /\ pc = "ended" /\ closed' = TRUE
  /\ \/ closed /\ pc' = "done" /\ UNCHANGED <<kind, out, nrec, sock>>
     \/ /\ ~closed /\ hs = "done" /\ pc' = "send"
        /\ Emit("alert", <<>>) /\ UNCHANGED sock
     \/ /\ ~closed   \* before the handshake, or encrypt_alert fails
        /\ pc' = "done" /\ sock' = "closed" /\ UNCHANGED <<kind, out, nrec>>
  /\ UNCHANGED <<hs, frames, total, buf, wire, peerVars, ending>>

(* The worker is done with the connection.  The socket goes out of scope,   *)
(* with whatever is still in its buffer.                                    *)
DropSocket ==
  /\ Goto("done", "dropped") /\ wire' = <<>>
  /\ UNCHANGED <<tlsVars, out, sock, peerVars, ending>>
-----------------------------------------------------------------------------
(* The connection is lost. *)
Reset ==
  /\ sock = "open" /\ pc # "dropped"
  /\ sock' = "reset" /\ wire' = <<>>
  /\ UNCHANGED <<pc, tlsVars, out, peerVars, ending>>

(* Mutant of Timeout: the socket has none. *)
NoTimeout == FALSE /\ UNCHANGED sendVars

(* set_timeout: a full buffer that the peer does not take is given up. *)
Timeout ==
  /\ pc = "send" /\ out # <<>> /\ Len(wire) = SendBuf
  /\ sock = "open" /\ sock' = "reset" /\ wire' = <<>>
  /\ UNCHANGED <<pc, tlsVars, out, peerVars, ending>>

(* The cells are one record, from its first to its last. *)
IsRecord(cells) ==
  \A i \in DOMAIN cells : cells[i].num = read /\ cells[i].pos = i

(* What a record holds after its header. *)
Bytes(cells) == [i \in 1..Len(cells) - 1 |-> cells[i + 1].byte]

(* The peer takes a cell, and decrypts the record that it completes. *)
PeerReads ==
  /\ wire # <<>> /\ peer = "reading" /\ wire' = Tail(wire)
  /\ LET cells == Append(part, Head(wire))
     IN  IF Len(cells) < cells[1].of
         THEN part' = cells /\ UNCHANGED <<read, got, peer>>
         ELSE /\ part' = <<>> /\ read' = read + 1
              /\ got' = IF IsRecord(cells) THEN got \o Bytes(cells) ELSE got
              /\ peer' = CASE ~IsRecord(cells) -> "garbled"
                           [] IsRecord(cells) /\ cells[1].kind = "alert" -> "notified"
                           [] OTHER -> "reading"
  /\ UNCHANGED <<pc, tlsVars, out, sock, ending>>

(* What a worker does by itself: it waits only for the peer's handshake, in *)
(* the select of the loop, and for room in the socket.                      *)
Proceeds ==
  \/ WriteRecord \/ WriteDone \/ RecordSent \/ Close \/ DropSocket
  \/ sock # "open" /\ SocketFails

Worker ==
  \/ AcceptWrite \/ AcceptDone \/ AcceptFails
  \/ WriteRecord \/ WriteFails \/ WriteDone \/ SocketFails \/ RecordSent
  \/ Close \/ DropSocket

Writes == \E n \in 1..SendBuf : SocketWrite(n)

Loop == (\E n \in FrameLens : Frame(n)) \/ ReadAlert \/ LoopEnds \/ LoopReturns

SendNext == Worker \/ Writes \/ Loop \/ Reset \/ Timeout \/ PeerReads

SendSpec == SendInit /\ [][SendNext]_sendVars

FairSendSpec ==
  SendSpec /\ WF_sendVars(Proceeds) /\ WF_sendVars(Writes) /\ WF_sendVars(Timeout)
-----------------------------------------------------------------------------
Numbers(n) == [i \in 1..n |-> i - 1]

(* Wherever the three loops stop, and although close writes to the stream   *)
(* after a failed write: what the peer decrypts is the beginning of what    *)
(* the connection loop wrote, without a gap, a repetition or a stray byte.  *)
PeerReadsPrefix == got = Numbers(Len(got)) /\ Len(got) <= total

(* The cells that hold bytes, the others being headers. *)
ByteCells(cells) == {i \in DOMAIN cells : cells[i].pos > 1}

(* The cells carry the bytes first, first + 1, ..., last - 1, each one once *)
(* and in this order.                                                       *)
Carries(cells, first, last) ==
  /\ \A b \in first..last - 1 : \E i \in ByteCells(cells) : cells[i].byte = b
  /\ \A i \in ByteCells(cells) : cells[i].byte \in first..last - 1
  /\ \A i, j \in ByteCells(cells) : i < j => cells[i].byte < cells[j].byte

(* When write returns Ok, every byte of every frame is in the socket or at  *)
(* the peer, in order and as whole records, as long as the connection is    *)
(* not lost.                                                                *)
OkMeansSent ==
  pc = "idle" /\ sock = "open" =>
    LET cells == part \o wire
    IN  /\ peer = "reading" /\ IsRecord(part)
        /\ Carries(cells, Len(got), total)
        /\ cells # <<>> => cells[Len(cells)].pos = cells[Len(cells)].of

(* A peer that sees close_notify has read every record of application data  *)
(* before it: a record that was lost or cut off on the way does not end in  *)
(* what looks like an orderly end.                                          *)
NotifiedMeansComplete ==
  peer = "notified" => got = Numbers(total - Len(buf)) /\ wire = <<>>

(* When the worker drops the connection, the TCP socket was closed or had   *)
(* failed before, even if close_notify could not be sent.  The exceptions:  *)
(* after an alert of the peer, close finds the session closed and returns   *)
(* without closing the transport; and a CONNECT with a faulty client id or  *)
(* will makes connection_loop return without close.                         *)
EndsClosed ==
  pc = "dropped" /\ ending \notin {"alert", "returned"} => sock # "open"

(* A write or a close ends, also when the peer no longer reads: the worker  *)
(* comes back to its loop or is free for another connection.                *)
WorkerReturns == pc \in {"write", "send", "ended"} ~> pc \in {"idle", "accept", "dropped"}
=============================================================================
