----------------------------- MODULE TlsStream ------------------------------
(***************************************************************************)
(* The receiving side of one TLS connection: EmbeddedTlsPskSession below   *)
(* TlsTransport below read_packet, and the select of connection_loop that  *)
(* drops a pending read when a timer or a signal fires first.              *)
(*                                                                         *)
(* The peer's MQTT bytes are numbered 0, 1, 2, ...; every PacketLen of     *)
(* them make a packet.  A TLS record travels in two pieces, header and     *)
(* body, so that a read can be pending between them.  Cryptography is the  *)
(* external GatoPSKTLS: a record decrypts if its header and body belong    *)
(* together and it is the next one of its key, and otherwise is an error.  *)
(***************************************************************************)
EXTENDS Naturals, Sequences

CONSTANTS
  PacketLen,   \* bytes of an MQTT packet
  MaxRecords,  \* bound: records that the peer sends
  Payloads     \* bytes that a data record may carry

ASSUME StreamConstantsOK ==
  /\ PacketLen \in Nat \ {0} /\ MaxRecords \in Nat
  /\ Payloads \subseteq Nat

VARIABLES
  phase,      \* of the handshake, then of the connection
  wire,       \* pieces that arrived and were not read yet
  tail,       \* the body that the peer sends next, as a sequence
  fin,        \* the peer closed its side of the TCP connection
  nrec, sent, enc,  \* peer: records, MQTT bytes and data records sent so far
  record,     \* record_buf: nothing, a header, or header and body
  decrypted,  \* records decrypted with the application key
  plain,      \* plain_buf[plain_offset..plain_len]
  pkt,        \* frame_buf: what read_packet has of the next packet
  delivered,  \* packets returned to connection_loop
  cut         \* history: a read that had consumed something was dropped

peerVars == <<tail, fin, nrec, sent, enc>>
readVars == <<record, decrypted, plain, pkt, delivered, cut>>
streamVars == <<phase, wire, peerVars, readVars>>

Kinds == {"hello", "finished", "ccs", "data", "alert"}

(* The outer content type of a record. *)
Outer(kind) ==
  CASE kind = "hello" -> "handshake"
    [] kind = "ccs" -> "ccs"
    [] OTHER -> "app"

Piece(part, kind, n, num, data) ==
  [part |-> part, kind |-> kind, n |-> n, num |-> num, data |-> data]

StreamInit ==
  /\ phase = "hello1"
  /\ wire = <<>> /\ tail = <<>> /\ fin = FALSE
  /\ nrec = 0 /\ sent = 0 /\ enc = 0
  /\ record = <<>> /\ decrypted = 0
  /\ plain = <<>> /\ pkt = <<>> /\ delivered = <<>> /\ cut = FALSE
-----------------------------------------------------------------------------
(* The peer (external). *)
SendHeader(kind, k) ==
  /\ tail = <<>> /\ ~fin /\ nrec < MaxRecords
  /\ kind # "data" => k = 0
  /\ LET data == [i \in 1..k |-> sent + i - 1]
     IN  /\ wire' = Append(wire, Piece("head", kind, nrec, enc, <<>>))
         /\ tail' = <<Piece("body", kind, nrec, enc, data)>>
  /\ nrec' = nrec + 1 /\ sent' = sent + k
  /\ enc' = IF kind \in {"data", "alert"} THEN enc + 1 ELSE enc
  /\ UNCHANGED <<phase, fin, readVars>>

SendBody ==
  /\ tail # <<>> /\ ~fin
  /\ wire' = wire \o tail /\ tail' = <<>>
  /\ UNCHANGED <<phase, fin, nrec, sent, enc, readVars>>

PeerCloses ==
  /\ ~fin /\ fin' = TRUE
  /\ UNCHANGED <<phase, wire, tail, nrec, sent, enc, readVars>>
-----------------------------------------------------------------------------
(* A record is wanted: by do_accept, or by read with a drained plain_buf.   *)
Fetching ==
  \/ phase \in {"hello1", "hello2", "finished"}
  \/ phase = "open" /\ plain = <<>>

(* Mutant of FetchHeader: a packet must fit one record. *)
FetchHeaderPerPacket ==
  /\ Fetching /\ Len(record) # 1 /\ wire # <<>> /\ pkt = <<>>
  /\ record' = <<Head(wire)>> /\ wire' = Tail(wire)
  /\ UNCHANGED <<phase, peerVars, decrypted, plain, pkt, delivered, cut>>

(* fetch_record, first read_exact_into. *)
FetchHeader ==
  /\ Fetching /\ Len(record) # 1 /\ wire # <<>>
  /\ record' = <<Head(wire)>> /\ wire' = Tail(wire)
  /\ UNCHANGED <<phase, peerVars, decrypted, plain, pkt, delivered, cut>>

Whole(r) == r[1].part = "head" /\ r[2].part = "body" /\ r[1].n = r[2].n

(* fetch_record, second read_exact_into; "type" is record_type() of what    *)
(* is then in record_buf.  The type byte of a record whose start was lost   *)
(* is some byte of ciphertext.                                              *)
Fetched(type) ==
  /\ Fetching /\ Len(record) = 1 /\ wire # <<>>
  /\ record' = Append(record, Head(wire)) /\ wire' = Tail(wire)
  /\ Whole(record') => type = Outer(record[1].kind)

(* do_accept: ClientHello, with at most one HelloRetryRequest.  Dummy       *)
(* ChangeCipherSpec records are skipped, except before the first hello.     *)
HelloRecord(type) ==
  /\ phase \in {"hello1", "hello2"} /\ Fetched(type)
  /\ IF type = "ccs" /\ phase = "hello2" THEN UNCHANGED phase
     ELSE \/ type = "handshake" /\ phase' = "finished"
          \/ type = "handshake" /\ phase = "hello1" /\ phase' = "hello2"
          \/ phase' = "failed"
  /\ UNCHANGED <<peerVars, decrypted, plain, pkt, delivered, cut>>

(* process_client_finished. *)
FinishedRecord(type) ==
  /\ phase = "finished" /\ Fetched(type)
  /\ IF type = "ccs" THEN UNCHANGED phase
     ELSE phase' = IF Whole(record') /\ record[1].kind = "finished"
                   THEN "open" ELSE "failed"
  /\ UNCHANGED <<peerVars, decrypted, plain, pkt, delivered, cut>>

(* decrypt_app_data_or_alert succeeds. *)
Decrypts(r) ==
  Whole(r) /\ r[1].kind \in {"data", "alert"} /\ r[1].num = decrypted

(* refill_plaintext.  An alert ends the stream; so does a record without    *)
(* data, since read then returns 0.                                         *)
DataRecord(type) ==
  /\ phase = "open" /\ Fetched(type)
  /\ IF type = "ccs" THEN UNCHANGED <<phase, decrypted, plain>>
     ELSE IF type = "alert" THEN phase' = "eof" /\ UNCHANGED <<decrypted, plain>>
     ELSE IF Decrypts(record')
     THEN /\ decrypted' = decrypted + 1
          /\ plain' = record'[2].data
          /\ phase' = IF plain' = <<>> THEN "eof" ELSE "open"
     ELSE phase' = "failed" /\ UNCHANGED <<decrypted, plain>>
  /\ UNCHANGED <<peerVars, pkt, delivered, cut>>

(* Mutant of EndOfStream: nothing has arrived yet counts as the end. *)
EndOfStreamEarly ==
  /\ Fetching /\ wire = <<>>
  /\ phase' = IF phase = "open" THEN "eof" ELSE "failed"
  /\ UNCHANGED <<wire, peerVars, readVars>>

(* The transport has nothing more: an error in the handshake, else EOF. *)
EndOfStream ==
  /\ Fetching /\ wire = <<>> /\ fin
  /\ phase' = IF phase = "open" THEN "eof" ELSE "failed"
  /\ UNCHANGED <<wire, peerVars, readVars>>

(* min(buf.len(), available). *)
Wanted == IF PacketLen - Len(pkt) < Len(plain) THEN PacketLen - Len(pkt)
          ELSE Len(plain)

(* Mutant of Copy: what the packet did not need is thrown away. *)
CopyDropsRest ==
  /\ phase = "open" /\ plain # <<>>
  /\ LET p == pkt \o SubSeq(plain, 1, Wanted)
     IN  IF Len(p) = PacketLen
         THEN pkt' = <<>> /\ delivered' = Append(delivered, p)
         ELSE pkt' = p /\ UNCHANGED delivered
  /\ plain' = <<>>
  /\ UNCHANGED <<phase, wire, peerVars, record, decrypted, cut>>

(* Mutant of Copy: plain_offset is not advanced. *)
CopyRepeats ==
  /\ phase = "open" /\ plain # <<>> /\ Len(delivered) <= MaxRecords
  /\ LET p == pkt \o SubSeq(plain, 1, Wanted)
     IN  IF Len(p) = PacketLen
         THEN pkt' = <<>> /\ delivered' = Append(delivered, p)
         ELSE pkt' = p /\ UNCHANGED delivered
  /\ UNCHANGED <<phase, wire, peerVars, record, decrypted, plain, cut>>

(* read copies buffered plaintext into frame_buf; read_packet returns when  *)
(* the packet is complete.                                                  *)
Copy ==
  /\ phase = "open" /\ plain # <<>>
  /\ LET p == pkt \o SubSeq(plain, 1, Wanted)
     IN  IF Len(p) = PacketLen
         THEN pkt' = <<>> /\ delivered' = Append(delivered, p)
         ELSE pkt' = p /\ UNCHANGED delivered
  /\ plain' = SubSeq(plain, Wanted + 1, Len(plain))
  /\ UNCHANGED <<phase, wire, peerVars, record, decrypted, cut>>

(* After a cut, bytes from the middle of a packet are read as its header:   *)
(* they may well describe something that is refused.                        *)
Misread ==
  /\ phase = "open" /\ pkt # <<>> /\ pkt[1] % PacketLen # 0
  /\ phase' = "failed"
  /\ UNCHANGED <<wire, peerVars, readVars>>

(* read_packet waits for bytes. *)
ReadPending == phase = "open" /\ plain = <<>> /\ wire = <<>> /\ ~fin

(* The first packet does not arrive in time: the connection is closed. *)
ConnectTimeout ==
  /\ ReadPending /\ delivered = <<>>
  /\ phase' = "failed"
  /\ UNCHANGED <<wire, peerVars, readVars>>

(* Later, a timer or the outbox signal fires while read_packet is pending:  *)
(* the future is dropped, and the next one starts at the beginning of both  *)
(* buffers.                                                                 *)
WakeUp ==
  /\ ReadPending /\ delivered # <<>>
  /\ cut' = (cut \/ pkt # <<>> \/ Len(record) = 1)
  /\ pkt' = <<>> /\ record' = <<>>
  /\ UNCHANGED <<phase, wire, peerVars, decrypted, plain, delivered>>

Types == {"handshake", "ccs", "app", "alert"}

Reader ==
  \/ FetchHeader \/ EndOfStream \/ Copy
  \/ \E type \in Types :
       HelloRecord(type) \/ FinishedRecord(type) \/ DataRecord(type)

Peer ==
  \/ \E kind \in Kinds, k \in Payloads \cup {0} :
       (kind = "data" => k \in Payloads) /\ SendHeader(kind, k)
  \/ SendBody \/ PeerCloses

StreamNext == Reader \/ Peer \/ ConnectTimeout \/ WakeUp \/ Misread

StreamSpec == StreamInit /\ [][StreamNext]_streamVars

(* The reading task is polled whenever bytes have arrived. *)
FairStreamSpec == StreamSpec /\ WF_streamVars(Reader)
-----------------------------------------------------------------------------
Pieces == [part : {"head", "body"}, kind : Kinds, n : Nat, num : Nat, data : Seq(Nat)]

StreamTypeOK ==
  /\ phase \in {"hello1", "hello2", "finished", "open", "eof", "failed"}
  /\ wire \in Seq(Pieces) /\ tail \in Seq(Pieces) /\ fin \in BOOLEAN
  /\ {nrec, sent, enc, decrypted} \subseteq Nat
  /\ record \in Seq(Pieces) /\ Len(record) <= 2
  /\ plain \in Seq(Nat) /\ pkt \in Seq(Nat) /\ Len(pkt) < PacketLen
  /\ delivered \in Seq(Seq(Nat)) /\ cut \in BOOLEAN

PacketAt(i) == [j \in 1..PacketLen |-> (i - 1) * PacketLen + j - 1]

(* However the peer splits its packets over records, and however the        *)
(* records arrive, read_packet returns exactly the packets that were sent,  *)
(* in order and once each, as long as no read is cut.                       *)
PacketsIntact ==
  ~cut => \A i \in DOMAIN delivered : delivered[i] = PacketAt(i)

(* Cut reads lose bytes but never repeat or reorder any: what is delivered, *)
(* in frame_buf and in plain_buf, is increasing.                            *)
OrderKept ==
  LET all == delivered \o <<pkt, plain>>
  IN  \A i, j \in DOMAIN all : \A k \in DOMAIN all[i], l \in DOMAIN all[j] :
        i < j \/ (i = j /\ k < l) => all[i][k] < all[j][l]

(* A packet whose records have arrived is handed to the connection loop,    *)
(* unless the connection fails or ends, or a read is cut.                   *)
PacketsDelivered ==
  \A i \in 1..MaxRecords :
    phase = "open" /\ tail = <<>> /\ sent >= i * PacketLen
      ~> Len(delivered) >= i \/ phase \in {"eof", "failed"} \/ fin \/ cut

(* While no read is cut, TlsSession::read reports the end of the stream     *)
(* only after the peer closed it or sent an alert, or, since 0 bytes stand  *)
(* for the end, after a data record that carries none.                      *)
EofIsReal ==
  phase = "eof" /\ ~cut =>
    \/ fin
    \/ Len(record) = 2 /\ (record[1].kind = "alert" \/ record[2].data = <<>>)
-----------------------------------------------------------------------------
(* What the repository says of the session and the code does not do.        *)

(* fetch_record: "After this returns, record_buf[..record_len] holds the    *)
(* full record (header + body)."                                            *)
RecordWhole == Len(record) = 2 => Whole(record)
=============================================================================
