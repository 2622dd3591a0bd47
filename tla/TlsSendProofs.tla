--------------------------- MODULE TlsSendProofs ----------------------------
(***************************************************************************)
(* Proofs about TlsSend.  The inductive invariant follows the cells from   *)
(* the record that is being written through the socket to the peer: one    *)
(* stream, in which every cell continues the one before it, up to a        *)
(* close_notify that may come too early.                                   *)
(***************************************************************************)
EXTENDS TlsSend, WellFoundedInduction, TLAPS

Cell == [num : Nat, pos : Nat \ {0}, of : Nat \ {0},
         kind : {"handshake", "data", "alert"}, byte : Nat]

SendTypeOK ==
  /\ pc \in {"accept", "idle", "write", "send", "ended", "done", "dropped"}
  /\ hs \in {"hello1", "hello2", "finished", "done"}
  /\ closed \in BOOLEAN /\ frames \in Nat /\ total \in Nat /\ buf \in Seq(Nat)
  /\ out \in Seq(Cell) /\ kind \in {"none", "handshake", "data", "alert"}
  /\ nrec \in Nat /\ sock \in {"open", "reset", "closed"} /\ wire \in Seq(Cell)
  /\ part \in Seq(Cell) /\ read \in Nat /\ got \in Seq(Nat)
  /\ peer \in {"reading", "garbled", "notified"}
  /\ ending \in {"none", "handshake", "write", "alert", "loop", "returned"}

(* The number of the byte after a cell. *)
NextByte(c) == IF c.pos = 1 THEN c.byte ELSE c.byte + 1

(* d is the cell after c in a stream of records. *)
Follows(c, d) ==
  /\ d.byte = NextByte(c)
  /\ c.pos < c.of =>
       d.num = c.num /\ d.pos = c.pos + 1 /\ d.of = c.of /\ d.kind = c.kind
  /\ c.pos >= c.of => d.num = c.num + 1 /\ d.pos = 1

(* What may come after c: the next cell, or a close_notify, which takes its *)
(* place in the numbers only if nothing is missing before it.               *)
Link(c, d) ==
  IF d.kind = "alert" THEN c.pos = c.of /\ d.num = c.num + 1 => d.byte = NextByte(c)
                      ELSE Follows(c, d)

(* A cell of a stream of nr records with dn bytes. *)
CellOK(c, dn, nr) ==
  /\ c.pos <= c.of /\ c.num < nr /\ NextByte(c) <= dn
  /\ c.kind = "alert" => c.pos = 1 /\ c.of = 1 /\ c.byte = dn

Chain(s, dn, nr) ==
  /\ s \in Seq(Cell)
  /\ \A i \in 1..Len(s) : CellOK(s[i], dn, nr)
  /\ \A i \in 1..Len(s) - 1 : s[i].kind # "alert" /\ Link(s[i], s[i + 1])

(* The stream goes on where a peer is that has read rd records and g bytes. *)
Begins(s, rd, g) ==
  s # <<>> =>
    IF s[1].kind = "alert" THEN s[1].num = rd => s[1].byte = g
                           ELSE s[1].num = rd /\ s[1].pos = 1 /\ s[1].byte = g

(* The stream is whole: nothing is missing before the next record, nr. *)
Ends(s, dn, nr, rd, g) ==
  /\ s = <<>> => rd = nr /\ g = dn
  /\ s # <<>> => /\ s[Len(s)].pos = s[Len(s)].of /\ s[Len(s)].num + 1 = nr
                 /\ NextByte(s[Len(s)]) = dn

(* The stream may have been cut, but then its last record has not the       *)
(* number before nr or is not complete.                                     *)
MayEnd(s, dn, nr, rd, g) ==
  /\ s = <<>> /\ rd = nr => g = dn
  /\ s # <<>> /\ s[Len(s)].pos = s[Len(s)].of /\ s[Len(s)].num + 1 = nr =>
       NextByte(s[Len(s)]) = dn

NoAlert(s) == s # <<>> => s[Len(s)].kind # "alert"

(* The first cells of a record, or what an early close_notify makes of it. *)
PartOK(p, rd, g) ==
  /\ p # <<>> => Len(p) < p[1].of
  /\ \A i \in 1..Len(p) :
       \/ /\ p[i].kind = p[1].kind /\ p[i].num = rd /\ p[i].pos = i /\ p[i].of = p[1].of
          /\ p[i].byte = IF i = 1 THEN g ELSE g + i - 2
          /\ p[i].kind # "alert"
       \/ i > 1 /\ i = Len(p) /\ p[i].kind = "alert"

(* Bytes that went into records. *)
Taken == total - Len(buf)

(* What the worker still pushes into the socket. *)
Pending == IF pc = "send" /\ sock = "open" THEN out ELSE <<>>

Stream == (part \o wire) \o Pending

(* The worker is in its handshake or in its loop. *)
Serving == pc \in {"accept", "idle", "write"} \/ (pc = "send" /\ kind # "alert")

(* write still has the last Len(buf) bytes of what it was given. *)
BufOK ==
  /\ Len(buf) <= total /\ buf = [i \in 1..Len(buf) |-> Taken + i - 1]
  /\ pc \in {"accept", "idle"} \/ (pc = "send" /\ kind = "handshake") => buf = <<>>

FlagsOK ==
  /\ pc = "send" => kind # "none"
  /\ Serving => ~closed
  /\ pc = "ended" /\ closed => ending = "alert"
  /\ pc \in {"done", "dropped"} /\ ending \notin {"alert", "returned"} => sock # "open"
  /\ sock = "closed" => pc \in {"done", "dropped"}
  /\ sock = "reset" => wire = <<>>

(* Only close_notify ends what the peer reads. *)
PeerOK == peer # "reading" => ~Serving /\ pc # "ended"

StreamInv ==
  /\ Chain(Stream, Taken, nrec)
  /\ peer = "reading" => Begins(Stream, read, Len(got)) /\ PartOK(part, read, Len(got))
  /\ Serving \/ pc = "ended" => NoAlert(Stream)
  /\ sock = "open" /\ Serving => Ends(Stream, Taken, nrec, read, Len(got))
  /\ sock = "open" /\ pc = "ended" => MayEnd(Stream, Taken, nrec, read, Len(got))

GotOK ==
  /\ got = Numbers(Len(got)) /\ Len(got) <= Taken
  /\ peer = "notified" =>
       Len(got) = Taken /\ wire = <<>> /\ (pc = "send" => out = <<>>)

SendInv == SendTypeOK /\ BufOK /\ FlagsOK /\ PeerOK /\ StreamInv /\ GotOK

(* A connection that was just accepted. *)
LEMMA SendInitInv == SendInit => SendInv
<1> SUFFICES ASSUME SendInit PROVE SendInv
  OBVIOUS
<1>1. /\ pc = "accept" /\ hs = "hello1" /\ frames = 0 /\ total = 0 /\ buf = <<>>
      /\ out = <<>> /\ kind = "none" /\ nrec = 0 /\ sock = "open" /\ wire = <<>>
      /\ part = <<>> /\ read = 0 /\ got = <<>> /\ peer = "reading" /\ ending = "none"
  BY DEF SendInit
<1>2. closed \in BOOLEAN /\ ~closed
  BY Zenon DEF SendInit
<1>3. SendTypeOK
  BY <1>1, <1>2 DEF SendTypeOK
<1>4. Taken = 0
  <2>1. total = 0 /\ Len(buf) = 0
    BY <1>1
  <2> QED
    BY <2>1 DEF Taken
<1>5. BufOK /\ FlagsOK /\ PeerOK
  BY <1>1, <1>2, <1>4 DEF BufOK, FlagsOK, PeerOK, Serving
<1>6. Stream = <<>>
  BY <1>1 DEF Stream, Pending
<1>7. Chain(<<>>, 0, 0)
  BY DEF Chain
<1>8. StreamInv
  BY <1>1, <1>4, <1>6, <1>7 DEF StreamInv, Begins, PartOK, Ends, MayEnd, NoAlert
<1>9. GotOK
  BY <1>1, <1>4 DEF GotOK, Numbers
<1> QED
  BY <1>3, <1>5, <1>8, <1>9 DEF SendInv

(* write never has more left than it was given. *)
LEMMA TakenNat == SendTypeOK /\ BufOK => Taken \in Nat
  BY DEF SendTypeOK, BufOK, Taken

(* The record that Emit makes. *)
LEMMA RecordTyped ==
  ASSUME SendTypeOK, BufOK, NEW k \in {"handshake", "data", "alert"},
         NEW data \in Seq(Nat)
  PROVE  /\ Record(k, data) \in Seq(Cell) /\ Len(Record(k, data)) = Len(data) + 1
         /\ \A i \in 1..Len(data) + 1 :
              /\ Record(k, data)[i].num = nrec /\ Record(k, data)[i].pos = i
              /\ Record(k, data)[i].of = Len(data) + 1 /\ Record(k, data)[i].kind = k
              /\ Record(k, data)[i].byte = IF i = 1 THEN Taken ELSE data[i - 1]
<1> DEFINE cell(i) == [num |-> nrec, pos |-> i, of |-> Len(data) + 1, kind |-> k,
                       byte |-> IF i = 1 THEN Taken ELSE data[i - 1]]
<1>1. Record(k, data) = [i \in 1..Len(data) + 1 |-> cell(i)]
  BY DEF Record, Taken
<1>2. Taken \in Nat
  BY TakenNat
<1>3. ASSUME NEW i \in 1..Len(data) + 1 PROVE cell(i) \in Cell
  <2>1. (IF i = 1 THEN Taken ELSE data[i - 1]) \in Nat
    BY <1>2
  <2>2. nrec \in Nat
    BY DEF SendTypeOK
  <2> QED
    BY <2>1, <2>2 DEF Cell
<1>4. \A i \in 1..Len(data) + 1 :
        /\ cell(i).num = nrec /\ cell(i).pos = i /\ cell(i).of = Len(data) + 1
        /\ cell(i).kind = k /\ cell(i).byte = IF i = 1 THEN Taken ELSE data[i - 1]
  OBVIOUS
<1> HIDE DEF cell
<1> QED
  BY <1>1, <1>3, <1>4

(* r is a record of these bytes, which come next. *)
RecordOf(r, k, data) ==
  /\ r \in Seq(Cell) /\ Len(r) = Len(data) + 1
  /\ \A i \in 1..Len(data) + 1 :
       /\ r[i].num = nrec /\ r[i].pos = i
       /\ r[i].of = Len(data) + 1 /\ r[i].kind = k
       /\ r[i].byte = IF i = 1 THEN Taken ELSE data[i - 1]

(* The same of Record, as one fact. *)
LEMMA RecordMade ==
  ASSUME SendTypeOK, BufOK, NEW k \in {"handshake", "data", "alert"},
         NEW data \in Seq(Nat)
  PROVE  RecordOf(Record(k, data), k, data)
<1> DEFINE r == Record(k, data)
<1>1. /\ r \in Seq(Cell) /\ Len(r) = Len(data) + 1
      /\ \A i \in 1..Len(data) + 1 :
           /\ r[i].num = nrec /\ r[i].pos = i
           /\ r[i].of = Len(data) + 1 /\ r[i].kind = k
           /\ r[i].byte = IF i = 1 THEN Taken ELSE data[i - 1]
  BY RecordTyped, SMTT(40)
<1> HIDE DEF r
<1>2. RecordOf(r, k, data)
  BY <1>1, Zenon DEF RecordOf
<1> QED
  BY <1>2, Zenon DEF r

(* closed, the end of the worker and the socket stay consistent. *)
LEMMA SendFlagsStep == SendTypeOK /\ FlagsOK /\ [SendNext]_sendVars => FlagsOK'
<1> SUFFICES ASSUME SendTypeOK, FlagsOK, [SendNext]_sendVars PROVE FlagsOK'
  OBVIOUS
<1>0. closed \in BOOLEAN
  BY DEF SendTypeOK
<1> USE DEF FlagsOK, Serving, Goto, Emit, tlsVars, netVars, peerVars
<1>1. CASE AcceptWrite
  BY <1>0, <1>1 DEF AcceptWrite
<1>2. CASE AcceptDone
  BY <1>0, <1>2 DEF AcceptDone
<1>3. CASE AcceptFails
  BY <1>0, <1>3 DEF AcceptFails
<1>4. CASE WriteRecord
  BY <1>0, <1>4 DEF WriteRecord
<1>5. CASE WriteFails
  BY <1>0, <1>5 DEF WriteFails
<1>6. CASE WriteDone
  BY <1>0, <1>6 DEF WriteDone
<1>7. CASE SocketFails
  BY <1>0, <1>7 DEF SocketFails
<1>8. CASE RecordSent
  <2>1. kind \in {"none", "handshake", "data", "alert"}
    BY DEF SendTypeOK
  <2> QED
    BY <1>0, <1>8, <2>1 DEF RecordSent
<1>9. CASE Close
  BY <1>0, <1>9 DEF Close
<1>10. CASE DropSocket
  BY <1>0, <1>10 DEF DropSocket
<1>11. CASE Writes
  BY <1>0, <1>11 DEF Writes, SocketWrite
<1>12. CASE \E n \in FrameLens : Frame(n)
  BY <1>0, <1>12 DEF Frame
<1>13. CASE ReadAlert
  BY <1>0, <1>13 DEF ReadAlert
<1>14. CASE LoopEnds
  BY <1>0, <1>14 DEF LoopEnds
<1>15. CASE LoopReturns
  BY <1>0, <1>15 DEF LoopReturns
<1>16. CASE Reset
  BY <1>0, <1>16 DEF Reset
<1>17. CASE Timeout
  BY <1>0, <1>17 DEF Timeout
<1>18. CASE PeerReads
  BY <1>0, <1>18 DEF PeerReads
<1>19. CASE UNCHANGED sendVars
  BY <1>0, <1>19 DEF sendVars
<1> QED
  BY <1>1, <1>2, <1>3, <1>4, <1>5, <1>6, <1>7, <1>8, <1>9, <1>10, <1>11, <1>12, <1>13,
     <1>14, <1>15, <1>16, <1>17, <1>18, <1>19 DEF SendNext, Worker, Loop

(* What WriteRecord takes out of buf. *)
LEMMA ChunkTaken ==
  ASSUME SendTypeOK, BufOK, WriteRecord
  PROVE  /\ Chunk \in 1..Len(buf)
         /\ SubSeq(buf, 1, Chunk) \in Seq(Nat) /\ Len(SubSeq(buf, 1, Chunk)) = Chunk
         /\ \A i \in 1..Chunk : SubSeq(buf, 1, Chunk)[i] = Taken + i - 1
         /\ buf' \in Seq(Nat) /\ Len(buf') = Len(buf) - Chunk /\ Taken' = Taken + Chunk
         /\ buf' = [i \in 1..Len(buf') |-> Taken' + i - 1]
<1>1. /\ buf \in Seq(Nat) /\ Len(buf) \in Nat \ {0} /\ total \in Nat /\ Taken \in Nat
      /\ Len(buf) <= total /\ total' = total /\ buf' = SubSeq(buf, Chunk + 1, Len(buf))
  BY TakenNat DEF SendTypeOK, BufOK, WriteRecord
<1>2. Chunk \in 1..Len(buf)
  BY <1>1, SendConstantsOK DEF Chunk
<1>3. \A i \in 1..Len(buf) : buf[i] = Taken + i - 1
  BY DEF BufOK
<1> HIDE DEF Chunk
<1>4. /\ SubSeq(buf, 1, Chunk) \in Seq(Nat) /\ Len(SubSeq(buf, 1, Chunk)) = Chunk
      /\ \A i \in 1..Chunk : SubSeq(buf, 1, Chunk)[i] = buf[i]
  BY <1>1, <1>2
<1>5. /\ buf' \in Seq(Nat) /\ Len(buf') = Len(buf) - Chunk
      /\ \A i \in 1..Len(buf') : buf'[i] = buf[Chunk + i]
  BY SMTT(40), <1>1, <1>2
<1>6. Taken' = Taken + Chunk
  <2>1. /\ total' = total /\ Len(buf') = Len(buf) - Chunk /\ Chunk \in Nat
        /\ total \in Nat /\ Len(buf) \in Nat
    BY <1>1, <1>2, <1>5, SMTT(40)
  <2> QED
    BY <2>1 DEF Taken
<1>7. ASSUME NEW i \in 1..Len(buf') PROVE buf'[i] = Taken' + i - 1
  <2>1. Chunk + i \in 1..Len(buf)
    BY SMTT(40), <1>1, <1>2, <1>5
  <2> QED
    BY <1>1, <1>2, <1>3, <1>5, <1>6, <2>1
<1>8. buf' = [i \in 1..Len(buf') |-> Taken' + i - 1]
  BY <1>5, <1>7
<1> QED
  BY SMTT(40), <1>1, <1>2, <1>3, <1>4, <1>5, <1>6, <1>8

(* write always holds the last bytes of what it was given. *)
LEMMA SendBufStep == SendTypeOK /\ BufOK /\ [SendNext]_sendVars => BufOK'
<1> SUFFICES ASSUME SendTypeOK, BufOK, [SendNext]_sendVars PROVE BufOK'
  OBVIOUS
<1>0. kind \in {"none", "handshake", "data", "alert"}
  BY DEF SendTypeOK
<1>1. CASE WriteRecord
  <2>1. Len(buf') <= total'
    <3>1. Len(buf') <= Len(buf) /\ total' = total /\ Len(buf) <= total
      BY <1>1, ChunkTaken DEF WriteRecord, BufOK
    <3>2. Len(buf) \in Nat /\ Len(buf') \in Nat /\ total \in Nat
      BY <1>1, ChunkTaken DEF SendTypeOK
    <3> QED
      BY <3>1, <3>2
  <2>2. pc' = "send" /\ kind' = "data"
    BY <1>1 DEF WriteRecord, Goto, Emit
  <2> QED
    BY <1>1, <2>1, <2>2, ChunkTaken DEF BufOK
<1>2. CASE \E n \in FrameLens : Frame(n)
  <2>1. PICK n \in FrameLens : Frame(n)
    BY <1>2
  <2>2. n \in Nat /\ total \in Nat /\ total' = total + n
    BY <2>1, SendConstantsOK DEF Frame, SendTypeOK
  <2>3. buf' = [i \in 1..n |-> total + i - 1] /\ Len(buf') = n
    BY <2>1, <2>2 DEF Frame
  <2>4. Taken' = total
    BY <2>2, <2>3 DEF Taken
  <2>5. pc' = "write"
    BY <2>1 DEF Frame, Goto
  <2> QED
    BY <2>2, <2>3, <2>4, <2>5 DEF BufOK
<1>3. ASSUME UNCHANGED <<total, buf>>,
             pc' \in {"accept", "idle"} \/ (pc' = "send" /\ kind' = "handshake") => buf = <<>>
      PROVE  BufOK'
  BY <1>3 DEF BufOK, Taken
<1> USE DEF BufOK, Goto, Emit, tlsVars, netVars, peerVars
<1>4. CASE AcceptWrite \/ AcceptDone \/ AcceptFails \/ WriteFails \/ WriteDone
  BY <1>3, <1>4 DEF AcceptWrite, AcceptDone, AcceptFails, WriteFails, WriteDone
<1>5. CASE SocketFails \/ RecordSent \/ Close \/ DropSocket
  BY <1>0, <1>3, <1>5 DEF SocketFails, RecordSent, Close, DropSocket
<1>6. CASE Writes \/ ReadAlert \/ LoopEnds \/ LoopReturns \/ Reset \/ Timeout
  BY <1>3, <1>6 DEF Writes, SocketWrite, ReadAlert, LoopEnds, LoopReturns, Reset, Timeout
<1>7. CASE PeerReads \/ UNCHANGED sendVars
  BY SMTT(40), <1>3, <1>7 DEF PeerReads, sendVars
<1> QED
  BY <1>1, <1>2, <1>4, <1>5, <1>6, <1>7 DEF SendNext, Worker, Loop

(* Every step keeps the types. *)
LEMMA SendTypeStep == SendTypeOK /\ BufOK /\ [SendNext]_sendVars => SendTypeOK'
<1> SUFFICES ASSUME SendTypeOK, BufOK, [SendNext]_sendVars PROVE SendTypeOK'
  OBVIOUS
<1> USE SendConstantsOK
<1> USE DEF SendTypeOK, Goto, tlsVars, netVars, peerVars
<1>1. CASE AcceptWrite
  <2>0. <<>> \in Seq(Nat)
    OBVIOUS
  <2>1. Record("handshake", <<>>) \in Seq(Cell)
    BY Zenon, <2>0, RecordTyped
  <2> QED
    BY <1>1, <2>1 DEF AcceptWrite, Emit
<1>2. CASE AcceptDone
  BY <1>2 DEF AcceptDone
<1>3. CASE AcceptFails
  BY <1>3 DEF AcceptFails
<1>4. CASE WriteRecord
  <2>1. Chunk \in 0..Len(buf)
    BY DEF Chunk
  <2>2. SubSeq(buf, 1, Chunk) \in Seq(Nat) /\ SubSeq(buf, Chunk + 1, Len(buf)) \in Seq(Nat)
    BY SMTT(40), <2>1
  <2>3. Record("data", SubSeq(buf, 1, Chunk)) \in Seq(Cell)
    BY Zenon, <2>2, RecordTyped
  <2> QED
    BY <1>4, <2>2, <2>3 DEF WriteRecord, Emit
<1>5. CASE WriteFails
  BY <1>5 DEF WriteFails
<1>6. CASE WriteDone
  BY <1>6 DEF WriteDone
<1>7. CASE SocketFails
  BY <1>7 DEF SocketFails
<1>8. CASE RecordSent
  BY <1>8 DEF RecordSent
<1>9. CASE Close
  <2>0. <<>> \in Seq(Nat)
    OBVIOUS
  <2>1. Record("alert", <<>>) \in Seq(Cell)
    BY Zenon, <2>0, RecordTyped
  <2> QED
    BY <1>9, <2>1 DEF Close, Emit
<1>10. CASE DropSocket
  BY <1>10 DEF DropSocket
<1>11. CASE Writes
  <2>1. PICK n \in 1..SendBuf : SocketWrite(n)
    BY <1>11 DEF Writes
  <2>2. SubSeq(out, 1, n) \in Seq(Cell) /\ SubSeq(out, n + 1, Len(out)) \in Seq(Cell)
    <3>1. out \in Seq(Cell) /\ n \in Nat /\ n <= Len(out)
      BY <2>1 DEF SocketWrite
    <3> QED
      BY <3>1
  <2> QED
    BY <2>1, <2>2 DEF SocketWrite
<1>12. CASE \E n \in FrameLens : Frame(n)
  <2>1. PICK n \in FrameLens : Frame(n)
    BY <1>12
  <2>2. n \in Nat /\ [i \in 1..n |-> total + i - 1] \in Seq(Nat)
    OBVIOUS
  <2> QED
    BY <2>1, <2>2 DEF Frame
<1>13. CASE ReadAlert
  BY <1>13 DEF ReadAlert
<1>14. CASE LoopEnds
  BY <1>14 DEF LoopEnds
<1>15. CASE LoopReturns
  BY <1>15 DEF LoopReturns
<1>16. CASE Reset
  BY <1>16 DEF Reset
<1>17. CASE Timeout
  BY <1>17 DEF Timeout
<1>18. CASE PeerReads
  <2> DEFINE cells == Append(part, Head(wire))
  <2>1. cells \in Seq(Cell) /\ Len(cells) = Len(part) + 1 /\ Tail(wire) \in Seq(Cell)
    BY SMTT(40), <1>18 DEF PeerReads
  <2> HIDE DEF cells
  <2>2. Bytes(cells) \in Seq(Nat)
    <3>1. \A i \in 1..Len(cells) - 1 : cells[i + 1] \in Cell
      BY <2>1
    <3>2. \A i \in 1..Len(cells) - 1 : cells[i + 1].byte \in Nat
      BY <3>1 DEF Cell
    <3> QED
      BY <2>1, <3>2 DEF Bytes
  <2>3. got \o Bytes(cells) \in Seq(Nat)
    BY <2>2
  <2>4. \/ part' = cells /\ read' = read /\ got' = got /\ peer' = peer
        \/ /\ part' = <<>> /\ read' = read + 1 /\ got' \in {got, got \o Bytes(cells)}
           /\ peer' \in {"reading", "garbled", "notified"}
    BY Zenon, <1>18 DEF PeerReads, cells
  <2>5. read' \in Nat /\ peer' \in {"reading", "garbled", "notified"}
    BY <2>4
  <2>6. got' \in Seq(Nat) /\ part' \in Seq(Cell)
    <3>1. <<>> \in Seq(Cell)
      OBVIOUS
    <3> QED
      BY Zenon, <2>1, <2>3, <2>4, <3>1
  <2>7. wire' \in Seq(Cell) /\ UNCHANGED <<pc, tlsVars, out, sock, ending>>
    BY <1>18, <2>1 DEF PeerReads
  <2> QED
    BY <2>5, <2>6, <2>7
<1>19. CASE UNCHANGED sendVars
  BY <1>19 DEF sendVars
<1> QED
  BY Zenon, <1>1, <1>2, <1>3, <1>4, <1>5, <1>6, <1>7, <1>8, <1>9, <1>10, <1>11, <1>12, <1>13,
     <1>14, <1>15, <1>16, <1>17, <1>18, <1>19 DEF SendNext, Worker, Loop
-----------------------------------------------------------------------------
(* A prefix of a chain is a chain. *)
LEMMA ChainPrefix ==
  ASSUME NEW s, NEW dn \in Nat, NEW nr \in Nat, Chain(s, dn, nr),
         NEW t \in Seq(Cell), Len(t) <= Len(s), \A i \in 1..Len(t) : t[i] = s[i]
  PROVE  Chain(t, dn, nr)
<1>1. \A i \in 1..Len(t) : CellOK(t[i], dn, nr)
  BY DEF Chain
<1>2. ASSUME NEW i \in 1..Len(t) - 1 PROVE t[i].kind # "alert" /\ Link(t[i], t[i + 1])
  <2>1. i \in 1..Len(s) - 1 /\ t[i] = s[i] /\ t[i + 1] = s[i + 1]
    BY DEF Chain
  <2> QED
    BY SMTT(40), <2>1 DEF Chain
<1> QED
  BY <1>1, <1>2 DEF Chain

(* So is what is left when the first n cells are gone. *)
LEMMA ChainSuffix ==
  ASSUME NEW s, NEW dn \in Nat, NEW nr \in Nat, Chain(s, dn, nr), NEW n \in Nat,
         NEW t \in Seq(Cell), Len(t) + n = Len(s), \A i \in 1..Len(t) : t[i] = s[i + n]
  PROVE  Chain(t, dn, nr)
<1>1. ASSUME NEW i \in 1..Len(t) PROVE CellOK(t[i], dn, nr)
  <2>1. i + n \in 1..Len(s) /\ t[i] = s[i + n]
    BY DEF Chain
  <2> QED
    BY <2>1 DEF Chain
<1>2. ASSUME NEW i \in 1..Len(t) - 1 PROVE t[i].kind # "alert" /\ Link(t[i], t[i + 1])
  <2>1. /\ i + n \in 1..Len(s) - 1 /\ t[i] = s[i + n]
        /\ t[i + 1] = s[(i + n) + 1]
    BY DEF Chain
  <2> QED
    BY <2>1 DEF Chain
<1> QED
  BY <1>1, <1>2 DEF Chain

(* Two chains of which the second goes on where the first ends. *)
LEMMA ChainExtend ==
  ASSUME NEW s, NEW dn \in Nat, NEW nr \in Nat, Chain(s, dn, nr),
         NEW t, NEW dt \in Nat, NEW nt \in Nat, Chain(t, dt, nt), dn <= dt, nr <= nt,
         s # <<>> => s[Len(s)].kind # "alert",
         s # <<>> /\ t # <<>> => Link(s[Len(s)], t[1])
  PROVE  Chain(s \o t, dt, nt)
<1>1. s \in Seq(Cell) /\ t \in Seq(Cell)
  BY DEF Chain
<1>2. /\ s \o t \in Seq(Cell) /\ Len(s \o t) = Len(s) + Len(t)
      /\ \A i \in 1..Len(s) : (s \o t)[i] = s[i]
      /\ \A i \in Len(s) + 1..Len(s) + Len(t) : (s \o t)[i] = t[i - Len(s)]
  BY <1>1
<1>3. \A i \in 1..Len(s) : s[i].kind # "alert"
  BY <1>1 DEF Chain
<1>4. ASSUME NEW i \in 1..Len(s) PROVE CellOK(s[i], dt, nt)
  <2>1. s[i] \in Cell /\ CellOK(s[i], dn, nr)
    BY <1>1 DEF Chain
  <2> QED
    BY SMTT(40), <1>3, <2>1 DEF CellOK, Cell, NextByte
<1>5. ASSUME NEW i \in 1..Len(s) + Len(t) PROVE CellOK((s \o t)[i], dt, nt)
  <2>1. CASE i <= Len(s)
    BY <1>1, <1>2, <1>4, <2>1
  <2>2. CASE i > Len(s)
    <3>1. i - Len(s) \in 1..Len(t)
      BY <1>1, <2>2
    <3> QED
      BY <1>1, <1>2, <2>2, <3>1 DEF Chain
  <2> QED
    BY <1>1, <2>1, <2>2
<1>6. ASSUME NEW i \in 1..(Len(s) + Len(t)) - 1
      PROVE  (s \o t)[i].kind # "alert" /\ Link((s \o t)[i], (s \o t)[i + 1])
  <2>1. CASE i < Len(s)
    BY SMTT(40), <1>1, <1>2, <2>1 DEF Chain
  <2>2. CASE i = Len(s)
    <3>1. s # <<>> /\ t # <<>> /\ (s \o t)[i] = s[Len(s)] /\ (s \o t)[i + 1] = t[1]
      BY <1>1, <1>2, <2>2
    <3> QED
      BY <3>1
  <2>3. CASE i > Len(s)
    <3>1. /\ i - Len(s) \in 1..Len(t) - 1 /\ (s \o t)[i] = t[i - Len(s)]
          /\ (s \o t)[i + 1] = t[(i - Len(s)) + 1]
      BY SMTT(40), <1>1, <1>2, <2>3
    <3> QED
      BY <3>1 DEF Chain
  <2> QED
    BY SMTT(40), <1>1, <2>1, <2>2, <2>3
<1> QED
  BY Zenon, <1>2, <1>5, <1>6 DEF Chain

(* The record that Emit makes is a chain, of the bytes it is given. *)
LEMMA RecordChain ==
  ASSUME SendTypeOK, BufOK, NEW k \in {"handshake", "data", "alert"},
         NEW data \in Seq(Nat), \A i \in 1..Len(data) : data[i] = Taken + i - 1,
         k = "alert" => data = <<>>
  PROVE  /\ Chain(Record(k, data), Taken + Len(data), nrec + 1)
         /\ NextByte(Record(k, data)[Len(data) + 1]) = Taken + Len(data)
<1> DEFINE r == Record(k, data)
<1>0. Taken \in Nat /\ nrec \in Nat /\ Len(data) \in Nat
  BY TakenNat DEF SendTypeOK
<1>1. /\ r \in Seq(Cell) /\ Len(r) = Len(data) + 1
      /\ \A i \in 1..Len(r) :
           /\ r[i].num = nrec /\ r[i].pos = i /\ r[i].of = Len(data) + 1 /\ r[i].kind = k
           /\ r[i].byte = IF i = 1 THEN Taken ELSE data[i - 1]
  BY SMTT(40), RecordTyped
<1> HIDE DEF r
<1>2. ASSUME NEW i \in 1..Len(r) PROVE NextByte(r[i]) = Taken + i - 1
  <2>1. CASE i = 1
    BY <1>0, <1>1, <2>1 DEF NextByte
  <2>2. CASE i > 1
    <3>1. i - 1 \in 1..Len(data) /\ r[i].byte = data[i - 1] /\ r[i].pos = i
      BY <1>0, <1>1, <2>2
    <3>2. data[i - 1] = Taken + (i - 1) - 1
      BY <3>1
    <3> QED
      BY <1>0, <2>2, <3>1, <3>2 DEF NextByte
  <2> QED
    BY <1>1, <2>1, <2>2
<1>3. k = "alert" => Len(data) = 0
  OBVIOUS
<1>4. ASSUME NEW i \in 1..Len(r) PROVE CellOK(r[i], Taken + Len(data), nrec + 1)
  BY SMTT(40), <1>0, <1>1, <1>2, <1>3 DEF CellOK
<1>5. ASSUME NEW i \in 1..Len(r) - 1 PROVE r[i].kind # "alert" /\ Link(r[i], r[i + 1])
  <2>1. i \in 1..Len(r) /\ i + 1 \in 1..Len(r) /\ k # "alert"
    BY SMTT(40), <1>0, <1>1, <1>3
  <2>2. r[i + 1].byte = data[i] /\ data[i] = Taken + i - 1
    <3>1. i + 1 # 1 /\ (i + 1) - 1 = i /\ i \in 1..Len(data)
      BY <1>0, <1>1
    <3>2. r[i + 1].byte = data[(i + 1) - 1]
      BY SMTT(40), <1>1, <2>1, <3>1
    <3> QED
      BY <3>1, <3>2
  <2> QED
    BY SMTT(40), <1>0, <1>1, <1>2, <2>1, <2>2 DEF Link, Follows
<1>6. NextByte(r[Len(data) + 1]) = Taken + Len(data)
  <2>1. Len(data) + 1 \in 1..Len(r) /\ Taken + (Len(data) + 1) - 1 = Taken + Len(data)
    BY <1>0, <1>1
  <2> QED
    BY <1>2, <2>1
<1> QED
  BY <1>1, <1>4, <1>5, <1>6 DEF Chain, r
-----------------------------------------------------------------------------
(* A step that moves no cell, or moves cells only from the worker to the    *)
(* socket, leaves the stream as it is.                                      *)
LEMMA StreamKept ==
  ASSUME StreamInv, Stream' = Stream, Taken' = Taken,
         UNCHANGED <<nrec, read, got, peer, part>>,
         sock' = "open" /\ Serving' => sock = "open" /\ Serving,
         sock' = "open" /\ pc' = "ended" => sock = "open",
         Serving' \/ pc' = "ended" => Serving \/ pc = "ended"
  PROVE  StreamInv'
<1>1. Chain(Stream', Taken', nrec')
  BY DEF StreamInv
<1>2. peer' = "reading" =>
        Begins(Stream', read', Len(got')) /\ PartOK(part', read', Len(got'))
  BY DEF StreamInv
<1>3. sock' = "open" /\ Serving' => Ends(Stream', Taken', nrec', read', Len(got'))
  BY DEF StreamInv
<1>4. sock' = "open" /\ pc' = "ended" => MayEnd(Stream', Taken', nrec', read', Len(got'))
  BY DEF StreamInv, Ends, MayEnd
<1>5. Serving' \/ pc' = "ended" => NoAlert(Stream')
  BY DEF StreamInv
<1> QED
  BY <1>1, <1>2, <1>3, <1>4, <1>5 DEF StreamInv

(* A step that cuts the stream behind what the peer has taken. *)
LEMMA StreamCut ==
  ASSUME SendTypeOK, BufOK, StreamInv, SendTypeOK', Taken' = Taken,
         UNCHANGED <<nrec, read, got, peer, part>>,
         Stream' \in Seq(Cell), Len(Stream') <= Len(Stream),
         \A i \in 1..Len(Stream') : Stream'[i] = Stream[i],
         sock' = "open" => ~Serving',
         sock' = "open" /\ pc' = "ended" => MayEnd(Stream', Taken, nrec, read, Len(got)),
         Serving' \/ pc' = "ended" => Serving \/ pc = "ended"
  PROVE  StreamInv'
<1>1. Chain(Stream', Taken', nrec')
  <2>1. Taken \in Nat /\ nrec \in Nat
    BY SMTT(40), TakenNat DEF SendTypeOK
  <2> QED
    BY <2>1, ChainPrefix DEF StreamInv
<1>2. peer' = "reading" =>
        Begins(Stream', read', Len(got')) /\ PartOK(part', read', Len(got'))
  BY SMTT(40) DEF StreamInv, Begins, Chain
<1>3. Serving' \/ pc' = "ended" => NoAlert(Stream')
  <2>1. CASE Len(Stream') = Len(Stream)
    BY SMTT(40), <2>1 DEF StreamInv, NoAlert, Chain
  <2>2. CASE Len(Stream') < Len(Stream)
    BY <2>2 DEF StreamInv, NoAlert, Chain
  <2> QED
    BY SMTT(40), <2>1, <2>2 DEF StreamInv, Chain
<1> QED
  BY <1>1, <1>2, <1>3 DEF StreamInv

(* A record is made, after whole records or for close_notify. *)
LEMMA StreamEmit ==
  ASSUME SendTypeOK, BufOK, StreamInv, SendTypeOK',
         NEW k \in {"handshake", "data", "alert"},
         NEW data \in Seq(Nat), \A i \in 1..Len(data) : data[i] = Taken + i - 1,
         Emit(k, data), Taken' = Taken + Len(data), pc # "send", pc' = "send",
         UNCHANGED <<sock, wire, read, got, peer, part>>,
         k = "alert" => data = <<>> /\ pc = "ended", k # "alert" => Serving
  PROVE  StreamInv'
<1> DEFINE s == part \o wire
           r == Record(k, data)
<1>0. /\ Taken \in Nat /\ nrec \in Nat /\ Len(data) \in Nat /\ read \in Nat
      /\ part \in Seq(Cell) /\ wire \in Seq(Cell) /\ s \in Seq(Cell)
      /\ Len(got) \in Nat
  BY SMTT(40), TakenNat DEF SendTypeOK
<1>1. Stream = s
  BY <1>0 DEF Stream, Pending
<1>2. /\ r \in Seq(Cell) /\ Len(r) = Len(data) + 1
      /\ r[1].num = nrec /\ r[1].pos = 1 /\ r[1].kind = k /\ r[1].byte = Taken
      /\ r[Len(r)].num = nrec /\ r[Len(r)].pos = Len(r) /\ r[Len(r)].of = Len(r)
      /\ r[Len(r)].kind = k
  <2>1. 1 \in 1..Len(data) + 1 /\ Len(data) + 1 \in 1..Len(data) + 1
    BY <1>0
  <2>2. RecordOf(r, k, data)
    BY RecordMade, Zenon
  <2> HIDE DEF r
  <2> QED
    BY <1>0, <2>1, <2>2, SMTT(40) DEF RecordOf
<1>3. Chain(r, Taken + Len(data), nrec + 1) /\ NextByte(r[Len(r)]) = Taken + Len(data)
  BY <1>2, RecordChain
<1>4. kind' = k /\ out' = r /\ nrec' = nrec + 1
  BY DEF Emit
<1> HIDE DEF s, r
<1>7. Chain(s, Taken, nrec) /\ NoAlert(s)
  BY SMTT(40), <1>1 DEF StreamInv
<1>5. CASE sock = "open"
  <2>1. Stream' = s \o r
    BY SMTT(40), <1>4, <1>5 DEF Stream, Pending, s
  <2>2. MayEnd(s, Taken, nrec, read, Len(got))
    BY Zenon, <1>1, <1>5 DEF StreamInv, Ends, MayEnd, Serving
  <2>3. k # "alert" => Ends(s, Taken, nrec, read, Len(got))
    BY <1>1, <1>5 DEF StreamInv
  <2>4. s # <<>> => s[Len(s)] \in Cell
    BY <1>0
  <2>5. s # <<>> => Link(s[Len(s)], r[1])
    <3>1. CASE k = "alert"
      BY SMTT(40), <1>2, <2>2, <3>1 DEF Link, MayEnd
    <3>2. CASE k # "alert"
      <4>1. ASSUME s # <<>> PROVE Follows(s[Len(s)], r[1])
        <5> DEFINE c == s[Len(s)]
        <5>1. c.pos \in Nat /\ c.of \in Nat /\ c.num \in Nat
          BY <2>4, <4>1 DEF Cell
        <5>2. c.pos = c.of /\ c.num + 1 = nrec /\ NextByte(c) = Taken
          BY SMTT(40), <2>3, <3>2, <4>1 DEF Ends
        <5> HIDE DEF c
        <5>3. Follows(c, r[1])
          BY SMTT(40), <1>2, <5>1, <5>2 DEF Follows
        <5> QED
          BY <5>3 DEF c
      <4> QED
        BY <1>2, <3>2, <4>1 DEF Link
    <3> QED
      BY SMTT(40), <3>1, <3>2
  <2>6. Chain(s \o r, Taken + Len(data), nrec + 1)
    BY SMTT(40), <1>0, <1>3, <1>7, <2>5, ChainExtend DEF NoAlert
  <2>7. ASSUME peer' = "reading" PROVE Begins(s \o r, read', Len(got'))
    <3>1. CASE s = <<>>
      <4>1. (s \o r)[1] = r[1]
        BY <1>2, <3>1
      <4> QED
        BY Zenon, <1>0, <1>2, <2>2, <2>3, <3>1, <4>1 DEF Begins, Ends, MayEnd
    <3>2. CASE s # <<>>
      <4>1. (s \o r)[1] = s[1]
        BY SMTT(40), <1>0, <1>2, <3>2
      <4> QED
        BY Zenon, <1>1, <2>7, <3>2, <4>1 DEF Begins, StreamInv
    <3> QED
      BY SMTT(40), <3>1, <3>2
  <2>8. k # "alert" => Ends(s \o r, Taken', nrec', read', Len(got'))
    <3>1. (s \o r)[Len(s \o r)] = r[Len(r)] /\ s \o r # <<>>
      BY SMTT(40), <1>0, <1>2
    <3> QED
      BY SMTT(40), <1>2, <1>3, <1>4, <3>1 DEF Ends
  <2>9. k # "alert" => NoAlert(s \o r)
    <3>1. (s \o r)[Len(s \o r)] = r[Len(r)]
      BY SMTT(40), <1>0, <1>2
    <3> QED
      BY <1>2, <3>1 DEF NoAlert
  <2> QED
    BY <1>4, <1>5, <2>1, <2>6, <2>7, <2>8, <2>9 DEF StreamInv, Serving
<1>6. CASE sock # "open"
  <2>1. Stream' = s
    BY <1>0, <1>6 DEF Stream, Pending, s
  <2>2. Chain(<<>>, Taken', nrec')
    BY DEF Chain
  <2>3. Chain(s \o <<>>, Taken', nrec')
    <3>1. Taken' \in Nat /\ nrec' \in Nat /\ Taken <= Taken' /\ nrec <= nrec'
      BY <1>0, <1>4
    <3> QED
      BY Zenon, <1>0, <1>7, <2>2, <3>1, ChainExtend DEF NoAlert
  <2>4. s \o <<>> = s
    BY <1>0
  <2> QED
    BY <1>1, <1>6, <1>7, <2>1, <2>3, <2>4 DEF StreamInv
<1> QED
  BY <1>5, <1>6

(* The cells that the socket takes stay in the stream. *)
LEMMA SocketWriteKeeps ==
  ASSUME SendTypeOK, NEW n \in 1..SendBuf, SocketWrite(n) PROVE Stream' = Stream
<1>1. /\ part \in Seq(Cell) /\ wire \in Seq(Cell) /\ out \in Seq(Cell)
      /\ n \in 1..Len(out)
  BY SendConstantsOK DEF SendTypeOK, SocketWrite
<1> DEFINE a == SubSeq(out, 1, n)
           b == SubSeq(out, n + 1, Len(out))
<1>2. a \in Seq(Cell) /\ b \in Seq(Cell) /\ a \o b = out
  BY <1>1
<1>3. /\ Stream = (part \o wire) \o out
      /\ Stream' = (part \o (wire \o a)) \o b
  BY DEF Stream, Pending, SocketWrite, tlsVars, peerVars
<1> HIDE DEF a, b
<1>4. part \in Seq(Cell) /\ wire \in Seq(Cell) /\ a \in Seq(Cell) /\ b \in Seq(Cell)
  BY <1>1, <1>2
<1>5. (part \o (wire \o a)) \o b = (part \o wire) \o (a \o b)
  <2>1. \A x, y, z \in Seq(Cell) : (x \o y) \o z = x \o (y \o z)
    BY SMTT(40)
  <2>2. part \o wire \in Seq(Cell)
    BY <1>4
  <2>3. part \o (wire \o a) = (part \o wire) \o a
    BY <1>4, <2>1, Zenon
  <2> QED
    <3>1. ((part \o wire) \o a) \o b = (part \o wire) \o (a \o b)
      BY <1>4, <2>1, <2>2, Zenon
    <3> QED
      BY <2>3, <3>1, Zenon
<1> QED
  BY <1>2, <1>3, <1>5

(* The stream begins with what the peer holds, then comes the socket. *)
LEMMA StreamParts ==
  ASSUME SendTypeOK
  PROVE  /\ part \in Seq(Cell) /\ wire \in Seq(Cell) /\ part \o wire \in Seq(Cell)
         /\ Pending \in Seq(Cell) /\ Stream \in Seq(Cell)
         /\ Len(Stream) = Len(part) + Len(wire) + Len(Pending)
         /\ Len(part \o wire) = Len(part) + Len(wire)
         /\ \A i \in 1..Len(part) : Stream[i] = part[i]
         /\ \A i \in 1..Len(part) + Len(wire) : Stream[i] = (part \o wire)[i]
         /\ \A i \in 1..Len(wire) : Stream[Len(part) + i] = wire[i]
<1>1. /\ part \in Seq(Cell) /\ wire \in Seq(Cell) /\ part \o wire \in Seq(Cell)
      /\ Pending \in Seq(Cell)
  BY <<>> \in Seq(Cell) DEF SendTypeOK, Pending
<1> QED
  BY <1>1 DEF Stream

(* No step of the worker or of the network breaks the stream. *)
LEMMA StreamStep ==
  ASSUME SendInv, [SendNext]_sendVars, ~PeerReads, SendTypeOK' PROVE StreamInv'
<1>0. SendTypeOK /\ BufOK /\ FlagsOK /\ StreamInv
  BY DEF SendInv
<1>1. Taken \in Nat /\ nrec \in Nat
  BY <1>0, TakenNat DEF SendTypeOK
<1> USE DEF Goto, tlsVars, netVars, peerVars
<1>2. CASE AcceptWrite
  <2>1. Emit("handshake", <<>>) /\ UNCHANGED <<total, buf, netVars, peerVars>>
    BY <1>2 DEF AcceptWrite
  <2>2. Len(<<>>) = 0 /\ <<>> \in Seq(Nat)
    OBVIOUS
  <2>3. Taken' = Taken + Len(<<>>)
    BY <1>1, <2>1, <2>2 DEF Taken
  <2>4. pc = "accept" /\ pc' = "send" /\ Serving
    BY <1>2 DEF AcceptWrite, Serving
  <2>5. \A i \in 1..Len(<<>>) : <<>>[i] = Taken + i - 1
    BY <2>2
  <2> QED
    BY Zenon, <1>0, <2>1, <2>2, <2>3, <2>4, <2>5, StreamEmit
<1>3. CASE WriteRecord
  <2>1. /\ Emit("data", SubSeq(buf, 1, Chunk)) /\ UNCHANGED <<netVars, peerVars>>
        /\ pc = "write" /\ pc' = "send" /\ Serving
    BY <1>3 DEF WriteRecord, Serving
  <2>2. /\ SubSeq(buf, 1, Chunk) \in Seq(Nat) /\ Len(SubSeq(buf, 1, Chunk)) = Chunk
        /\ \A i \in 1..Chunk : SubSeq(buf, 1, Chunk)[i] = Taken + i - 1
        /\ Taken' = Taken + Chunk
    BY <1>0, <1>3, ChunkTaken
  <2> QED
    BY Zenon, <1>0, <2>1, <2>2, StreamEmit
<1>4. CASE Close
  <2>1. UNCHANGED <<total, buf, wire, peerVars>> /\ pc = "ended"
    BY <1>4 DEF Close
  <2>2. CASE Emit("alert", <<>>) /\ pc' = "send" /\ sock' = sock
    <3>1. Len(<<>>) = 0 /\ <<>> \in Seq(Nat)
      OBVIOUS
    <3>2. Taken' = Taken + Len(<<>>)
      BY <1>1, <2>1, <3>1 DEF Taken
    <3>3. \A i \in 1..Len(<<>>) : <<>>[i] = Taken + i - 1
      BY <3>1
    <3> QED
      BY Zenon, <1>0, <2>1, <2>2, <3>1, <3>2, <3>3, StreamEmit
  <2>3. CASE pc' = "done" /\ UNCHANGED <<kind, out, nrec>>
    <3>1. Stream' = Stream /\ Taken' = Taken /\ ~Serving'
      BY <2>1, <2>3 DEF Stream, Pending, Taken, Serving
    <3> QED
      BY <1>0, <2>1, <2>3, <3>1, StreamKept
  <2> QED
    BY <1>4, <2>2, <2>3 DEF Close
<1>5. CASE AcceptDone \/ AcceptFails \/ WriteFails \/ WriteDone
  <2>1. /\ UNCHANGED <<total, buf, nrec, sock, wire, part, read, got, peer, out>>
        /\ pc # "send" /\ pc' # "send" /\ pc \in {"accept", "idle", "write"}
    BY <1>5 DEF AcceptDone, AcceptFails, WriteFails, WriteDone
  <2>2. Stream' = Stream /\ Taken' = Taken /\ Serving
    BY <2>1 DEF Stream, Pending, Taken, Serving
  <2> QED
    BY SMTT(40), <1>0, <2>1, <2>2, StreamKept
<1>6. CASE ReadAlert \/ LoopEnds \/ LoopReturns
  <2>1. /\ UNCHANGED <<total, buf, nrec, sock, wire, part, read, got, peer, out>>
        /\ pc = "idle" /\ pc' \in {"ended", "done"}
    BY <1>6 DEF ReadAlert, LoopEnds, LoopReturns
  <2>2. Stream' = Stream /\ Taken' = Taken /\ Serving
    BY Zenon, <2>1 DEF Stream, Pending, Taken, Serving
  <2> QED
    BY SMTT(40), <1>0, <2>1, <2>2, StreamKept
<1>7. CASE \E n \in FrameLens : Frame(n)
  <2>1. PICK n \in FrameLens : Frame(n)
    BY <1>7
  <2>2. /\ UNCHANGED <<nrec, sock, wire, part, read, got, peer, out>>
        /\ pc = "idle" /\ pc' = "write" /\ total' = total + n /\ buf = <<>> 
        /\ buf' = [i \in 1..n |-> total + i - 1]
    BY SMTT(40), <1>0, <2>1 DEF Frame, BufOK
  <2>3. n \in Nat /\ total \in Nat /\ Len(buf') = n /\ Len(buf) = 0
    BY <1>0, <2>2, SendConstantsOK DEF SendTypeOK
  <2>4. Taken' = Taken
    <3>1. total' = total + n
      BY <2>2
    <3> QED
      BY <2>3, <3>1 DEF Taken
  <2>5. Stream' = Stream /\ Serving
    BY <2>2 DEF Stream, Pending, Serving
  <2> QED
    BY <1>0, <2>2, <2>4, <2>5, StreamKept
<1>8. CASE RecordSent
  <2>1. /\ UNCHANGED <<total, buf, nrec, wire, part, read, got, peer, out, kind>>
        /\ pc = "send" /\ out = <<>> /\ kind \in {"handshake", "data", "alert"}
        /\ pc' \in {"accept", "write", "done"} /\ (kind = "alert" => pc' = "done")
        /\ kind # "alert" => sock' = sock
    BY <1>0, <1>8 DEF RecordSent, SendTypeOK, FlagsOK
  <2>2. Stream' = Stream /\ Taken' = Taken
    BY <2>1 DEF Stream, Pending, Taken
  <2>3. pc' # "ended" /\ (Serving' => Serving /\ sock' = sock)
    BY <2>1 DEF Serving
  <2> QED
    BY <1>0, <2>1, <2>2, <2>3, StreamKept
<1>9. CASE Writes
  <2>1. PICK n \in 1..SendBuf : SocketWrite(n)
    BY <1>9 DEF Writes
  <2>2. Stream' = Stream
    BY <1>0, <2>1, SocketWriteKeeps
  <2>3. UNCHANGED <<total, buf, nrec, sock, part, read, got, peer, pc, kind>>
    BY <2>1 DEF SocketWrite
  <2>4. Taken' = Taken /\ (Serving' <=> Serving)
    BY <2>3 DEF Taken, Serving
  <2> QED
    BY <1>0, <2>2, <2>3, <2>4, StreamKept
<1>10. CASE UNCHANGED sendVars
  <2>1. UNCHANGED <<total, buf, nrec, sock, part, read, got, peer, pc, kind, wire, out>>
    BY <1>10 DEF sendVars
  <2>2. Stream' = Stream /\ Taken' = Taken /\ (Serving' <=> Serving)
    BY SMTT(40), <2>1 DEF Taken, Serving, Stream, Pending
  <2> QED
    BY <1>0, <2>1, <2>2, StreamKept
<1>11. CASE Reset \/ Timeout \/ DropSocket
  <2>1. /\ UNCHANGED <<total, buf, nrec, part, read, got, peer, kind>> /\ wire' = <<>>
        /\ (pc' = pc /\ sock' = "reset") \/ pc' = "dropped"
    BY <1>11 DEF Reset, Timeout, DropSocket
  <2>2. Pending' = <<>>
    BY SMTT(40), <2>1 DEF Pending
  <2>3. Stream' = part /\ Taken' = Taken
    BY <1>0, <2>1, <2>2 DEF Stream, Taken, SendTypeOK
  <2>4. (Serving' \/ pc' = "ended") => (Serving \/ pc = "ended") /\ sock' # "open"
    BY <2>1 DEF Serving
  <2>5. /\ part \in Seq(Cell) /\ Len(part) <= Len(Stream)
        /\ \A i \in 1..Len(part) : part[i] = Stream[i]
    BY SMTT(40), <1>0, StreamParts
  <2> QED
    BY Zenon, <1>0, <2>1, <2>3, <2>4, <2>5, StreamCut
<1>12. CASE SocketFails
  <2>1. /\ UNCHANGED <<total, buf, nrec, part, read, got, peer, kind, wire>>
        /\ pc = "send" /\ out # <<>> /\ pc' \in {"ended", "done"}
        /\ pc' = "ended" => kind # "alert" /\ sock' = sock
    BY SMTT(40), <1>12 DEF SocketFails
  <2>2. Stream' = part \o wire /\ Taken' = Taken
    <3>1. Pending' = <<>>
      BY <2>1 DEF Pending
    <3> QED
      BY <1>0, <2>1, <3>1 DEF Stream, Taken, SendTypeOK
  <2>3. /\ part \o wire \in Seq(Cell) /\ Len(part \o wire) <= Len(Stream)
        /\ \A i \in 1..Len(part \o wire) : (part \o wire)[i] = Stream[i]
    BY <1>0, StreamParts
  <2>4. ~Serving' /\ (pc' = "ended" => Serving)
    BY <2>1 DEF Serving
  <2>5. ASSUME sock' = "open", pc' = "ended"
        PROVE  MayEnd(part \o wire, Taken, nrec, read, Len(got))
    <3> DEFINE t == part \o wire
    <3>1. sock = "open" /\ Pending = out /\ kind # "alert"
      BY SMTT(40), <2>1, <2>5 DEF Pending
    <3>2. Len(t) < Len(Stream) /\ Stream \in Seq(Cell)
      BY SMTT(40), <1>0, <2>1, <3>1, StreamParts DEF SendTypeOK
    <3> DEFINE d == Stream[Len(t) + 1]
    <3>3. Len(t) \in Nat /\ Len(t) + 1 \in 1..Len(Stream)
      BY SMTT(40), <1>0, <3>2, StreamParts
    <3>4. Chain(Stream, Taken, nrec) /\ NoAlert(Stream)
      BY SMTT(40), <1>0, <2>1, <3>1 DEF StreamInv, Serving
    <3>5. d \in Cell /\ d.num < nrec /\ d.kind # "alert"
      BY <3>2, <3>3, <3>4 DEF Chain, CellOK, NoAlert
    <3> HIDE DEF t, d
    <3>6. ASSUME t = <<>> PROVE read # nrec
      <4>1. d = Stream[1] /\ Stream # <<>>
        BY <3>2, <3>6 DEF d
      <4>2. peer = "reading"
        BY <2>1, <3>1 DEF SendInv, PeerOK, Serving
      <4>3. Begins(Stream, read, Len(got))
        BY SMTT(40), <1>0, <4>2 DEF StreamInv
      <4>4. d.num = read
        BY <3>5, <4>1, <4>3 DEF Begins
      <4> QED
        BY <1>1, <3>5, <4>4 DEF Cell
    <3>7. ASSUME t # <<>>, t[Len(t)].pos = t[Len(t)].of PROVE t[Len(t)].num + 1 # nrec
      <4> DEFINE c == t[Len(t)]
      <4>1. t \in Seq(Cell) /\ Len(t) \in 1..Len(Stream) - 1
        BY <2>3, <3>2, <3>7 DEF t
      <4>2. c = Stream[Len(t)] /\ c \in Cell
        BY SMTT(40), <2>3, <4>1, <3>7 DEF t
      <4>3. Link(c, d)
        BY <3>4, <4>1, <4>2 DEF Chain, d
      <4>4. c.pos \in Nat /\ c.of \in Nat /\ c.num \in Nat /\ d.num \in Nat
        BY SMTT(40), <3>5, <4>2 DEF Cell
      <4>5. c.pos = c.of
        BY <3>7
      <4> HIDE DEF c
      <4>6. d.num = c.num + 1
        BY <3>5, <4>3, <4>4, <4>5 DEF Link, Follows
      <4>7. c.num + 1 # nrec
        BY <1>1, <3>5, <4>4, <4>6
      <4> QED
        BY <4>7 DEF c
    <3> QED
      BY <3>6, <3>7 DEF MayEnd, t
  <2> QED
    BY Zenon, <1>0, <2>1, <2>2, <2>3, <2>4, <2>5, StreamCut
<1> QED
  BY <1>2, <1>3, <1>4, <1>5, <1>6, <1>7, <1>8, <1>9, <1>10, <1>11, <1>12
     DEF SendNext, Worker, Loop

(* What the peer has stays as it is in steps of the worker, and the bytes   *)
(* in records only become more.                                             *)
LEMMA PeerKept ==
  ASSUME SendInv, [SendNext]_sendVars, ~PeerReads, SendTypeOK' PROVE PeerOK' /\ GotOK'
<1>0. SendTypeOK /\ BufOK /\ FlagsOK /\ PeerOK /\ GotOK
  BY DEF SendInv
<1>1. Taken \in Nat /\ kind \in {"none", "handshake", "data", "alert"} /\ Len(got) \in Nat
  BY <1>0, TakenNat DEF SendTypeOK
<1> USE DEF Goto, tlsVars, netVars, peerVars
<1>2. UNCHANGED <<got, peer>>
  BY DEF SendNext, Worker, Loop, sendVars, AcceptWrite, AcceptDone, AcceptFails, WriteRecord,
     WriteFails, WriteDone, SocketFails, RecordSent, Close, DropSocket, Writes, SocketWrite,
     Frame, ReadAlert, LoopEnds, LoopReturns, Reset, Timeout
<1>3. CASE Serving \/ pc = "ended"
  <2>1. peer = "reading"
    BY <1>0, <1>3 DEF PeerOK
  <2>2. Taken <= Taken' /\ Taken' \in Nat
    <3>1. CASE WriteRecord
      <4>1. Taken' = Taken + Chunk /\ Chunk \in 1..Len(buf) /\ Len(buf) \in Nat
        BY <1>0, <3>1, ChunkTaken DEF SendTypeOK
      <4> QED
        BY SMTT(40), <1>1, <4>1
    <3>2. CASE \E n \in FrameLens : Frame(n)
      <4>1. PICK n \in FrameLens : Frame(n)
        BY <3>2
      <4>2. total' = total + n /\ Len(buf) = 0 /\ buf' = [i \in 1..n |-> total + i - 1]
        BY SMTT(40), <1>0, <4>1 DEF Frame, BufOK
      <4>3. n \in Nat /\ total \in Nat /\ Len(buf') = n
        BY <1>0, <4>2, SendConstantsOK DEF SendTypeOK
      <4>4. total' = total + n /\ Len(buf) = 0
        BY <4>2
      <4> QED
        BY <4>3, <4>4 DEF Taken
    <3>3. CASE UNCHANGED <<total, buf>>
      BY <1>1, <3>3 DEF Taken
    <3> QED
      BY SMTT(40), <3>1, <3>2, <3>3 DEF SendNext, Worker, Loop, sendVars, AcceptWrite, AcceptDone,
         AcceptFails, WriteFails, WriteDone, SocketFails, RecordSent, Close, DropSocket,
         Writes, SocketWrite, ReadAlert, LoopEnds, LoopReturns, Reset, Timeout
  <2> QED
    BY <1>0, <1>1, <1>2, <2>1, <2>2 DEF PeerOK, GotOK
<1>4. CASE ~Serving /\ pc # "ended"
  <2>1. /\ UNCHANGED <<total, buf, kind>>
        /\ pc' \in {"done", "dropped"} \/ (pc' = "send" /\ pc = "send" /\ kind = "alert")
    BY SMTT(40), <1>0, <1>4 DEF SendNext, Worker, Loop, sendVars, AcceptWrite, AcceptDone,
       AcceptFails, WriteRecord, WriteFails, WriteDone, SocketFails, RecordSent, Close,
       DropSocket, Writes, SocketWrite, Frame, ReadAlert, LoopEnds, LoopReturns, Reset,
       Timeout, Serving, SendTypeOK
  <2>2. Taken' = Taken
    BY <2>1 DEF Taken
  <2>3. wire = <<>> /\ (pc = "send" => out = <<>>) =>
          wire' = <<>> /\ (pc' = "send" => out' = <<>>)
    BY <1>4, <2>1 DEF SendNext, Worker, Loop, sendVars, AcceptWrite, AcceptDone,
       AcceptFails, WriteRecord, WriteFails, WriteDone, SocketFails, RecordSent, Close,
       DropSocket, Writes, SocketWrite, Frame, ReadAlert, LoopEnds, LoopReturns, Reset,
       Timeout, Serving
  <2> QED
    BY SMTT(40), <1>0, <1>2, <2>1, <2>2, <2>3 DEF PeerOK, GotOK, Serving
<1> QED
  BY <1>3, <1>4
-----------------------------------------------------------------------------
(* Cell i of a record that begins at byte g. *)
InRecord(c, i, k, rd, of, g) ==
  /\ c.kind = k /\ c.num = rd /\ c.pos = i /\ c.of = of
  /\ c.byte = IF i = 1 THEN g ELSE g + i - 2

(* The cells that the peer puts together, and the one it takes now. *)
LEMMA PeerCells ==
  ASSUME SendInv, PeerReads
  PROVE  LET m == Len(part)
             c == Head(wire)
             k == Append(part, c)[1].kind
             n == Append(part, c)[1].of
             g == Len(got)
         IN  /\ c \in Cell /\ c = Stream[m + 1] /\ m + 1 \in 1..Len(Stream) /\ m \in Nat
             /\ n \in Nat /\ m < n
             /\ \A i \in 1..m : InRecord(part[i], i, k, read, n, g) /\ part[i].kind # "alert"
             /\ c.kind # "alert" => InRecord(c, m + 1, k, read, n, g)
             /\ c.kind = "alert" /\ m = 0 => n = 1 /\ (c.num = read => c.byte = g)
<1> DEFINE m == Len(part)
           c == Head(wire)
           k == Append(part, c)[1].kind
           n == Append(part, c)[1].of
           g == Len(got)
<1>0. SendTypeOK /\ BufOK /\ FlagsOK /\ StreamInv /\ wire # <<>> /\ peer = "reading"
  BY SMTT(40) DEF SendInv, PeerReads
<1>1. /\ part \in Seq(Cell) /\ wire \in Seq(Cell) /\ Len(wire) \in Nat \ {0} /\ m \in Nat
      /\ c \in Cell /\ c = wire[1] /\ g \in Nat /\ Stream \in Seq(Cell)
  BY <1>0, StreamParts DEF SendTypeOK
<1>2. c = Stream[m + 1] /\ m + 1 \in 1..Len(Stream)
  <2>1. /\ Len(Stream) = m + Len(wire) + Len(Pending) /\ Len(Pending) \in Nat
        /\ \A i \in 1..Len(wire) : Stream[m + i] = wire[i]
    <3>1. Pending \in Seq(Cell)
      BY <1>0, StreamParts, Zenon
    <3>2. Len(Pending) \in Nat
      BY <3>1
    <3> QED
      BY <1>0, <3>2, StreamParts, Zenon
  <2> QED
    BY SMTT(40), <1>1, <2>1
<1>3. /\ Chain(Stream, Taken, nrec) /\ Begins(Stream, read, g) /\ PartOK(part, read, g)
  BY SMTT(40), <1>0 DEF StreamInv
<1>4. CellOK(c, Taken, nrec)
  BY Zenon, <1>2, <1>3 DEF Chain
<1>5. /\ m > 0 => k = part[1].kind /\ n = part[1].of
      /\ m = 0 => k = c.kind /\ n = c.of
  BY SMTT(40), <1>1
<1>6. ASSUME NEW i \in 1..m PROVE part[i] = Stream[i] /\ part[i].kind # "alert"
  <2>1. part[i] = Stream[i]
    BY <1>0, StreamParts
  <2>2. i \in 1..Len(Stream) - 1
    BY SMTT(40), <1>1, <1>2
  <2> QED
    BY Zenon, <1>3, <2>1, <2>2 DEF Chain
<1> HIDE DEF c, k, n
<1>7. ASSUME NEW i \in 1..m PROVE InRecord(part[i], i, k, read, n, g)
  <2>1. m > 0 /\ k = part[1].kind /\ n = part[1].of
    BY SMTT(40), <1>1, <1>5
  <2> QED
    BY <1>3, <1>6, <2>1 DEF PartOK, InRecord
<1>8. CASE m = 0
  <2>1. k = c.kind /\ n = c.of /\ c = Stream[1] /\ Stream # <<>>
    BY SMTT(40), <1>1, <1>2, <1>5, <1>8
  <2>2. n \in Nat /\ m < n /\ (c.kind = "alert" => n = 1)
    <3>1. c.of \in Nat \ {0}
      BY SMTT(40), <1>1 DEF Cell
    <3> QED
      BY SMTT(40), <1>4, <1>8, <2>1, <3>1 DEF CellOK
  <2>3. c.kind # "alert" => InRecord(c, m + 1, k, read, n, g)
    <3>1. m + 1 = 1
      BY <1>8
    <3> QED
      BY Zenon, <1>3, <2>1, <3>1 DEF InRecord, Begins
  <2>4. c.kind = "alert" => (c.num = read => c.byte = g)
    BY Zenon, <1>3, <2>1 DEF Begins
  <2> QED
    BY Zenon, <1>1, <1>2, <1>6, <1>7, <2>2, <2>3, <2>4 DEF c, k, n
<1>9. CASE m > 0
  <2>1. k = part[1].kind /\ n = part[1].of /\ part[1] \in Cell
    BY SMTT(40), <1>1, <1>5, <1>9
  <2>2. n \in Nat /\ m < n
    <3>1. part[1].of \in Nat
      BY SMTT(40), <2>1 DEF Cell
    <3> QED
      BY SMTT(40), <1>1, <1>3, <1>9, <2>1, <3>1 DEF PartOK
  <2> DEFINE b == part[m]
  <2>3. InRecord(b, m, k, read, n, g) /\ b \in Cell /\ b = Stream[m]
    <3>1. m \in 1..m
      BY <1>1, <1>9
    <3>2. part \in Seq(Cell)
      BY <1>1, Zenon
    <3>3. part[m] \in Cell
      BY <3>1, <3>2
    <3> QED
      BY Zenon, <1>6, <1>7, <3>1, <3>3
  <2>4. Link(b, c)
    <3>1. m \in 1..Len(Stream) - 1
      BY SMTT(40), <1>1, <1>2, <1>9
    <3> QED
      BY Zenon, <1>2, <1>3, <2>3, <3>1 DEF Chain
  <2> HIDE DEF b
  <2>5. ASSUME c.kind # "alert" PROVE InRecord(c, m + 1, k, read, n, g)
    <3>1. Follows(b, c)
      BY <2>4, <2>5 DEF Link
    <3>2. NextByte(b) = g + m - 1
      <4>1. b.pos = m /\ b.byte = IF m = 1 THEN g ELSE g + m - 2
        BY <2>3 DEF InRecord
      <4> HIDE DEF m, g
      <4> QED
        BY SMTT(40), <1>1, <1>9, <4>1 DEF NextByte
    <3>3. /\ b.kind = k /\ b.num = read /\ b.pos = m /\ b.of = n
      BY SMTT(40), <2>3 DEF InRecord
    <3>4. c.kind = k /\ c.num = read /\ c.pos = m + 1 /\ c.of = n /\ c.byte = g + m - 1
      BY <2>2, <3>1, <3>2, <3>3 DEF Follows
    <3>5. g + m - 1 = g + (m + 1) - 2
      BY SMTT(40), <1>1
    <3> QED
      BY SMTT(40), <1>1, <1>9, <3>4, <3>5 DEF InRecord
  <2> QED
    <3>1. ~(m = 0)
      BY <1>9
    <3> QED
      BY Zenon, <1>1, <1>2, <1>6, <1>7, <2>2, <2>5, <3>1 DEF c, k, n
<1>10. m = 0 \/ m > 0
  <2>1. m \in Nat
    BY <1>1, Zenon
  <2> QED
    BY <2>1
<1> QED
  BY <1>8, <1>9, <1>10, Zenon

(* The peer takes a cell of a record that is not complete yet. *)
LEMMA PeerCollects ==
  ASSUME SendInv, PeerReads, part' = Append(part, Head(wire)),
         Len(part) + 1 < Append(part, Head(wire))[1].of, UNCHANGED <<read, got, peer>>
  PROVE  StreamInv'
<1> DEFINE m == Len(part)
           c == Head(wire)
           k == Append(part, c)[1].kind
           n == Append(part, c)[1].of
           g == Len(got)
<1>0. /\ SendTypeOK /\ StreamInv /\ wire # <<>> /\ peer = "reading" /\ wire' = Tail(wire)
      /\ UNCHANGED <<pc, tlsVars, out, sock, ending>>
  BY SMTT(40) DEF SendInv, PeerReads
<1>1. c \in Cell /\ m \in Nat /\ n \in Nat /\ m < n
  BY Zenon, PeerCells
<1>a. \A i \in 1..m : InRecord(part[i], i, k, read, n, g) /\ part[i].kind # "alert"
  BY Zenon, PeerCells
<1>b. /\ c.kind # "alert" => InRecord(c, m + 1, k, read, n, g)
      /\ c.kind = "alert" /\ m = 0 => n = 1
  BY Zenon, PeerCells
<1>2. /\ part \in Seq(Cell) /\ wire \in Seq(Cell)
      /\ part' \in Seq(Cell) /\ Len(part') = m + 1 /\ part'[m + 1] = c
      /\ \A i \in 1..m : part'[i] = part[i]
  <2>1. part \in Seq(Cell) /\ wire \in Seq(Cell) /\ c \in Cell
    BY <1>0, <1>1, Zenon DEF SendTypeOK
  <2> HIDE DEF c
  <2>2. part' = Append(part, c)
    BY Zenon DEF c
  <2> QED
    BY <2>1, <2>2
<1>3. Append(part, Head(wire)) \o Tail(wire) = part \o wire
  <2>1. part \in Seq(Cell) /\ wire \in Seq(Cell) /\ wire # <<>>
    BY <1>0, <1>2, Zenon
  <2> QED
    BY <2>1
<1>4. Stream' = Stream /\ Taken' = Taken /\ nrec' = nrec /\ (Serving' <=> Serving)
  <2>1. part' \o wire' = part \o wire
    BY SMTT(40), <1>0, <1>3
  <2>2. Pending' = Pending
    BY <1>0 DEF Pending
  <2> QED
    BY Zenon, <1>0, <2>1, <2>2 DEF Stream, Taken, Serving, tlsVars
<1>5. k = part'[1].kind /\ n = part'[1].of /\ m + 1 < n
  BY SMTT(40)
<1> HIDE DEF c, k, n
<1>6. PartOK(part', read, g)
  <2>1. ASSUME NEW i \in 1..m + 1
        PROVE  \/ InRecord(part'[i], i, k, read, n, g) /\ part'[i].kind # "alert"
               \/ i > 1 /\ i = m + 1 /\ part'[i].kind = "alert"
    <3>0. m \in Nat
      BY <1>1, Zenon
    <3> HIDE DEF m
    <3>1. i \in 1..m \/ i = m + 1
      BY <3>0
    <3>2. CASE i \in 1..m
      BY <1>2, <1>a, <3>2, Zenon
    <3>3. CASE i = m + 1 /\ c.kind # "alert"
      BY <1>2, <1>b, <3>3, Zenon
    <3>4. CASE i = m + 1 /\ c.kind = "alert"
      <4>1. m # 0
        BY <1>5, <1>b, <3>4
      <4>2. i > 1
        BY <3>0, <3>4, <4>1
      <4> QED
        BY <1>2, <3>4, <4>2, Zenon
    <3> QED
      BY <3>1, <3>2, <3>3, <3>4, Zenon
  <2> QED
    BY Zenon, <1>2, <1>5, <2>1 DEF PartOK, InRecord
<1>7. /\ Chain(Stream', Taken', nrec') /\ Begins(Stream', read', Len(got'))
      /\ Serving' \/ pc' = "ended" => NoAlert(Stream')
      /\ sock' = "open" /\ Serving' => Ends(Stream', Taken', nrec', read', Len(got'))
      /\ sock' = "open" /\ pc' = "ended" =>
           MayEnd(Stream', Taken', nrec', read', Len(got'))
  BY Zenon, <1>0, <1>4 DEF StreamInv
<1> QED
  BY Zenon, <1>6, <1>7 DEF StreamInv

(* first, first + 1, ... *)
Counts(b, first) == \A i \in 1..Len(b) : b[i] = first + i - 1

(* Numbers(n) counts from zero. *)
LEMMA CountsFromZero ==
  ASSUME NEW b \in Seq(Nat) PROVE Counts(b, 0) <=> b = Numbers(Len(b))
  BY DEF Counts, Numbers

(* The first g numbers, and the next h. *)
LEMMA NumbersGoOn ==
  ASSUME NEW g \in Nat, NEW b \in Seq(Nat), Len(b) = g, Counts(b, 0),
         NEW d \in Seq(Nat), Counts(d, g)
  PROVE  b \o d = Numbers(g + Len(d)) /\ Len(b \o d) = g + Len(d)
<1>1. b \o d \in Seq(Nat) /\ Len(b \o d) = g + Len(d)
  <2>1. \A x, y \in Seq(Nat) : x \o y \in Seq(Nat) /\ Len(x \o y) = Len(x) + Len(y)
    OBVIOUS
  <2> QED
    BY <2>1, Zenon
<1>2. ASSUME NEW i \in 1..g + Len(d) PROVE (b \o d)[i] = i - 1
  <2>1. CASE i <= g
    BY <2>1 DEF Counts
  <2>2. CASE ~(i <= g)
    <3>1. i - g \in 1..Len(d) /\ i \in Len(b) + 1..Len(b) + Len(d)
      BY <2>2
    <3>2. (b \o d)[i] = d[i - g]
      BY SMTT(40), <3>1
    <3> QED
      BY <3>1, <3>2 DEF Counts
  <2> QED
    BY <2>1, <2>2, Zenon
<1>3. Counts(b \o d, 0)
  BY <1>1, <1>2 DEF Counts
<1> QED
  BY Zenon, <1>1, <1>3, CountsFromZero

(* The bytes of a whole record of h bytes that begins at byte g. *)
LEMMA RecordBytes ==
  ASSUME NEW cells \in Seq(Cell), NEW k, NEW rd, NEW h \in Nat, NEW g \in Nat,
         Len(cells) = h + 1, \A i \in 1..h + 1 : InRecord(cells[i], i, k, rd, h + 1, g)
  PROVE  Bytes(cells) \in Seq(Nat) /\ Len(Bytes(cells)) = h /\ Counts(Bytes(cells), g)
<1> DEFINE d == Bytes(cells)
<1>1. d = [i \in 1..h |-> cells[i + 1].byte]
  BY DEF Bytes
<1> HIDE DEF d
<1>2. ASSUME NEW i \in 1..h PROVE d[i] = g + i - 1 /\ d[i] \in Nat
  <2>1. InRecord(cells[i + 1], i + 1, k, rd, h + 1, g) /\ i + 1 # 1 /\ d[i] = cells[i + 1].byte
    BY <1>1
  <2>2. d[i] = g + (i + 1) - 2
    BY Zenon, <2>1 DEF InRecord
  <2> QED
    BY <2>2
<1>3. d \in Seq(Nat) /\ Len(d) = h
  BY <1>1, <1>2
<1> QED
  BY <1>2, <1>3 DEF d, Counts

(* The stream after the peer has completed a record of Len(part) + 1 cells. *)
LEMMA StreamShifts ==
  ASSUME SendTypeOK, SendTypeOK', PeerReads, part' = <<>>
  PROVE  /\ Stream' \in Seq(Cell) /\ Len(Stream') + (Len(part) + 1) = Len(Stream)
         /\ \A i \in 1..Len(Stream') : Stream'[i] = Stream[i + (Len(part) + 1)]
<1>1. wire # <<>> /\ wire' = Tail(wire) /\ Pending' = Pending
  BY DEF PeerReads, Pending
<1>2. /\ part \in Seq(Cell) /\ wire \in Seq(Cell) /\ Pending \in Seq(Cell)
      /\ part \o wire \in Seq(Cell) /\ Stream = (part \o wire) \o Pending
  BY StreamParts DEF Stream
<1>3. Stream' = Tail(wire) \o Pending
  <2>1. part' \o wire' = Tail(wire)
    BY <1>1, <1>2
  <2> QED
    BY <1>1, <2>1 DEF Stream
<1>4. /\ Tail(wire) \in Seq(Cell) /\ Len(Tail(wire)) = Len(wire) - 1 /\ Len(wire) \in Nat \ {0}
      /\ \A i \in 1..Len(wire) - 1 : Tail(wire)[i] = wire[i + 1]
  BY <1>1, <1>2
<1> QED
  BY SMTT(40), <1>2, <1>3, <1>4

(* The record is whole: its bytes come next, and so does its number. *)
LEMMA PeerDecrypts ==
  ASSUME SendInv, SendTypeOK', PeerReads, Head(wire).kind # "alert",
         ~(Len(part) + 1 < Append(part, Head(wire))[1].of)
  PROVE  StreamInv' /\ PeerOK' /\ GotOK'
<1> DEFINE m == Len(part)
           c == Head(wire)
           cells == Append(part, c)
           k == cells[1].kind
           n == cells[1].of
           g == Len(got)
<1>0. /\ SendTypeOK /\ BufOK /\ StreamInv /\ PeerOK /\ GotOK /\ peer = "reading"
      /\ UNCHANGED <<pc, tlsVars, out, sock, ending>>
  BY SMTT(40) DEF SendInv, PeerReads
<1>1. /\ c \in Cell /\ c = Stream[m + 1] /\ m + 1 \in 1..Len(Stream) /\ m \in Nat
      /\ n \in Nat /\ m < n
      /\ \A i \in 1..m : InRecord(part[i], i, k, read, n, g) /\ part[i].kind # "alert"
      /\ InRecord(c, m + 1, k, read, n, g)
  BY Zenon, PeerCells
<1>2. part \in Seq(Cell) /\ got \in Seq(Nat) /\ g \in Nat /\ read \in Nat /\ Taken \in Nat
      /\ nrec \in Nat
  BY SMTT(40), <1>0, TakenNat DEF SendTypeOK
<1>3. n = m + 1
  BY SMTT(40), <1>1
<1>4. /\ cells \in Seq(Cell) /\ Len(cells) = m + 1
      /\ \A i \in 1..m : cells[i] = part[i]
      /\ cells[m + 1] = c
  BY <1>1, <1>2
<1>5. /\ part' = <<>> /\ read' = read + 1
      /\ got' = IF IsRecord(cells) THEN got \o Bytes(cells) ELSE got
      /\ peer' = CASE ~IsRecord(cells) -> "garbled"
                   [] IsRecord(cells) /\ k = "alert" -> "notified"
                   [] OTHER -> "reading"
  BY SMTT(40), <1>4 DEF PeerReads
<1> HIDE DEF c, cells, k, n
<1>6. \A i \in 1..m + 1 : InRecord(cells[i], i, k, read, m + 1, g)
  BY <1>1, <1>3, <1>4
<1>7. IsRecord(cells) /\ k # "alert"
  <2>1. IsRecord(cells)
    BY SMTT(40), <1>4, <1>6 DEF IsRecord, InRecord
  <2>2. c.kind = k /\ c.kind # "alert"
    BY Zenon, <1>1 DEF InRecord, c
  <2> QED
    BY SMTT(40), <2>1, <2>2
<1>8. got' = got \o Bytes(cells) /\ peer' = "reading"
  BY <1>5, <1>7
<1>9. got' = Numbers(g + m) /\ Len(got') = g + m
  <2>1. Bytes(cells) \in Seq(Nat) /\ Len(Bytes(cells)) = m /\ Counts(Bytes(cells), g)
    <3>1. cells \in Seq(Cell) /\ m \in Nat /\ g \in Nat /\ Len(cells) = m + 1
      BY Zenon, <1>1, <1>2, <1>4
    <3> HIDE DEF m, g
    <3> QED
      BY Zenon, <1>6, <3>1, RecordBytes
  <2>2. Counts(got, 0)
    BY SMTT(40), <1>0, <1>2, CountsFromZero DEF GotOK
  <2> QED
    <3>1. got \in Seq(Nat) /\ g \in Nat /\ Len(got) = g
      BY <1>2
    <3> HIDE DEF m, g
    <3>2. got \o Bytes(cells) = Numbers(g + m) /\ Len(got \o Bytes(cells)) = g + m
      BY Zenon, <2>1, <2>2, <3>1, NumbersGoOn
    <3> QED
      BY <1>8, <3>2
<1>10. /\ c.num = read /\ c.pos = c.of /\ c.of \in Nat /\ NextByte(c) = g + m
  <2>1. c.num = read /\ c.pos = m + 1 /\ c.of = m + 1
        /\ c.byte = IF m + 1 = 1 THEN g ELSE g + (m + 1) - 2
    BY Zenon, <1>1, <1>3 DEF InRecord
  <2> HIDE DEF m, g
  <2> QED
    BY SMTT(40), <1>1, <1>2, <2>1 DEF NextByte
<1>11. /\ Chain(Stream, Taken, nrec) /\ Taken' = Taken /\ nrec' = nrec /\ pc' = pc
       /\ sock' = sock /\ (Serving' <=> Serving)
  BY ZenonT(40), <1>0 DEF StreamInv, Taken, tlsVars, Serving
<1>12. NextByte(c) <= Taken
  BY Zenon, <1>1, <1>11 DEF Chain, CellOK
<1>13. /\ Stream' \in Seq(Cell) /\ Len(Stream') + (m + 1) = Len(Stream)
       /\ \A i \in 1..Len(Stream') : Stream'[i] = Stream[i + (m + 1)]
  BY SMTT(40), <1>0, <1>5, StreamShifts
<1>14. Chain(Stream', Taken, nrec)
  <2>1. m + 1 \in Nat
    BY SMTT(40), <1>1
  <2> QED
    BY Zenon, <1>2, <1>11, <1>13, <2>1, ChainSuffix
<1>15. Begins(Stream', read', Len(got'))
  <2> SUFFICES ASSUME Stream' # <<>>
               PROVE  IF Stream'[1].kind = "alert"
                      THEN Stream'[1].num = read' => Stream'[1].byte = Len(got')
                      ELSE /\ Stream'[1].num = read' /\ Stream'[1].pos = 1
                           /\ Stream'[1].byte = Len(got')
    BY SMTT(40) DEF Begins
  <2> DEFINE d == Stream'[1]
  <2>1. d = Stream[(m + 1) + 1] /\ m + 1 \in 1..Len(Stream) - 1
    BY SMTT(40), <1>1, <1>13
  <2>2. Link(c, d)
    BY Zenon, <1>1, <1>11, <2>1 DEF Chain
  <2> HIDE DEF d
  <2>3. CASE d.kind = "alert"
    BY <1>5, <1>9, <1>10, <2>2, <2>3 DEF Link, d
  <2>4. CASE d.kind # "alert"
    <3>1. d.byte = NextByte(c) /\ d.num = c.num + 1 /\ d.pos = 1
      BY <1>10, <2>2, <2>4 DEF Link, Follows
    <3> QED
      BY SMTT(40), <1>5, <1>9, <1>10, <2>4, <3>1 DEF d
  <2> QED
    BY SMTT(40), <2>3, <2>4
<1>16. PartOK(part', read', Len(got'))
  BY <1>5 DEF PartOK
<1>17. Stream' # <<>> => Stream'[Len(Stream')] = Stream[Len(Stream)]
  <2>1. Stream' # <<>> => Len(Stream') \in 1..Len(Stream')
    BY SMTT(40), <1>13
  <2> QED
    BY ZenonT(40), <1>13, <2>1
<1>18. Stream' = <<>> => Stream[Len(Stream)] = c
  <2>1. Stream' = <<>> => Len(Stream') = 0
    BY SMTT(40)
  <2>2. Len(Stream') = 0 => Len(Stream) = m + 1
    BY SMTT(40), <1>1, <1>13
  <2> QED
    BY Zenon, <1>1, <2>1, <2>2
<1>19. Stream # <<>>
  BY SMTT(40), <1>1
<1>20. Serving \/ pc = "ended" => NoAlert(Stream')
  BY Zenon, <1>0, <1>17, <1>19 DEF StreamInv, NoAlert
<1>21. sock = "open" /\ Serving => Ends(Stream', Taken, nrec, read', Len(got'))
  BY SMTT(40), <1>0, <1>5, <1>9, <1>10, <1>17, <1>18, <1>19 DEF StreamInv, Ends
<1>22. sock = "open" /\ pc = "ended" => MayEnd(Stream', Taken, nrec, read', Len(got'))
  BY SMTT(40), <1>0, <1>5, <1>9, <1>10, <1>17, <1>18, <1>19 DEF StreamInv, MayEnd
<1>23. StreamInv'
  BY Zenon, <1>11, <1>14, <1>15, <1>16, <1>20, <1>21, <1>22 DEF StreamInv
<1>24. GotOK'
  BY SMTT(40), <1>8, <1>9, <1>10, <1>11, <1>12 DEF GotOK
<1> QED
  BY <1>8, <1>23, <1>24 DEF PeerOK

(* The record is a close_notify, or ends in one: nothing comes after it. *)
LEMMA PeerEnds ==
  ASSUME SendInv, SendTypeOK', PeerReads, Head(wire).kind = "alert",
         ~(Len(part) + 1 < Append(part, Head(wire))[1].of)
  PROVE  StreamInv' /\ PeerOK' /\ GotOK'
<1> DEFINE m == Len(part)
           c == Head(wire)
           cells == Append(part, c)
           g == Len(got)
<1>0. /\ SendTypeOK /\ BufOK /\ FlagsOK /\ StreamInv /\ PeerOK /\ GotOK
      /\ wire # <<>> /\ wire' = Tail(wire) /\ UNCHANGED <<pc, tlsVars, out, sock, ending>>
  BY SMTT(40) DEF SendInv, PeerReads
<1>1. /\ c \in Cell /\ c = Stream[m + 1] /\ m + 1 \in 1..Len(Stream) /\ m \in Nat
      /\ m = 0 => (c.num = read => c.byte = g)
  BY Zenon, PeerCells
<1>2. /\ part \in Seq(Cell) /\ wire \in Seq(Cell) /\ got \in Seq(Nat) /\ Taken \in Nat
      /\ nrec \in Nat
  BY Zenon, <1>0, TakenNat DEF SendTypeOK
<1>3. /\ cells \in Seq(Cell) /\ Len(cells) = m + 1 /\ cells[m + 1] = c
  BY <1>1, <1>2
<1>4. /\ part' = <<>>
      /\ got' = IF IsRecord(cells) THEN got \o Bytes(cells) ELSE got
      /\ peer' = CASE ~IsRecord(cells) -> "garbled"
                   [] IsRecord(cells) /\ cells[1].kind = "alert" -> "notified"
                   [] OTHER -> "reading"
  BY SMTT(40), <1>3 DEF PeerReads
<1>5. /\ Taken' = Taken /\ nrec' = nrec /\ pc' = pc /\ (Serving' <=> Serving) /\ sock' = sock
  BY SMTT(40), <1>0 DEF Taken, tlsVars, Serving
<1>6. m + 1 = Len(Stream) /\ c.pos = 1 /\ c.byte = Taken
  <2>1. Chain(Stream, Taken, nrec) /\ Stream[m + 1].kind = "alert"
    BY <1>0, <1>1, Zenon DEF StreamInv
  <2>2. /\ Stream \in Seq(Cell) /\ CellOK(Stream[m + 1], Taken, nrec)
        /\ \A i \in 1..Len(Stream) - 1 : Stream[i].kind # "alert"
    BY <1>1, <2>1, Zenon DEF Chain
  <2>3. c.pos = 1 /\ c.byte = Taken
    BY <1>1, <2>1, <2>2, Zenon DEF CellOK
  <2>4. ~(m + 1 \in 1..Len(Stream) - 1)
    BY <2>1, <2>2, Zenon
  <2>5. \A k, n \in Nat : k + 1 \in 1..n /\ ~(k + 1 \in 1..n - 1) => k + 1 = n
    OBVIOUS
  <2>6. m \in Nat /\ Len(Stream) \in Nat
    BY <1>1, <2>2
  <2> QED
    BY <1>1, <2>3, <2>4, <2>5, <2>6, Zenon
<1>7. Stream' = <<>>
  <2>1. Stream' \in Seq(Cell) /\ Len(Stream') + (m + 1) = Len(Stream)
    BY SMTT(40), <1>0, <1>4, StreamShifts
  <2> QED
    BY <1>1, <1>6, <2>1
<1>8. ~Serving /\ pc # "ended"
  <2>1. Stream[Len(Stream)].kind = "alert" /\ Stream # <<>>
    BY <1>1, <1>6, SMTT(40)
  <2> QED
    BY <1>0, <2>1, Zenon DEF StreamInv, NoAlert
<1>9. StreamInv' /\ (PeerOK' <=> (peer' # "reading" => ~Serving /\ pc # "ended"))
  <2>1. Chain(<<>>, Taken, nrec)
    BY DEF Chain
  <2>2. PartOK(part', read', Len(got'))
    BY <1>4 DEF PartOK
  <2> QED
    BY Zenon, <1>5, <1>7, <1>8, <2>1, <2>2 DEF StreamInv, Begins, PeerOK
<1>10. got' = got
  <2>1. CASE m = 0
    <3>1. Bytes(cells) = <<>>
      BY <1>3, <2>1 DEF Bytes
    <3> QED
      BY <1>2, <1>4, <3>1
  <2>2. CASE m # 0
    <3>1. ~IsRecord(cells)
      BY SMTT(40), <1>1, <1>3, <1>6, <2>2 DEF IsRecord
    <3> QED
      BY SMTT(40), <1>4, <3>1
  <2> QED
    BY <2>1, <2>2
<1>11. ASSUME peer' = "notified" PROVE g = Taken
  <2>1. IsRecord(cells)
    BY SMTT(40), <1>4, <1>11
  <2>2. m = 0 /\ c.num = read
    BY SMTT(40), <1>1, <1>3, <1>6, <2>1 DEF IsRecord
  <2> QED
    BY <1>1, <1>6, <2>2
<1>12. wire' = <<>> /\ (pc' = "send" => out' = <<>>)
  <2>1. Len(Stream) = m + Len(wire) + Len(Pending) /\ Pending \in Seq(Cell)
    BY <1>0, StreamParts
  <2>2. Len(wire) = 1 /\ Len(Pending) = 0
    <3>1. Len(wire) \in Nat /\ Len(wire) >= 1 /\ Len(Pending) \in Nat
      BY SMTT(40), <1>0, <1>2, <2>1
    <3>2. m \in Nat /\ m + 1 = m + Len(wire) + Len(Pending)
      BY SMTT(40), <1>1, <1>6, <2>1
    <3>3. \A x, y, z \in Nat : y >= 1 /\ x + 1 = x + y + z => y = 1 /\ z = 0
      OBVIOUS
    <3> HIDE DEF m
    <3> QED
      BY <3>1, <3>2, <3>3, Zenon
  <2>3. wire' = <<>> /\ Pending = <<>>
    BY SMTT(40), <1>0, <1>2, <2>1, <2>2
  <2>4. pc = "send" => sock = "open"
    BY <1>0 DEF FlagsOK, SendTypeOK
  <2> QED
    BY SMTT(40), <1>0, <2>3, <2>4 DEF Pending
<1> QED
  BY SMTT(40), <1>0, <1>5, <1>8, <1>9, <1>10, <1>11, <1>12 DEF GotOK

(* Every step of the worker, the network and the peer keeps the invariant. *)
LEMMA SendStepInv == SendInv /\ [SendNext]_sendVars => SendInv'
<1> SUFFICES ASSUME SendInv, [SendNext]_sendVars PROVE SendInv'
  OBVIOUS
<1>1. SendTypeOK' /\ BufOK' /\ FlagsOK'
  BY SendTypeStep, SendBufStep, SendFlagsStep DEF SendInv
<1>2. CASE ~PeerReads
  BY <1>1, <1>2, StreamStep, PeerKept DEF SendInv
<1>3. CASE PeerReads
  <2>1. CASE Len(part) + 1 < Append(part, Head(wire))[1].of
    <3>1. part \in Seq(Cell) /\ Head(wire) \in Cell
      BY <1>3 DEF SendInv, SendTypeOK, PeerReads
    <3>2. Len(Append(part, Head(wire))) = Len(part) + 1
      BY <3>1
    <3>3. part' = Append(part, Head(wire)) /\ UNCHANGED <<read, got, peer>>
      BY SMTT(40), <1>3, <2>1, <3>2 DEF PeerReads
    <3>4. StreamInv'
      BY <1>3, <2>1, <3>3, PeerCollects
    <3>5. peer = "reading"
      BY <1>3 DEF PeerReads
    <3>6. Taken' = Taken
      BY SMTT(40), <1>3 DEF PeerReads, tlsVars, Taken
    <3> QED
      BY <1>1, <3>3, <3>4, <3>5, <3>6 DEF SendInv, PeerOK, GotOK
  <2>2. CASE ~(Len(part) + 1 < Append(part, Head(wire))[1].of)
    BY <1>1, <1>3, <2>2, PeerDecrypts, PeerEnds DEF SendInv
  <2> QED
    BY SMTT(40), <2>1, <2>2
<1> QED
  BY <1>2, <1>3

(* The inductive invariant holds in every state. *)
LEMMA SendInvariant == SendSpec => []SendInv
<1> QED
  BY SendInitInv, SendStepInv, PTL DEF SendSpec

(* However the loops of write stop, what the peer decrypts is the beginning *)
(* of what the connection loop wrote.                                       *)
THEOREM PeerReadsAPrefix == SendSpec => []PeerReadsPrefix
<1>1. SendInv => PeerReadsPrefix
  <2> SUFFICES ASSUME SendInv PROVE PeerReadsPrefix
    OBVIOUS
  <2>1. total \in Nat /\ Len(buf) \in Nat /\ Len(got) \in Nat /\ Len(got) <= Taken
    BY DEF SendInv, SendTypeOK, GotOK
  <2>2. Len(got) <= total
    BY <2>1 DEF Taken
  <2> QED
    BY <2>2 DEF SendInv, GotOK, PeerReadsPrefix
<1> QED
  BY <1>1, SendInvariant, PTL

(* A peer that sees close_notify has read all the application data that     *)
(* write put into records.                                                  *)
THEOREM NotifyMeansComplete == SendSpec => []NotifiedMeansComplete
<1>1. SendInv => NotifiedMeansComplete
  BY DEF SendInv, GotOK, NotifiedMeansComplete, Taken
<1> QED
  BY <1>1, SendInvariant, PTL

(* A dropped connection was closed or had failed, but for the two ways in   *)
(* which the code leaves the transport open.                                *)
THEOREM ConnectionsEndClosed == SendSpec => []EndsClosed
<1>1. SendInv => EndsClosed
  BY DEF SendInv, FlagsOK, EndsClosed
<1> QED
  BY <1>1, SendInvariant, PTL
-----------------------------------------------------------------------------
(* A set of numbers that is not empty has a least element. *)
LEMMA LeastNumber ==
  ASSUME NEW S \in SUBSET Nat, S # {}
  PROVE  \E x \in S : \A y \in S : x <= y
<1> DEFINE Below == {p \in Nat \X Nat : p[1] < p[2]}
<1>1. IsWellFoundedOn(Below, Nat)
  BY NatLessThanWellFounded, Zenon DEF OpToRel
<1> HIDE DEF Below
<1>2. PICK x \in S : \A y \in S : ~(<<y, x>> \in Below)
  BY <1>1, WFMin, Zenon
<1>3. ASSUME NEW y \in S, y < x PROVE FALSE
  <2>1. <<y, x>> \in Nat \X Nat
    OBVIOUS
  <2>2. <<y, x>>[1] < <<y, x>>[2]
    BY <1>3
  <2>3. <<y, x>> \in Below
    BY <2>1, <2>2, Zenon DEF Below
  <2> QED
    BY <1>2, <2>3
<1> QED
  BY <1>2, <1>3

(* What never decreases from one place to the next never decreases. *)
LEMMA Monotone ==
  ASSUME NEW n \in Nat, NEW f, \A i \in 1..n : f[i] \in Nat,
         \A i \in 1..n - 1 : f[i] <= f[i + 1]
  PROVE  \A i, j \in 1..n : i <= j => f[i] <= f[j]
<1> DEFINE S == {j \in 1..n : \E i \in 1..j : ~(f[i] <= f[j])}
<1>1. SUFFICES ASSUME S # {} PROVE FALSE
  OBVIOUS
<1>2. PICK j \in S : \A k \in S : j <= k
  <2>1. S \in SUBSET Nat
    OBVIOUS
  <2> HIDE DEF S
  <2> QED
    BY <1>1, <2>1, LeastNumber, Zenon
<1>3. PICK i \in 1..j : ~(f[i] <= f[j])
  BY <1>2
<1>4. i # j /\ j \in 1..n
  BY SMTT(40), <1>2, <1>3
<1>5. j - 1 \in 1..n - 1 /\ i \in 1..j - 1 /\ j - 1 \notin S
  BY <1>2, <1>3, <1>4
<1>6. f[i] <= f[j - 1] /\ f[j - 1] <= f[(j - 1) + 1] /\ (j - 1) + 1 = j
  BY SMTT(40), <1>4, <1>5
<1> QED
  BY <1>3, <1>4, <1>5, <1>6

(* A chain without close_notify, from byte g to byte last, carries all the  *)
(* bytes in between.                                                        *)
LEMMA ChainCarries ==
  ASSUME NEW s, NEW g \in Nat, NEW last \in Nat, NEW nr \in Nat, Chain(s, last, nr),
         s # <<>>, NoAlert(s), s[1].pos = 1, s[1].byte = g, NextByte(s[Len(s)]) = last
  PROVE  Carries(s, g, last)
<1> DEFINE n == Len(s)
           f == [i \in 1..n |-> NextByte(s[i])]
<1>1. s \in Seq(Cell) /\ n \in Nat \ {0} /\ DOMAIN s = 1..n
  BY SMTT(40) DEF Chain
<1>2. ASSUME NEW i \in 1..n
      PROVE  /\ s[i].pos \in Nat \ {0} /\ s[i].byte \in Nat /\ f[i] <= last
             /\ f[i] = IF s[i].pos > 1 THEN s[i].byte + 1 ELSE s[i].byte
  <2>1. s[i] \in Cell /\ NextByte(s[i]) <= last
    BY SMTT(40), <1>1 DEF Chain, CellOK
  <2>2. s[i].pos \in Nat \ {0} /\ s[i].byte \in Nat
    BY SMTT(40), <2>1 DEF Cell
  <2> QED
    BY SMTT(40), <2>1, <2>2 DEF NextByte
<1>3. ASSUME NEW i \in 1..n - 1 PROVE s[i + 1].byte = f[i]
  <2>1. s[i + 1].kind # "alert" /\ Link(s[i], s[i + 1])
    BY SMTT(40), <1>1 DEF Chain, NoAlert
  <2> QED
    BY SMTT(40), <2>1 DEF Link, Follows
<1>4. f[1] = g /\ f[n] = last
  BY SMTT(40), <1>1, <1>2
<1> HIDE DEF f, n
<1>5. ASSUME NEW i \in 1..n - 1 PROVE i \in 1..n /\ i + 1 \in 1..n
  BY SMTT(40), <1>1
<1>6. \A i \in 1..n : f[i] \in Nat
  BY SMTT(40), <1>2
<1>7. \A i \in 1..n - 1 : f[i] <= f[i + 1]
  BY SMTT(40), <1>2, <1>3, <1>5
<1>8. \A i, j \in 1..n : i <= j => f[i] <= f[j]
  BY Zenon, <1>1, <1>6, <1>7, Monotone
<1>9. ASSUME NEW i \in 1..n, s[i].pos > 1
      PROVE  /\ i - 1 \in 1..n - 1 /\ s[i].byte = f[i - 1] /\ f[i] = s[i].byte + 1
  <2>1. i # 1
    BY <1>9
  <2>2. i - 1 \in 1..n - 1 /\ (i - 1) + 1 = i
    BY SMTT(40), <1>1, <2>1
  <2> QED
    BY SMTT(40), <1>2, <1>3, <1>9, <2>2
<1>10. ASSUME NEW b \in g..last - 1 PROVE \E i \in 1..n : s[i].pos > 1 /\ s[i].byte = b
  <2> DEFINE S == {i \in 1..n : f[i] > b}
  <2>1. n \in S /\ S \in SUBSET Nat
    BY <1>1, <1>4
  <2>2. PICK i \in S : \A j \in S : i <= j
    <3> HIDE DEF S
    <3> QED
      BY <2>1, LeastNumber, Zenon
  <2>3. i \in 1..n /\ f[i] > b /\ i # 1
    BY SMTT(40), <1>4, <2>2
  <2>4. i - 1 \in 1..n - 1 /\ (i - 1) + 1 = i /\ i - 1 \in 1..n /\ i - 1 \notin S
    BY SMTT(40), <1>1, <2>2, <2>3
  <2>5. ~(f[i - 1] > b) /\ s[i].byte = f[i - 1]
    BY Zenon, <1>3, <2>4
  <2> QED
    BY SMTT(40), <1>2, <1>6, <2>3, <2>4, <2>5
<1>11. ASSUME NEW i \in 1..n, s[i].pos > 1 PROVE s[i].byte \in g..last - 1
  <2>1. /\ i - 1 \in 1..n /\ s[i].byte = f[i - 1] /\ f[i] = s[i].byte + 1 /\ f[i] <= last
    BY Zenon, <1>1, <1>2, <1>5, <1>9, <1>11
  <2>2. f[1] <= f[i - 1]
    BY SMTT(40), <1>1, <1>8, <2>1
  <2> QED
    BY SMTT(40), <1>2, <1>4, <2>1, <2>2
<1>12. ASSUME NEW i \in 1..n, NEW j \in 1..n, s[i].pos > 1, s[j].pos > 1, i < j
       PROVE  s[i].byte < s[j].byte
  <2>1. j - 1 \in 1..n /\ i <= j - 1 /\ s[j].byte = f[j - 1] /\ f[i] = s[i].byte + 1
    BY SMTT(40), <1>1, <1>5, <1>9, <1>12
  <2>2. f[i] <= f[j - 1]
    BY SMTT(40), <1>8, <2>1
  <2>3. s[i].byte + 1 <= s[j].byte
    BY SMTT(40), <2>1, <2>2
  <2>4. s[i].byte \in Nat /\ s[j].byte \in Nat
    BY SMTT(40), <1>2
  <2> QED
    BY SMTT(40), <2>3, <2>4
<1> QED
  BY Zenon, <1>1, <1>10, <1>11, <1>12 DEF Carries, ByteCells

(* When write has returned Ok and the connection is not lost, all bytes are *)
(* in the socket or at the peer, in order and as whole records.             *)
THEOREM OkIsSent == SendSpec => []OkMeansSent
<1>1. SendInv => OkMeansSent
  <2> SUFFICES ASSUME SendInv, pc = "idle", sock = "open"
               PROVE  LET cells == part \o wire
                      IN  /\ peer = "reading" /\ IsRecord(part)
                          /\ Carries(cells, Len(got), total)
                          /\ cells # <<>> => cells[Len(cells)].pos = cells[Len(cells)].of
    BY DEF OkMeansSent
  <2> DEFINE s == part \o wire
             g == Len(got)
  <2>1. /\ SendTypeOK /\ BufOK /\ StreamInv /\ PeerOK /\ Serving /\ buf = <<>>
    BY DEF SendInv, Serving, BufOK
  <2>2. peer = "reading"
    BY <2>1 DEF PeerOK
  <2>3. Stream = s /\ s \in Seq(Cell) /\ g \in Nat /\ nrec \in Nat /\ part \in Seq(Cell)
    BY <2>1 DEF Stream, Pending, SendTypeOK
  <2>4. Taken = total /\ total \in Nat
    <3>1. Len(buf) = 0 /\ total \in Nat
      BY SMTT(40), <2>1 DEF SendTypeOK
    <3> QED
      BY <3>1 DEF Taken
  <2>5. /\ Chain(s, total, nrec) /\ Begins(s, read, g) /\ PartOK(part, read, g)
        /\ NoAlert(s) /\ Ends(s, total, nrec, read, g)
    BY SMTT(40), <2>1, <2>2, <2>3, <2>4 DEF StreamInv
  <2>6. IsRecord(part)
    <3>1. ASSUME NEW i \in 1..Len(part) PROVE part[i].num = read /\ part[i].pos = i
      <4>1. part[i] = s[i] /\ i \in 1..Len(s)
        BY SMTT(40), <2>1, <2>3, StreamParts
      <4>2. part[i].kind # "alert"
        <5>1. i \in 1..Len(s) - 1 \/ (i = Len(s) /\ s # <<>>)
          BY <2>3, <4>1
        <5> QED
          BY <2>5, <4>1, <5>1, Zenon DEF Chain, NoAlert
      <4> QED
        BY Zenon, <2>5, <4>2 DEF PartOK
    <3> QED
      BY SMTT(40), <2>3, <3>1 DEF IsRecord
  <2> HIDE DEF s, g
  <2>7. Carries(s, g, total)
    <3>1. CASE s = <<>>
      <4>1. g = total
        BY SMTT(40), <2>5, <3>1 DEF Ends
      <4> QED
        BY SMTT(40), <2>3, <2>4, <3>1, <4>1 DEF Carries, ByteCells
    <3>2. CASE s # <<>>
      <4>1. s[1].kind # "alert"
        <5>0. Len(s) \in Nat /\ Len(s) # 0
          <6>1. s \in Seq(Cell) /\ s # <<>>
            BY <2>3, <3>2, Zenon
          <6> QED
            BY <6>1
        <5>1. 1 \in 1..Len(s) - 1 \/ 1 = Len(s)
          <6>1. \A n \in Nat : n # 0 => 1 \in 1..n - 1 \/ 1 = n
            OBVIOUS
          <6> QED
            BY <5>0, <6>1, Zenon
        <5> QED
          BY <2>5, <3>2, <5>1, Zenon DEF Chain, NoAlert
      <4>2. s[1].pos = 1 /\ s[1].byte = g /\ NextByte(s[Len(s)]) = total
        BY SMTT(40), <2>5, <3>2, <4>1 DEF Begins, Ends
      <4> QED
        BY Zenon, <2>3, <2>4, <2>5, <3>2, <4>2, ChainCarries
    <3> QED
      BY SMTT(40), <3>1, <3>2
  <2>8. s # <<>> => s[Len(s)].pos = s[Len(s)].of
    BY Zenon, <2>5 DEF Ends
  <2> QED
    BY SMTT(40), <2>2, <2>6, <2>7, <2>8 DEF s, g
<1> QED
  BY <1>1, SendInvariant, PTL
-----------------------------------------------------------------------------
(* Where a worker is at work and waits for nothing but room in the socket. *)
Busy == {"write", "send", "ended", "done"}

(* A bound for the steps that are left until a busy worker is back in its   *)
(* loop or handshake, or free.                                              *)
WorkLeft ==
  IF pc = "write" THEN 5 + 4 * Len(buf)
  ELSE IF pc = "send" /\ kind = "data" THEN 6 + 4 * Len(buf) + Len(out)
  ELSE IF pc = "send" /\ kind = "handshake" THEN 5 + Len(out)
  ELSE IF pc = "ended" THEN 4
  ELSE IF pc = "send" THEN 2 + Len(out)
  ELSE IF pc = "done" THEN 1 ELSE 0

(* What the worker works on. *)
workVars == <<pc, kind, buf, out>>

(* A step of a busy worker. *)
Shrinks ==
  pc \in Busy /\ workVars' # workVars =>
    pc' \in {"idle", "accept", "dropped"} \/ WorkLeft' < WorkLeft

(* One chunk and its header are less work than their bytes were. *)
LEMMA ChunkIsLess ==
  ASSUME SendTypeOK, BufOK, WriteRecord
  PROVE  WorkLeft' < WorkLeft
<1>1. /\ pc = "write" /\ pc' = "send" /\ kind' = "data" /\ buf # <<>> /\ buf \in Seq(Nat)
      /\ buf' = SubSeq(buf, Chunk + 1, Len(buf))
      /\ out' = Record("data", SubSeq(buf, 1, Chunk))
  BY Zenon DEF WriteRecord, Goto, Emit, SendTypeOK
<1>2. Len(buf) \in Nat /\ Len(buf) > 0
  BY <1>1
<1>3. Chunk \in 1..Len(buf)
  BY ChunkTaken
<1>4. Len(SubSeq(buf, 1, Chunk)) = Chunk /\ Len(buf') = Len(buf) - Chunk
  BY ChunkTaken
<1>5. Len(out') = Chunk + 1
  <2>1. \A r, n : n \in Nat /\ r = [i \in 1..n |-> r[i]] => Len(r) = n
    OBVIOUS
  <2>2. out' = [i \in 1..Chunk + 1 |-> out'[i]]
    BY Zenon, <1>1, <1>4 DEF Record
  <2>3. Chunk + 1 \in Nat
    BY <1>2, <1>3
  <2> QED
    BY Zenon, <2>1, <2>2, <2>3
<1>6. WorkLeft = 5 + 4 * Len(buf) /\ WorkLeft' = 6 + 4 * Len(buf') + Len(out')
  BY Zenon, <1>1 DEF WorkLeft
<1> QED
  BY <1>2, <1>3, <1>4, <1>5, <1>6

(* Every step of a busy worker leaves less work. *)
LEMMA ShrinkStep ==
  ASSUME SendTypeOK, BufOK, FlagsOK, [SendNext]_sendVars
  PROVE  Shrinks
<1>0. /\ Len(buf) \in Nat /\ Len(out) \in Nat /\ Len(<<>>) = 0
      /\ pc = "send" => kind \in {"handshake", "data", "alert"}
  BY DEF SendTypeOK, FlagsOK
<1>1. CASE workVars' = workVars \/ pc \notin Busy
                \/ pc' \in {"idle", "accept", "dropped"}
  BY Zenon, <1>1 DEF Shrinks
<1>2. CASE WriteRecord
  BY Zenon, <1>2, ChunkIsLess DEF Shrinks
<1>3. CASE WriteFails
  <2>1. pc = "write" /\ pc' = "ended"
    BY Zenon, <1>3 DEF WriteFails, Goto
  <2>2. WorkLeft = 5 + 4 * Len(buf) /\ WorkLeft' = 4
    BY <2>1 DEF WorkLeft
  <2>3. WorkLeft' < WorkLeft
    BY <1>0, <2>2
  <2> QED
    BY Zenon, <2>3 DEF Shrinks
<1>4. ASSUME NEW n \in 1..SendBuf, SocketWrite(n) PROVE Shrinks
  <2>1. /\ pc = "send" /\ pc' = pc /\ kind' = kind /\ buf' = buf /\ n <= Len(out)
        /\ out' = SubSeq(out, n + 1, Len(out)) /\ out \in Seq(Cell)
    BY Zenon, <1>4 DEF SocketWrite, tlsVars, SendTypeOK
  <2>2. Len(out') = Len(out) - n
    BY <1>0, <2>1, SendConstantsOK
  <2>3. CASE kind = "data"
    <3>1. /\ WorkLeft = 6 + 4 * Len(buf) + Len(out)
          /\ WorkLeft' = 6 + 4 * Len(buf) + Len(out')
      BY Zenon, <2>1, <2>3 DEF WorkLeft
    <3>2. WorkLeft' < WorkLeft
      BY <1>0, <2>2, <3>1, SendConstantsOK
    <3> QED
      BY Zenon, <3>2 DEF Shrinks
  <2>4. CASE kind = "handshake"
    <3>1. WorkLeft = 5 + Len(out) /\ WorkLeft' = 5 + Len(out')
      BY Zenon, <2>1, <2>4 DEF WorkLeft
    <3>2. WorkLeft' < WorkLeft
      BY <1>0, <2>2, <3>1, SendConstantsOK
    <3> QED
      BY Zenon, <3>2 DEF Shrinks
  <2>5. CASE kind = "alert"
    <3>1. WorkLeft = 2 + Len(out) /\ WorkLeft' = 2 + Len(out')
      BY Zenon, <2>1, <2>5 DEF WorkLeft
    <3>2. WorkLeft' < WorkLeft
      BY <1>0, <2>2, <3>1, SendConstantsOK
    <3> QED
      BY Zenon, <3>2 DEF Shrinks
  <2> QED
    BY Zenon, <1>0, <2>1, <2>3, <2>4, <2>5
<1>5. CASE SocketFails \/ RecordSent
  <2>1. /\ pc = "send" /\ buf' = buf /\ kind' = kind
        /\ kind = "alert" => pc' = "done"
        /\ kind = "data" => pc' \in {"ended", "write"}
        /\ kind = "handshake" => pc' \in {"ended", "accept"}
    BY Zenon, <1>5 DEF SocketFails, RecordSent, tlsVars
  <2>2. CASE kind = "alert"
    <3>1. WorkLeft = 2 + Len(out) /\ WorkLeft' = 1
      BY <2>1, <2>2 DEF WorkLeft
    <3>2. WorkLeft' < WorkLeft
      BY <1>0, <3>1
    <3> QED
      BY Zenon, <3>2 DEF Shrinks
  <2>3. CASE kind = "data"
    <3>1. /\ WorkLeft = 6 + 4 * Len(buf) + Len(out)
          /\ WorkLeft' = 4 \/ WorkLeft' = 5 + 4 * Len(buf)
      BY <2>1, <2>3 DEF WorkLeft
    <3>2. WorkLeft' < WorkLeft
      BY <1>0, <3>1
    <3> QED
      BY Zenon, <3>2 DEF Shrinks
  <2>4. CASE kind = "handshake" /\ pc' = "ended"
    <3>1. WorkLeft = 5 + Len(out) /\ WorkLeft' = 4
      BY <2>1, <2>4 DEF WorkLeft
    <3>2. WorkLeft' < WorkLeft
      BY <1>0, <3>1
    <3> QED
      BY Zenon, <3>2 DEF Shrinks
  <2> QED
    BY Zenon, <1>0, <1>1, <2>1, <2>2, <2>3, <2>4
<1>6. CASE Close
  <2>1. /\ pc = "ended"
        /\ \/ pc' = "done"
           \/ pc' = "send" /\ kind' = "alert" /\ out' = Record("alert", <<>>)
    BY Zenon, <1>6 DEF Close, Emit
  <2>2. WorkLeft = 4
    BY <2>1 DEF WorkLeft
  <2>3. CASE pc' = "done"
    <3>1. WorkLeft' = 1
      BY <2>3 DEF WorkLeft
    <3>2. WorkLeft' < WorkLeft
      BY <2>2, <3>1
    <3> QED
      BY Zenon, <3>2 DEF Shrinks
  <2>4. CASE pc' = "send" /\ kind' = "alert" /\ out' = Record("alert", <<>>)
    <3>1. Len(out') = 1
      BY <2>4 DEF Record
    <3>2. WorkLeft' = 2 + Len(out')
      BY <2>4 DEF WorkLeft
    <3>3. WorkLeft' < WorkLeft
      BY <2>2, <3>1, <3>2
    <3> QED
      BY Zenon, <3>3 DEF Shrinks
  <2> QED
    BY Zenon, <2>1, <2>3, <2>4
<1>7. CASE Reset \/ Timeout \/ PeerReads \/ UNCHANGED sendVars
  BY Zenon, <1>1, <1>7 DEF Reset, Timeout, PeerReads, sendVars, tlsVars, workVars
<1>8. CASE \/ AcceptWrite \/ AcceptDone \/ AcceptFails \/ WriteDone \/ DropSocket \/ Loop
  BY Zenon, <1>1, <1>8
     DEF AcceptWrite, AcceptDone, AcceptFails, WriteDone, DropSocket, Loop, Frame,
         ReadAlert, LoopEnds, LoopReturns, Goto, Busy
<1> QED
  BY Zenon, <1>2, <1>3, <1>4, <1>5, <1>6, <1>7, <1>8 DEF SendNext, Worker, Writes

(* A busy worker cannot go on for ever: whatever the socket takes at a time *)
(* and wherever a loop fails, each of its steps leaves less work, until it  *)
(* is back in its loop or handshake or free for another connection.  That   *)
(* such a step comes at all is the executor's and the socket's part.        *)
THEOREM WorkEnds == SendSpec => [](WorkLeft \in Nat) /\ [][Shrinks]_sendVars
<1>1. SendInv => WorkLeft \in Nat
  <2> SUFFICES ASSUME SendInv PROVE WorkLeft \in Nat
    OBVIOUS
  <2>1. Len(buf) \in Nat /\ Len(out) \in Nat
    BY DEF SendInv, SendTypeOK
  <2> QED
    BY <2>1 DEF WorkLeft
<1>2. SendInv /\ [SendNext]_sendVars => [Shrinks]_sendVars
  BY Zenon, ShrinkStep DEF SendInv
<1> QED
  BY <1>1, <1>2, SendInvariant, PTL DEF SendSpec
=============================================================================
