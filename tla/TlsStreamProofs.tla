-------------------------- MODULE TlsStreamProofs ---------------------------
(***************************************************************************)
(* Proofs about TlsStream.  What arrives is one sequence of pieces in      *)
(* which heads and bodies alternate, and whose bytes are numbered without  *)
(* a gap up to the last byte that was sent; the reader holds smaller       *)
(* bytes, and while no read is cut it holds all of them.                   *)
(***************************************************************************)
EXTENDS TlsStream, TLAPS

(* What the peer sent and the reader has not taken. *)
Arriving == wire \o tail

(* The first byte of the packet that is read now, if none was lost. *)
Base == Len(delivered) * PacketLen

Live == phase \in {"hello1", "hello2", "finished", "open"}

(* Only the body of a data record carries bytes. *)
PieceOK(p) == p.part = "head" \/ p.kind # "data" => p.data = <<>>

(* A body comes after its head, and a head after a body. *)
Joined(c, d) ==
  /\ c.part = "head" => d.part = "body" /\ d.n = c.n /\ d.kind = c.kind
  /\ c.part = "body" => d.part = "head"

Framed(w) ==
  /\ \A i \in 1..Len(w) : PieceOK(w[i])
  /\ \A i \in 1..Len(w) - 1 : Joined(w[i], w[i + 1])
  /\ w # <<>> => w[Len(w)].part = "body"

(* The reader stands between two records, or between a head and its body. *)
InStep(r, w) ==
  IF Len(r) = 1 THEN w # <<>> /\ r[1].part = "head" /\ Joined(r[1], w[1])
                ELSE w # <<>> => w[1].part = "head"

FrameInv ==
  /\ Framed(Arriving)
  /\ ~cut => InStep(record, Arriving) /\ (Len(record) = 2 => Whole(record))

(* s is first, first + 1, ... *)
Counts(s, first) == \A k \in 1..Len(s) : s[k] = first + k - 1

(* off[i] is the number of the first byte that is not before w[i]. *)
Numbered(w, off, last) ==
  /\ off \in [1..Len(w) + 1 -> Nat] /\ off[Len(w) + 1] = last
  /\ \A i \in 1..Len(w) : off[i + 1] = off[i] + Len(w[i].data) /\ Counts(w[i].data, off[i])

Increasing(s) == \A k, l \in 1..Len(s) : k < l => s[k] < s[l]

Below(s, t) == \A k \in 1..Len(s), l \in 1..Len(t) : s[k] < t[l]

Under(s, top) == \A k \in 1..Len(s) : s[k] < top

(* Packets dl, then the bytes pk and pl, all increasing and less than top. *)
Ordered(dl, pk, pl, top) ==
  /\ \A i \in 1..Len(dl) :
       Increasing(dl[i]) /\ Below(dl[i], pk) /\ Below(dl[i], pl) /\ Under(dl[i], top)
  /\ \A i, j \in 1..Len(dl) : i < j => Below(dl[i], dl[j])
  /\ Increasing(pk) /\ Increasing(pl) /\ Below(pk, pl)
  /\ Under(pk, top) /\ Under(pl, top)

(* What the reader holds are the first bytes that the peer sent. *)
Intact(first) ==
  /\ \A i \in 1..Len(delivered) : delivered[i] = PacketAt(i)
  /\ Live => /\ Counts(pkt, Base) /\ Counts(plain, Base + Len(pkt))
             /\ first = Base + Len(pkt) + Len(plain)

ByteInv(off) ==
  /\ Numbered(Arriving, off, sent)
  /\ Ordered(delivered, pkt, plain, off[1])
  /\ ~cut => Intact(off[1])

StreamInv == StreamTypeOK /\ FrameInv /\ EofIsReal /\ \E off : ByteInv(off)
-----------------------------------------------------------------------------
(* Sequences of numbers. *)

(* An increasing sequence of numbers below it, then another one. *)
LEMMA JoinIncreasing ==
  ASSUME NEW s \in Seq(Nat), NEW t \in Seq(Nat), Increasing(s), Increasing(t), Below(s, t)
  PROVE  Increasing(s \o t)
<1>1. \A k \in 1..Len(s \o t) :
        (s \o t)[k] = IF k <= Len(s) THEN s[k] ELSE t[k - Len(s)]
  OBVIOUS
<1>2. Len(s \o t) = Len(s) + Len(t) /\ Len(s) \in Nat /\ Len(t) \in Nat
  OBVIOUS
<1>3. ASSUME NEW k \in 1..Len(s \o t), NEW l \in 1..Len(s \o t), k < l
      PROVE  (s \o t)[k] < (s \o t)[l]
  <2>1. CASE l <= Len(s)
    BY <1>1, <1>2, <1>3, <2>1 DEF Increasing
  <2>2. CASE k <= Len(s) /\ ~(l <= Len(s))
    <3>1. k \in 1..Len(s) /\ l - Len(s) \in 1..Len(t)
      BY <1>2, <2>2
    <3> QED
      BY <1>1, <2>2, <3>1 DEF Below
  <2>3. CASE ~(k <= Len(s))
    <3>1. /\ k - Len(s) \in 1..Len(t) /\ l - Len(s) \in 1..Len(t)
          /\ k - Len(s) < l - Len(s) /\ ~(l <= Len(s))
      BY <1>2, <1>3, <2>3
    <3> QED
      BY Zenon, <1>1, <2>3, <3>1 DEF Increasing
  <2> QED
    BY <1>3, <2>1, <2>2, <2>3
<1> QED
  BY <1>3 DEF Increasing

(* The two parts of a sequence cut after w. *)
LEMMA Cuts ==
  ASSUME NEW s \in Seq(Nat), NEW w \in 0..Len(s)
  PROVE  LET a == SubSeq(s, 1, w)
             b == SubSeq(s, w + 1, Len(s))
         IN  /\ a \in Seq(Nat) /\ Len(a) = w /\ \A k \in 1..w : a[k] = s[k]
             /\ b \in Seq(Nat) /\ Len(b) = Len(s) - w
             /\ \A k \in 1..Len(s) - w : b[k] = s[w + k]
<1> DEFINE a == SubSeq(s, 1, w)
           b == SubSeq(s, w + 1, Len(s))
<1>1. a \in Seq(Nat) /\ Len(a) = w
  OBVIOUS
<1>2. \A k \in 1..w : a[k] = s[k]
  OBVIOUS
<1>3. b \in Seq(Nat) /\ Len(b) = Len(s) - w
  OBVIOUS
<1>4. \A k \in 1..Len(s) - w : b[k] = s[w + k]
  OBVIOUS
<1> QED
  BY <1>1, <1>2, <1>3, <1>4, Zenon

(* They are increasing, and what was below the sequence is below them. *)
LEMMA CutsOrdered ==
  ASSUME NEW s \in Seq(Nat), NEW w \in 0..Len(s), Increasing(s)
  PROVE  LET a == SubSeq(s, 1, w)
             b == SubSeq(s, w + 1, Len(s))
         IN  Increasing(a) /\ Increasing(b) /\ Below(a, b)
<1> DEFINE a == SubSeq(s, 1, w)
           b == SubSeq(s, w + 1, Len(s))
<1>1. /\ a \in Seq(Nat) /\ Len(a) = w /\ \A k \in 1..w : a[k] = s[k]
      /\ b \in Seq(Nat) /\ Len(b) = Len(s) - w
      /\ \A k \in 1..Len(s) - w : b[k] = s[w + k]
  BY Cuts
<1> HIDE DEF a, b
<1>0. Len(a) = w /\ Len(b) = Len(s) - w /\ Len(s) \in Nat
  BY <1>1
<1>2. Increasing(a)
  <2> SUFFICES ASSUME NEW k \in 1..Len(a), NEW l \in 1..Len(a), k < l PROVE a[k] < a[l]
    BY DEF Increasing
  <2>1. k \in 1..Len(s) /\ l \in 1..Len(s)
    BY <1>0
  <2> QED
    BY <1>1, <2>1 DEF Increasing
<1>3. Increasing(b)
  <2> SUFFICES ASSUME NEW k \in 1..Len(b), NEW l \in 1..Len(b), k < l PROVE b[k] < b[l]
    BY DEF Increasing
  <2>1. w + k \in 1..Len(s) /\ w + l \in 1..Len(s) /\ w + k < w + l
    BY <1>0
  <2> QED
    BY Zenon, <1>1, <2>1 DEF Increasing
<1>4. Below(a, b)
  <2> SUFFICES ASSUME NEW k \in 1..Len(a), NEW l \in 1..Len(b) PROVE a[k] < b[l]
    BY DEF Below
  <2>1. k \in 1..Len(s) /\ w + l \in 1..Len(s) /\ k < w + l
    BY <1>0
  <2> QED
    BY Zenon, <1>1, <2>1 DEF Increasing
<1> QED
  BY <1>2, <1>3, <1>4 DEF a, b

(* What is below a sequence is below its parts, and a bound bounds them. *)
LEMMA CutsBounded ==
  ASSUME NEW s \in Seq(Nat), NEW w \in 0..Len(s)
  PROVE  LET a == SubSeq(s, 1, w)
             b == SubSeq(s, w + 1, Len(s))
         IN  /\ \A r : Below(r, s) => Below(r, a) /\ Below(r, b)
             /\ \A top : Under(s, top) => Under(a, top) /\ Under(b, top)
<1> DEFINE a == SubSeq(s, 1, w)
           b == SubSeq(s, w + 1, Len(s))
<1>1. /\ a \in Seq(Nat) /\ Len(a) = w /\ \A k \in 1..w : a[k] = s[k]
      /\ b \in Seq(Nat) /\ Len(b) = Len(s) - w
      /\ \A k \in 1..Len(s) - w : b[k] = s[w + k]
  BY Cuts
<1> HIDE DEF a, b
<1>2. /\ \A k \in 1..Len(a) : \E j \in 1..Len(s) : a[k] = s[j]
      /\ \A k \in 1..Len(b) : \E j \in 1..Len(s) : b[k] = s[j]
  <2>1. ASSUME NEW k \in 1..Len(b) PROVE \E j \in 1..Len(s) : b[k] = s[j]
    <3>1. w + k \in 1..Len(s) /\ k \in 1..Len(s) - w
      BY <1>1
    <3> QED
      BY Zenon, <1>1, <3>1
  <2>2. ASSUME NEW k \in 1..Len(a) PROVE \E j \in 1..Len(s) : a[k] = s[j]
    <3>1. k \in 1..Len(s) /\ k \in 1..w
      BY <1>1
    <3> QED
      BY <1>1, <3>1
  <2> QED
    BY <2>1, <2>2
<1>3. \A r : Below(r, s) => Below(r, a) /\ Below(r, b)
  BY <1>2, Zenon DEF Below
<1>4. \A top : Under(s, top) => Under(a, top) /\ Under(b, top)
  BY <1>2, Zenon DEF Under
<1> QED
  BY <1>3, <1>4 DEF a, b

(* Bounds of two sequences bound them joined. *)
LEMMA JoinBounded ==
  ASSUME NEW s \in Seq(Nat), NEW t \in Seq(Nat)
  PROVE  /\ \A r : Below(r, s) /\ Below(r, t) => Below(r, s \o t)
         /\ \A r : Below(s, r) /\ Below(t, r) => Below(s \o t, r)
         /\ \A top : Under(s, top) /\ Under(t, top) => Under(s \o t, top)
<1> DEFINE u == s \o t
<1>1. \A k \in 1..Len(u) :
         \/ \E j \in 1..Len(s) : u[k] = s[j]
         \/ \E j \in 1..Len(t) : u[k] = t[j]
  <2> SUFFICES ASSUME NEW k \in 1..Len(u)
               PROVE  \/ \E j \in 1..Len(s) : u[k] = s[j]
                      \/ \E j \in 1..Len(t) : u[k] = t[j]
    BY Zenon
  <2>1. CASE k <= Len(s)
    BY <2>1
  <2>2. CASE ~(k <= Len(s))
    <3>1. k - Len(s) \in 1..Len(t)
      BY <2>2
    <3>2. u[k] = t[k - Len(s)]
      BY <2>2
    <3> QED
      BY <3>1, <3>2
  <2> QED
    BY <2>1, <2>2
<1> HIDE DEF u
<1>2. \A r : Below(r, s) /\ Below(r, t) => Below(r, u)
  BY <1>1, Zenon DEF Below
<1>3. \A r : Below(s, r) /\ Below(t, r) => Below(u, r)
  BY <1>1, Zenon DEF Below
<1>4. \A top : Under(s, top) /\ Under(t, top) => Under(u, top)
  BY <1>1, Zenon DEF Under
<1> QED
  BY <1>2, <1>3, <1>4 DEF u

(* Copy moves bytes from plain_buf to frame_buf, or makes them a packet. *)
LEMMA CopyOrdered ==
  ASSUME NEW dl \in Seq(Seq(Nat)), NEW pk \in Seq(Nat), NEW pl \in Seq(Nat),
         NEW w \in 0..Len(pl), NEW top, Ordered(dl, pk, pl, top)
  PROVE  LET p == pk \o SubSeq(pl, 1, w)
             q == SubSeq(pl, w + 1, Len(pl))
         IN  Ordered(dl, p, q, top) /\ Ordered(Append(dl, p), <<>>, q, top)
<1> DEFINE a == SubSeq(pl, 1, w)
           p == pk \o a
           q == SubSeq(pl, w + 1, Len(pl))
<1>1. a \in Seq(Nat) /\ q \in Seq(Nat) /\ p \in Seq(Nat)
  BY Cuts
<1>2. /\ \A i \in 1..Len(dl) :
           Increasing(dl[i]) /\ Below(dl[i], pk) /\ Below(dl[i], pl) /\ Under(dl[i], top)
      /\ \A i, j \in 1..Len(dl) : i < j => Below(dl[i], dl[j])
      /\ Increasing(pk) /\ Increasing(pl) /\ Below(pk, pl)
      /\ Under(pk, top) /\ Under(pl, top)
  BY DEF Ordered
<1>3. Increasing(a) /\ Increasing(q) /\ Below(a, q)
  BY <1>2, CutsOrdered
<1>4. /\ \A r : Below(r, pl) => Below(r, a) /\ Below(r, q)
      /\ \A t : Under(pl, t) => Under(a, t) /\ Under(q, t)
  BY CutsBounded
<1> HIDE DEF a, q
<1>5. Increasing(p)
  BY <1>1, <1>2, <1>3, <1>4, JoinIncreasing
<1>6. /\ \A r : Below(r, pk) /\ Below(r, a) => Below(r, p)
      /\ \A r : Below(pk, r) /\ Below(a, r) => Below(p, r)
      /\ \A t : Under(pk, t) /\ Under(a, t) => Under(p, t)
  BY <1>1, JoinBounded
<1> HIDE DEF p
<1>7. Below(p, q) /\ Under(p, top) /\ Under(q, top)
  BY <1>2, <1>3, <1>4, <1>6, Zenon
<1>8. \A i \in 1..Len(dl) : Below(dl[i], p) /\ Below(dl[i], q)
  BY <1>2, <1>4, <1>6, Zenon
<1>9. Ordered(dl, p, q, top)
  BY <1>2, <1>3, <1>5, <1>7, <1>8, Zenon DEF Ordered
<1>10. Ordered(Append(dl, p), <<>>, q, top)
  <2> DEFINE d == Append(dl, p)
  <2>1. /\ Len(d) = Len(dl) + 1 /\ d[Len(dl) + 1] = p /\ Len(dl) \in Nat
        /\ \A i \in 1..Len(dl) : d[i] = dl[i]
    BY <1>1
  <2> HIDE DEF d
  <2>2. \A i \in 1..Len(d) : i \in 1..Len(dl) \/ i = Len(dl) + 1
    BY <2>1
  <2>3. ASSUME NEW i \in 1..Len(d), NEW j \in 1..Len(d), i < j PROVE Below(d[i], d[j])
    <3>1. i \in 1..Len(dl)
      BY <2>1, <2>3
    <3>2. CASE j \in 1..Len(dl)
      BY <1>2, <2>1, <2>3, <3>1, <3>2
    <3>3. CASE j = Len(dl) + 1
      BY <1>8, <2>1, <3>1, <3>3
    <3> QED
      BY <2>2, <3>2, <3>3
  <2>4. \A r : Below(r, <<>>)
    BY DEF Below
  <2>5. Increasing(<<>>) /\ Below(<<>>, q) /\ Under(<<>>, top)
    BY DEF Increasing, Below, Under
  <2>6. ASSUME NEW i \in 1..Len(d)
        PROVE  Increasing(d[i]) /\ Below(d[i], q) /\ Under(d[i], top)
    <3>1. CASE i \in 1..Len(dl)
      BY <1>2, <1>8, <2>1, <3>1
    <3>2. CASE i = Len(dl) + 1
      BY <1>5, <1>7, <2>1, <3>2
    <3> QED
      BY <2>2, <3>1, <3>2
  <2>7. Ordered(d, <<>>, q, top)
    BY <1>3, <1>7, <2>3, <2>4, <2>5, <2>6, Zenon DEF Ordered
  <2> QED
    BY <2>7 DEF d
<1> QED
  BY <1>9, <1>10 DEF p, q, a

(* A record's bytes, which are not less than top, are put in plain_buf. *)
LEMMA RefillOrdered ==
  ASSUME NEW dl \in Seq(Seq(Nat)), NEW pk \in Seq(Nat), NEW pl \in Seq(Nat),
         NEW top \in Nat, Counts(pl, top), Ordered(dl, pk, <<>>, top)
  PROVE  Ordered(dl, pk, pl, top + Len(pl))
<1>1. Increasing(pl) /\ Under(pl, top + Len(pl))
  BY SMTT(40) DEF Increasing, Counts, Under
<1>2. ASSUME NEW r \in Seq(Nat), Under(r, top) PROVE Below(r, pl) /\ Under(r, top + Len(pl))
  <2>1. \A k \in 1..Len(r) : r[k] \in Nat /\ r[k] < top
    BY <1>2 DEF Under
  <2>2. \A l \in 1..Len(pl) : pl[l] \in Nat /\ pl[l] >= top
    BY SMTT(40) DEF Counts
  <2>3. \A k \in 1..Len(r), l \in 1..Len(pl) : r[k] < pl[l]
    BY SMTT(40), <2>1, <2>2
  <2>4. \A k \in 1..Len(r) : r[k] < top + Len(pl)
    BY <2>1
  <2> QED
    BY <2>3, <2>4, Zenon DEF Below, Under
<1>3. \A i \in 1..Len(dl) : dl[i] \in Seq(Nat)
  OBVIOUS
<1> QED
  BY <1>1, <1>2, <1>3, Zenon DEF Ordered

(* frame_buf is dropped. *)
LEMMA DropOrdered ==
  ASSUME NEW dl, NEW pk, NEW pl, NEW top, Ordered(dl, pk, pl, top)
  PROVE  Ordered(dl, <<>>, pl, top)
<1>1. Increasing(<<>>) /\ Below(<<>>, pl) /\ Under(<<>>, top) /\ \A r : Below(r, <<>>)
  BY DEF Increasing, Below, Under
<1> QED
  BY <1>1, Zenon DEF Ordered
-----------------------------------------------------------------------------
(* The types. *)

(* Every step of the reader or of the peer. *)
LEMMA StreamCases ==
  ASSUME [StreamNext]_streamVars
  PROVE  \/ FetchHeader \/ EndOfStream \/ Copy
         \/ \E type \in Types : HelloRecord(type)
         \/ \E type \in Types : FinishedRecord(type)
         \/ \E type \in Types : DataRecord(type)
         \/ \E kind \in Kinds, k \in Payloads \cup {0} : SendHeader(kind, k)
         \/ SendBody \/ PeerCloses \/ ConnectTimeout \/ WakeUp \/ Misread \/ UNCHANGED streamVars
  BY Zenon DEF StreamNext, Reader, Peer

(* Copy takes no more than there is and no more than the packet needs. *)
LEMMA WantedOK ==
  ASSUME StreamTypeOK
  PROVE  Wanted \in 0..Len(plain) /\ Len(pkt) + Wanted <= PacketLen
  BY SMTT(40), StreamConstantsOK DEF StreamTypeOK, Wanted

(* The pieces that SendHeader makes. *)
LEMMA SentPieces ==
  ASSUME StreamTypeOK, NEW kind \in Kinds, NEW k \in Payloads \cup {0}
  PROVE  LET data == [i \in 1..k |-> sent + i - 1]
         IN  /\ k \in Nat /\ data \in Seq(Nat) /\ Len(data) = k
             /\ Piece("head", kind, nrec, enc, <<>>) \in Pieces
             /\ Piece("body", kind, nrec, enc, data) \in Pieces
<1> DEFINE data == [i \in 1..k |-> sent + i - 1]
<1>1. k \in Nat /\ sent \in Nat /\ nrec \in Nat /\ enc \in Nat
  BY StreamConstantsOK DEF StreamTypeOK
<1>2. \A i \in 1..k : sent + i - 1 \in Nat
  BY <1>1
<1>3. data \in Seq(Nat) /\ Len(data) = k
  BY <1>1, <1>2
<1>4. <<>> \in Seq(Nat)
  OBVIOUS
<1> HIDE DEF data
<1>5. /\ Piece("head", kind, nrec, enc, <<>>) \in Pieces
      /\ Piece("body", kind, nrec, enc, data) \in Pieces
  BY <1>1, <1>3, <1>4 DEF Piece, Pieces
<1> QED
  BY <1>1, <1>3, <1>5 DEF data

(* One element, then another. *)
LEMMA AppendSecond ==
  ASSUME NEW S, NEW r \in Seq(S), Len(r) = 1, NEW x \in S
  PROVE  /\ Append(r, x) \in Seq(S) /\ Len(Append(r, x)) = 2
         /\ Append(r, x)[1] = r[1] /\ Append(r, x)[2] = x
<1>1. Append(r, x) \in Seq(S) /\ Len(Append(r, x)) = Len(r) + 1
  BY SMTT(40)
<1>2. ASSUME NEW q \in Seq(S)
      PROVE  Append(q, x)[Len(q) + 1] = x /\ \A i \in 1..Len(q) : Append(q, x)[i] = q[i]
  OBVIOUS
<1>3. 1 \in 1..Len(r) /\ Len(r) + 1 = 2
  OBVIOUS
<1> QED
  BY <1>1, <1>2, <1>3

(* The next record is in record_buf. *)
LEMMA FetchedTypes ==
  ASSUME StreamTypeOK, NEW type \in Types, Fetched(type)
  PROVE  /\ wire' \in Seq(Pieces) /\ record' \in Seq(Pieces) /\ Len(record') = 2
         /\ record'[1] = record[1] /\ record'[2] = Head(wire)
         /\ record'[2].data \in Seq(Nat)
<1>1. wire \in Seq(Pieces) /\ record \in Seq(Pieces)
  BY DEF StreamTypeOK
<1>2. /\ Len(record) = 1 /\ wire # <<>> /\ record' = Append(record, Head(wire))
      /\ wire' = Tail(wire)
  BY DEF Fetched
<1>3. Head(wire) \in Pieces
  BY <1>1, <1>2
<1>4. Head(wire).data \in Seq(Nat)
  BY <1>3 DEF Pieces
<1>5. wire' \in Seq(Pieces)
  BY <1>1, <1>2
<1>6. ASSUME NEW x, x = Head(wire)
      PROVE  /\ Append(record, x) \in Seq(Pieces) /\ Len(Append(record, x)) = 2
             /\ Append(record, x)[1] = record[1] /\ Append(record, x)[2] = x
  BY <1>1, <1>2, <1>3, <1>6, AppendSecond
<1>7. /\ record' \in Seq(Pieces) /\ Len(record') = 2
      /\ record'[1] = record[1] /\ record'[2] = Head(wire)
  BY <1>2, <1>6
<1> QED
  BY <1>4, <1>5, <1>7

(* Every step keeps the types. *)
LEMMA StreamTypeStep == StreamTypeOK /\ [StreamNext]_streamVars => StreamTypeOK'
<1> SUFFICES ASSUME StreamTypeOK, [StreamNext]_streamVars PROVE StreamTypeOK'
  OBVIOUS
<1> USE DEF readVars, peerVars
<1>1. CASE FetchHeader
  <2>1. wire' \in Seq(Pieces) /\ record' \in Seq(Pieces) /\ Len(record') = 1
    BY <1>1 DEF FetchHeader, StreamTypeOK
  <2> QED
    BY <1>1, <2>1 DEF FetchHeader, StreamTypeOK
<1>2. CASE EndOfStream
  BY <1>2 DEF EndOfStream, StreamTypeOK
<1>3. CASE Copy
  <2>1. /\ plain' \in Seq(Nat)
        /\ pkt \o SubSeq(plain, 1, Wanted) \in Seq(Nat)
        /\ Len(pkt \o SubSeq(plain, 1, Wanted)) = Len(pkt) + Wanted
    <3>1. plain \in Seq(Nat) /\ pkt \in Seq(Nat) /\ Wanted \in 0..Len(plain)
      BY WantedOK DEF StreamTypeOK
    <3>2. /\ SubSeq(plain, 1, Wanted) \in Seq(Nat) /\ Len(SubSeq(plain, 1, Wanted)) = Wanted
          /\ SubSeq(plain, Wanted + 1, Len(plain)) \in Seq(Nat)
      BY <3>1, Cuts
    <3> QED
      BY <1>3, <3>1, <3>2 DEF Copy
  <2> DEFINE p == pkt \o SubSeq(plain, 1, Wanted)
  <2>2. \/ pkt' = <<>> /\ delivered' = Append(delivered, p)
        \/ pkt' = p /\ Len(p) # PacketLen /\ delivered' = delivered
    BY Zenon, <1>3 DEF Copy
  <2>0. p \in Seq(Nat) /\ Len(p) = Len(pkt) + Wanted
    BY <2>1
  <2> HIDE DEF p
  <2>3. Len(pkt) + Wanted <= PacketLen /\ PacketLen \in Nat \ {0} /\ Len(pkt) \in Nat
        /\ Wanted \in Nat
    BY WantedOK, StreamConstantsOK DEF StreamTypeOK
  <2>4. pkt' \in Seq(Nat) /\ Len(pkt') < PacketLen
    <3>1. <<>> \in Seq(Nat) /\ Len(<<>>) = 0
      OBVIOUS
    <3>2. Len(p) # PacketLen => Len(p) < PacketLen
      BY <2>0, <2>3
    <3>3. 0 < PacketLen
      BY <2>3
    <3> QED
      BY <2>0, <2>2, <3>1, <3>2, <3>3, Zenon
  <2>5. delivered' \in Seq(Seq(Nat))
    <3>1. delivered \in Seq(Seq(Nat)) /\ Append(delivered, p) \in Seq(Seq(Nat))
      BY <2>0 DEF StreamTypeOK
    <3> QED
      BY Zenon, <2>2, <3>1
  <2> QED
    BY <1>3, <2>1, <2>4, <2>5 DEF Copy, StreamTypeOK
<1>4. ASSUME NEW type \in Types, HelloRecord(type) PROVE StreamTypeOK'
  <2>1. wire' \in Seq(Pieces) /\ record' \in Seq(Pieces) /\ Len(record') = 2
    BY <1>4, FetchedTypes DEF HelloRecord
  <2>2. /\ phase' \in {"hello1", "hello2", "finished", "open", "failed"}
        /\ UNCHANGED <<peerVars, decrypted, plain, pkt, delivered, cut>>
    BY <1>4 DEF HelloRecord
  <2> QED
    BY <2>1, <2>2 DEF StreamTypeOK
<1>5. ASSUME NEW type \in Types, FinishedRecord(type) PROVE StreamTypeOK'
  <2>1. wire' \in Seq(Pieces) /\ record' \in Seq(Pieces) /\ Len(record') = 2
    BY <1>5, FetchedTypes DEF FinishedRecord
  <2>2. /\ phase' \in {"hello1", "hello2", "finished", "open", "failed"}
        /\ UNCHANGED <<peerVars, decrypted, plain, pkt, delivered, cut>>
    BY <1>5 DEF FinishedRecord
  <2> QED
    BY <2>1, <2>2 DEF StreamTypeOK
<1>6. ASSUME NEW type \in Types, DataRecord(type) PROVE StreamTypeOK'
  <2>1. /\ wire' \in Seq(Pieces) /\ record' \in Seq(Pieces) /\ Len(record') = 2
        /\ record'[2].data \in Seq(Nat)
    BY <1>6, FetchedTypes DEF DataRecord
  <2>2. /\ phase' \in {"open", "eof", "failed"} /\ decrypted' \in {decrypted, decrypted + 1}
        /\ plain' \in {plain, record'[2].data}
        /\ UNCHANGED <<peerVars, pkt, delivered, cut>>
    BY <1>6, Zenon DEF DataRecord
  <2> QED
    BY SMTT(40), <2>1, <2>2 DEF StreamTypeOK
<1>7. ASSUME NEW kind \in Kinds, NEW k \in Payloads \cup {0}, SendHeader(kind, k)
      PROVE  StreamTypeOK'
  <2> DEFINE data == [i \in 1..k |-> sent + i - 1]
  <2>1. /\ k \in Nat /\ Piece("head", kind, nrec, enc, <<>>) \in Pieces
        /\ Piece("body", kind, nrec, enc, data) \in Pieces
    BY SentPieces
  <2> HIDE DEF data
  <2>2. wire' \in Seq(Pieces) /\ tail' \in Seq(Pieces)
    BY <1>7, <2>1 DEF SendHeader, StreamTypeOK, data
  <2>3. /\ nrec' = nrec + 1 /\ sent' = sent + k /\ enc' \in {enc, enc + 1}
        /\ UNCHANGED <<phase, fin, readVars>>
    BY <1>7 DEF SendHeader
  <2>4. {nrec, sent, enc, decrypted}' \subseteq Nat
    BY SMTT(40), <2>1, <2>3 DEF StreamTypeOK
  <2> QED
    BY <2>2, <2>3, <2>4 DEF StreamTypeOK
<1>8. CASE SendBody
  BY <1>8 DEF SendBody, StreamTypeOK
<1>9. CASE PeerCloses
  BY <1>9 DEF PeerCloses, StreamTypeOK
<1>10. CASE WakeUp
  BY <1>10, StreamConstantsOK DEF WakeUp, ReadPending, StreamTypeOK
<1>11. CASE Misread \/ ConnectTimeout
  BY <1>11 DEF Misread, ConnectTimeout, ReadPending, StreamTypeOK
<1>12. CASE UNCHANGED streamVars
  BY <1>12 DEF streamVars, StreamTypeOK
<1> QED
  BY <1>1, <1>2, <1>3, <1>4, <1>5, <1>6, <1>7, <1>8, <1>9, <1>10, <1>11, <1>12,
     StreamCases
-----------------------------------------------------------------------------
(* The pieces. *)

(* Without its first piece, what arrives is still framed. *)
LEMMA FramedTail ==
  ASSUME NEW w \in Seq(Pieces), w # <<>>, Framed(w)
  PROVE  Framed(Tail(w)) /\ (Tail(w) # <<>> => Joined(w[1], Tail(w)[1]))
<1> DEFINE t == Tail(w)
<1>1. /\ t \in Seq(Pieces) /\ Len(w) \in Nat \ {0} /\ Len(t) = Len(w) - 1
      /\ \A i \in 1..Len(w) - 1 : t[i] = w[i + 1]
  OBVIOUS
<1> HIDE DEF t
<1>2. /\ \A i \in 1..Len(w) : PieceOK(w[i])
      /\ \A i \in 1..Len(w) - 1 : Joined(w[i], w[i + 1])
      /\ w[Len(w)].part = "body"
  BY DEF Framed
<1>3. \A i \in 1..Len(t) : PieceOK(t[i])
  <2> SUFFICES ASSUME NEW i \in 1..Len(t) PROVE PieceOK(t[i])
    OBVIOUS
  <2>1. i + 1 \in 1..Len(w) /\ i \in 1..Len(w) - 1
    BY <1>1
  <2> QED
    BY <1>1, <1>2, <2>1
<1>4. \A i \in 1..Len(t) - 1 : Joined(t[i], t[i + 1])
  <2> SUFFICES ASSUME NEW i \in 1..Len(t) - 1 PROVE Joined(t[i], t[i + 1])
    OBVIOUS
  <2>1. i + 1 \in 1..Len(w) - 1 /\ i \in 1..Len(w) - 1
    BY <1>1
  <2> QED
    BY Zenon, <1>1, <1>2, <2>1
<1>5. ASSUME t # <<>>
      PROVE  /\ Len(t) \in 1..Len(w) - 1 /\ Len(t) + 1 = Len(w)
             /\ 1 \in 1..Len(w) - 1
  BY <1>1, <1>5
<1>6. t # <<>> => t[Len(t)].part = "body" /\ Joined(w[1], t[1])
  BY <1>1, <1>2, <1>5
<1> QED
  BY SMTT(40), <1>3, <1>4, <1>6 DEF Framed, t

(* A record is added at the end. *)
LEMMA FramedGrows ==
  ASSUME NEW w \in Seq(Pieces), Framed(w), NEW h \in Pieces, NEW b \in Pieces,
         PieceOK(h), PieceOK(b), h.part = "head", Joined(h, b)
  PROVE  Framed(w \o <<h, b>>)
<1> DEFINE v == w \o <<h, b>>
           n == Len(w)
<1>1. /\ n \in Nat /\ Len(v) = n + 2 /\ v[n + 1] = h /\ v[n + 2] = b
      /\ \A i \in 1..n : v[i] = w[i]
  OBVIOUS
<1>2. /\ \A i \in 1..n : PieceOK(w[i])
      /\ \A i \in 1..n - 1 : Joined(w[i], w[i + 1])
      /\ w # <<>> => w[n].part = "body"
  BY DEF Framed
<1>3. n > 0 => w # <<>>
  OBVIOUS
<1> HIDE DEF v, n
<1>4. ASSUME NEW i \in 1..Len(v) PROVE PieceOK(v[i])
  <2>1. i \in 1..n \/ i = n + 1 \/ i = n + 2
    BY <1>1
  <2> QED
    BY <1>1, <1>2, <2>1
<1>5. ASSUME NEW i \in 1..Len(v) - 1 PROVE Joined(v[i], v[i + 1])
  <2>1. CASE i \in 1..n - 1
    <3>1. i \in 1..n /\ i + 1 \in 1..n
      BY <1>1, <2>1
    <3> QED
      BY <1>1, <1>2, <2>1, <3>1
  <2>2. CASE i = n
    <3>1. n > 0 /\ n \in 1..n
      BY <1>1, <2>2
    <3>2. v[n].part = "body" /\ v[n + 1].part = "head"
      BY <1>1, <1>2, <1>3, <3>1
    <3> QED
      BY <2>2, <3>2 DEF Joined
  <2>3. CASE i = n + 1
    <3>1. i + 1 = n + 2
      BY <1>1, <2>3
    <3> QED
      BY <1>1, <2>3, <3>1
  <2> QED
    BY <1>1, <2>1, <2>2, <2>3
<1>6. v[Len(v)].part = "body"
  BY <1>1 DEF Joined
<1> QED
  BY Zenon, <1>4, <1>5, <1>6 DEF Framed, v

(* Nothing comes after the only one. *)
LEMMA LastOne ==
  ASSUME NEW S, NEW a \in Seq(S), a # <<>>, Tail(a) = <<>> PROVE Len(a) = 1
<1>1. Len(a) \in Nat \ {0} /\ Len(Tail(a)) = Len(a) - 1
  OBVIOUS
<1>2. Len(Tail(a)) = 0
  <2>1. Len(<<>>) = 0
    OBVIOUS
  <2> QED
    BY <2>1, Zenon
<1>3. \A x \in Nat \ {0} : x - 1 = 0 => x = 1
  OBVIOUS
<1> QED
  BY <1>1, <1>2, <1>3, Zenon

(* The reader takes the first piece. *)
LEMMA PieceTaken ==
  ASSUME StreamTypeOK, wire # <<>>, wire' = Tail(wire), tail' = tail
  PROVE  /\ Arriving \in Seq(Pieces) /\ Arriving # <<>> /\ Arriving' = Tail(Arriving)
         /\ Arriving[1] = Head(wire)
<1>1. wire \in Seq(Pieces) /\ tail \in Seq(Pieces)
  BY DEF StreamTypeOK
<1>2. ASSUME NEW S, NEW a \in Seq(S), NEW b \in Seq(S), a # <<>>
      PROVE  /\ a \o b \in Seq(S) /\ a \o b # <<>> /\ Tail(a) \o b = Tail(a \o b)
             /\ (a \o b)[1] = Head(a)
  <2>1. a \o b \in Seq(S) /\ Len(a \o b) = Len(a) + Len(b) /\ Len(a) > 0 /\ Len(b) \in Nat
        /\ Len(a) \in Nat
    BY <1>2
  <2>2. Tail(a) \o b = Tail(a \o b)
    BY <1>2
  <2> QED
    BY SMTT(40), <1>2, <2>1, <2>2
<1> QED
  BY SMTT(40), <1>1, <1>2 DEF Arriving

(* The peer sends a record. *)
LEMMA RecordArrives ==
  ASSUME StreamTypeOK, NEW kind \in Kinds, NEW k \in Payloads \cup {0}, SendHeader(kind, k)
  PROVE  LET h == Piece("head", kind, nrec, enc, <<>>)
             b == Piece("body", kind, nrec, enc, [i \in 1..k |-> sent + i - 1])
         IN  Arriving' = Arriving \o <<h, b>> /\ Arriving \in Seq(Pieces)
<1> DEFINE h == Piece("head", kind, nrec, enc, <<>>)
           b == Piece("body", kind, nrec, enc, [i \in 1..k |-> sent + i - 1])
<1>1. wire \in Seq(Pieces) /\ tail = <<>> /\ wire' = Append(wire, h) /\ tail' = <<b>>
  BY DEF SendHeader, StreamTypeOK
<1>2. h \in Pieces /\ b \in Pieces
  BY SentPieces
<1> HIDE DEF h, b
<1>3. Append(wire, h) \o <<b>> = wire \o <<h, b>> /\ wire \o <<>> = wire
  BY <1>1, <1>2
<1> QED
  BY <1>1, <1>3 DEF Arriving, h, b

(* The reader takes the body, and stands between two records. *)
LEMMA FetchedFrame ==
  ASSUME StreamTypeOK, FrameInv, NEW type \in Types, Fetched(type), tail' = tail, cut' = cut
  PROVE  FrameInv' /\ (~cut => Whole(record') /\ Joined(record[1], Head(wire)))
<1>1. /\ wire # <<>> /\ wire' = Tail(wire) /\ tail' = tail /\ Len(record) = 1 /\ cut' = cut
  BY DEF Fetched
<1>2. /\ Arriving \in Seq(Pieces) /\ Arriving # <<>> /\ Arriving' = Tail(Arriving)
      /\ Arriving[1] = Head(wire)
  BY <1>1, PieceTaken
<1>3. Len(record') = 2 /\ record'[1] = record[1] /\ record'[2] = Head(wire)
  BY FetchedTypes
<1>4. Framed(Arriving') /\ (Arriving' # <<>> => Joined(Head(wire), Arriving'[1]))
  BY <1>2, FramedTail DEF FrameInv
<1>5. ASSUME ~cut PROVE Whole(record') /\ Joined(record[1], Head(wire)) /\ InStep(record', Arriving')
  <2>1. record[1].part = "head" /\ Joined(record[1], Head(wire))
    BY <1>1, <1>2, <1>5 DEF FrameInv, InStep
  <2>2. Head(wire).part = "body" /\ Head(wire).n = record[1].n
    BY <2>1 DEF Joined
  <2>3. Arriving' # <<>> => Arriving'[1].part = "head"
    BY <1>4, <2>2 DEF Joined
  <2> QED
    BY <1>3, <2>1, <2>2, <2>3 DEF Whole, InStep
<1>6. cut' <=> cut
  BY Zenon
<1>7. ~cut' => InStep(record', Arriving') /\ (Len(record') = 2 => Whole(record)')
  BY <1>5, <1>6, Zenon DEF Whole
<1> QED
  BY <1>4, <1>5, <1>7, Zenon DEF FrameInv

(* A step that leaves the pieces, record_buf and cut as they are. *)
LEMMA FrameSame ==
  ASSUME FrameInv, UNCHANGED <<wire, tail, record, cut>> PROVE FrameInv'
  BY Zenon DEF FrameInv, Arriving, Framed, InStep, Whole

(* Every step keeps the frames. *)
LEMMA FrameStep == StreamTypeOK /\ FrameInv /\ [StreamNext]_streamVars => FrameInv'
<1> SUFFICES ASSUME StreamTypeOK, FrameInv, [StreamNext]_streamVars PROVE FrameInv'
  OBVIOUS
<1> USE DEF readVars, peerVars
<1>1. CASE FetchHeader
  <2>1. /\ wire # <<>> /\ wire' = Tail(wire) /\ tail' = tail /\ Len(record) # 1
        /\ record' = <<Head(wire)>> /\ cut' = cut
    BY <1>1 DEF FetchHeader
  <2>2. /\ Arriving \in Seq(Pieces) /\ Arriving # <<>> /\ Arriving' = Tail(Arriving)
        /\ Arriving[1] = Head(wire)
    BY <2>1, PieceTaken
  <2>3. Framed(Arriving') /\ (Arriving' # <<>> => Joined(Head(wire), Arriving'[1]))
    BY <2>2, FramedTail DEF FrameInv
  <2>4. ASSUME ~cut PROVE InStep(record', Arriving')
    <3>1. Head(wire).part = "head"
      BY <2>1, <2>2, <2>4 DEF FrameInv, InStep
    <3>2. Arriving' # <<>>
      <4> SUFFICES ASSUME Arriving' = <<>> PROVE FALSE
        OBVIOUS
      <4>1. Len(Arriving) = 1
        BY <2>2, LastOne
      <4>2. Arriving[Len(Arriving)].part = "body"
        BY <2>2 DEF FrameInv, Framed
      <4> QED
        BY <2>2, <3>1, <4>1, <4>2
    <3>3. Len(record') = 1 /\ record'[1] = Head(wire)
      BY <2>1
    <3> QED
      BY <2>3, <3>1, <3>2, <3>3 DEF InStep
  <2>5. Len(record') # 2
    BY <2>1
  <2> QED
    BY <2>1, <2>3, <2>4, <2>5, Zenon DEF FrameInv
<1>2. CASE EndOfStream
  BY <1>2, FrameSame DEF EndOfStream
<1>3. CASE Copy
  BY <1>3, FrameSame DEF Copy
<1>4. ASSUME NEW type \in Types, HelloRecord(type) PROVE FrameInv'
  BY <1>4, FetchedFrame, Zenon DEF HelloRecord
<1>5. ASSUME NEW type \in Types, FinishedRecord(type) PROVE FrameInv'
  BY <1>5, FetchedFrame, Zenon DEF FinishedRecord
<1>6. ASSUME NEW type \in Types, DataRecord(type) PROVE FrameInv'
  BY <1>6, FetchedFrame, Zenon DEF DataRecord
<1>7. ASSUME NEW kind \in Kinds, NEW k \in Payloads \cup {0}, SendHeader(kind, k)
      PROVE  FrameInv'
  <2> DEFINE h == Piece("head", kind, nrec, enc, <<>>)
             data == [i \in 1..k |-> sent + i - 1]
             b == Piece("body", kind, nrec, enc, data)
  <2>1. Arriving' = Arriving \o <<h, b>> /\ Arriving \in Seq(Pieces)
    BY <1>7, RecordArrives
  <2>2. h \in Pieces /\ b \in Pieces
    BY SentPieces
  <2>3. PieceOK(h) /\ h.part = "head" /\ Joined(h, b)
    BY DEF Piece, PieceOK, Joined
  <2>4. PieceOK(b)
    <3>1. kind # "data" => k = 0
      BY <1>7 DEF SendHeader
    <3>2. k = 0 => data = <<>>
      OBVIOUS
    <3>3. b.kind = kind /\ b.part = "body" /\ b.data = data
      BY DEF Piece
    <3> QED
      BY <3>1, <3>2, <3>3 DEF PieceOK
  <2> HIDE DEF h, b
  <2>5. Framed(Arriving')
    BY <2>1, <2>2, <2>3, <2>4, FramedGrows DEF FrameInv
  <2>6. IF Arriving = <<>> THEN Arriving'[1] = h ELSE Arriving'[1] = Arriving[1] /\ Arriving' # <<>>
    BY <2>1, <2>2
  <2>7. record' = record /\ cut' = cut
    BY <1>7 DEF SendHeader
  <2>8. InStep(record, Arriving) => InStep(record', Arriving')
    BY <2>3, <2>6, <2>7 DEF InStep
  <2> QED
    BY <2>5, <2>7, <2>8 DEF FrameInv, Whole
<1>8. CASE SendBody
  <2>1. wire' = wire \o tail /\ tail' = <<>> /\ UNCHANGED <<record, cut>>
    BY <1>8 DEF SendBody
  <2>2. wire \in Seq(Pieces) /\ tail \in Seq(Pieces)
    BY DEF StreamTypeOK
  <2>3. Arriving' = Arriving
    BY <2>1, <2>2 DEF Arriving
  <2> QED
    BY <2>1, <2>3 DEF FrameInv, InStep, Whole
<1>9. CASE PeerCloses
  BY <1>9, FrameSame DEF PeerCloses
<1>10. CASE WakeUp
  <2>1. /\ Arriving' = Arriving /\ record' = <<>>
        /\ cut' = (cut \/ pkt # <<>> \/ Len(record) = 1)
    BY <1>10 DEF WakeUp, ReadPending, Arriving
  <2>2. Len(record') = 0
    BY <2>1
  <2>3. ~cut' => ~cut /\ Len(record) # 1
    BY <2>1, Zenon
  <2> QED
    BY <2>1, <2>2, <2>3 DEF FrameInv, InStep
<1>11. CASE Misread \/ ConnectTimeout
  BY <1>11, FrameSame DEF Misread, ConnectTimeout, ReadPending
<1>12. CASE UNCHANGED streamVars
  BY <1>12, FrameSame DEF streamVars
<1> QED
  BY <1>1, <1>2, <1>3, <1>4, <1>5, <1>6, <1>7, <1>8, <1>9, <1>10, <1>11, <1>12,
     StreamCases, Zenon
-----------------------------------------------------------------------------
(* The end of the stream. *)

(* The outer type says whether a record is a hello or a ChangeCipherSpec, *)
(* and hides an alert.                                                    *)
LEMMA OuterTypes ==
  ASSUME NEW kind \in Kinds
  PROVE  /\ Outer(kind) # "alert" /\ (Outer(kind) = "ccs" => kind = "ccs")
         /\ Outer(kind) = "handshake" => kind = "hello"
  BY DEF Outer, Kinds

(* While no read is cut, the type byte is that of the record. *)
LEMMA FetchedType ==
  ASSUME StreamTypeOK, FrameInv, NEW type \in Types, Fetched(type), tail' = tail,
         cut' = cut, ~cut
  PROVE  /\ Whole(record') /\ type # "alert"
         /\ (type = "ccs" => record[1].kind = "ccs")
         /\ (type = "handshake" => record[1].kind = "hello")
         /\ record[1].kind # "data" => Head(wire).data = <<>>
<1>1. Whole(record') /\ Joined(record[1], Head(wire)) /\ Len(record) = 1
  BY FetchedFrame DEF Fetched
<1>2. record[1] \in Pieces
  <2>1. record \in Seq(Pieces) /\ 1 \in 1..Len(record)
    BY <1>1 DEF StreamTypeOK
  <2> QED
    BY <2>1
<1>3. record[1].kind \in Kinds /\ type = Outer(record[1].kind)
  BY <1>1, <1>2 DEF Pieces, Fetched
<1>4. record[1].part = "head" /\ PieceOK(Head(wire))
  <2>1. /\ Arriving \in Seq(Pieces) /\ Arriving # <<>> /\ Arriving[1] = Head(wire)
    BY PieceTaken DEF Fetched
  <2>2. 1 \in 1..Len(Arriving)
    BY <2>1
  <2> QED
    BY <1>1, <2>1, <2>2 DEF FrameInv, Framed, InStep
<1>5. Head(wire).kind = record[1].kind
  BY <1>1, <1>4 DEF Joined
<1> QED
  BY <1>1, <1>3, <1>4, <1>5, OuterTypes DEF PieceOK

(* Only the end of the transport or a record ends the stream. *)
LEMMA EofStep ==
  StreamTypeOK /\ FrameInv /\ EofIsReal /\ [StreamNext]_streamVars => EofIsReal'
<1> SUFFICES ASSUME StreamTypeOK, FrameInv, EofIsReal, [StreamNext]_streamVars,
                    phase' = "eof", ~cut'
             PROVE  \/ fin'
                    \/ /\ Len(record') = 2
                       /\ record'[1].kind = "alert" \/ record'[2].data = <<>>
  BY DEF EofIsReal
<1> USE DEF readVars, peerVars
<1>0. ASSUME UNCHANGED <<phase, fin, record, cut>>
      PROVE  \/ fin'
             \/ /\ Len(record') = 2
                /\ record'[1].kind = "alert" \/ record'[2].data = <<>>
  BY <1>0, Zenon DEF EofIsReal
<1>1. CASE FetchHeader
  BY <1>1 DEF FetchHeader, Fetching
<1>2. CASE EndOfStream
  BY <1>2, Zenon DEF EndOfStream
<1>3. CASE Copy
  BY <1>3 DEF Copy
<1>4. ASSUME NEW type \in Types, HelloRecord(type) PROVE FALSE
  BY <1>4 DEF HelloRecord
<1>5. ASSUME NEW type \in Types, FinishedRecord(type) PROVE FALSE
  BY <1>5 DEF FinishedRecord
<1>6. ASSUME NEW type \in Types, DataRecord(type)
      PROVE  Len(record') = 2 /\ record'[2].data = <<>>
  <2>1. /\ Fetched(type) /\ tail' = tail /\ cut' = cut /\ phase = "open"
    BY <1>6 DEF DataRecord
  <2>2. type # "alert" /\ Len(record') = 2
    BY <2>1, FetchedType, FetchedTypes, Zenon
  <2>3. plain' = record'[2].data /\ plain' = <<>>
    BY <1>6, <2>1, <2>2 DEF DataRecord
  <2> QED
    BY <2>2, <2>3, Zenon
<1>7. ASSUME NEW kind \in Kinds, NEW k \in Payloads \cup {0}, SendHeader(kind, k)
      PROVE  UNCHANGED <<phase, fin, record, cut>>
  BY <1>7 DEF SendHeader
<1>8. CASE SendBody
  BY <1>0, <1>8 DEF SendBody
<1>9. CASE PeerCloses
  BY <1>9, Zenon DEF PeerCloses
<1>10. CASE WakeUp
  BY <1>10 DEF WakeUp, ReadPending
<1>11. CASE Misread \/ ConnectTimeout
  BY <1>11 DEF Misread, ConnectTimeout, ReadPending
<1>12. CASE UNCHANGED streamVars
  BY <1>0, <1>12 DEF streamVars
<1> QED
  BY <1>0, <1>1, <1>2, <1>3, <1>4, <1>5, <1>6, <1>7, <1>8, <1>9, <1>10, <1>11, <1>12,
     StreamCases, Zenon
-----------------------------------------------------------------------------
(* The bytes. *)

(* A larger bound. *)
LEMMA OrderedHigher ==
  ASSUME NEW dl \in Seq(Seq(Nat)), NEW pk \in Seq(Nat), NEW pl \in Seq(Nat),
         NEW top \in Nat, NEW high \in Nat, top <= high, Ordered(dl, pk, pl, top)
  PROVE  Ordered(dl, pk, pl, high)
<1>1. ASSUME NEW r \in Seq(Nat), Under(r, top) PROVE Under(r, high)
  <2>1. \A k \in 1..Len(r) : r[k] \in Nat /\ r[k] < top
    BY <1>1 DEF Under
  <2> QED
    BY <2>1 DEF Under
<1>2. \A i \in 1..Len(dl) : dl[i] \in Seq(Nat)
  OBVIOUS
<1> QED
  BY <1>1, <1>2, Zenon DEF Ordered

(* The numbers of what is left when the first piece is taken. *)
LEMMA NumberedTail ==
  ASSUME NEW w \in Seq(Pieces), w # <<>>, NEW off, NEW last, Numbered(w, off, last)
  PROVE  /\ off[1] \in Nat /\ w[1].data \in Seq(Nat) /\ Counts(w[1].data, off[1])
         /\ \E o : Numbered(Tail(w), o, last) /\ o[1] = off[1] + Len(w[1].data)
<1> DEFINE t == Tail(w)
           n == Len(w)
           o == [i \in 1..n |-> off[i + 1]]
<1>1. /\ t \in Seq(Pieces) /\ n \in Nat \ {0} /\ Len(t) + 1 = n /\ Len(t) \in Nat
      /\ \A i \in 1..Len(t) : t[i] = w[i + 1]
  OBVIOUS
<1>2. /\ off \in [1..n + 1 -> Nat] /\ off[n + 1] = last
      /\ \A i \in 1..n : off[i + 1] = off[i] + Len(w[i].data) /\ Counts(w[i].data, off[i])
  BY DEF Numbered
<1>3. \A i \in 1..n : w[i] \in Pieces
  OBVIOUS
<1>4. w[1].data \in Seq(Nat)
  BY <1>1, <1>3 DEF Pieces
<1> HIDE DEF t, n
<1>5. off[1] \in Nat /\ off[2] = off[1] + Len(w[1].data) /\ Counts(w[1].data, off[1])
  <2>1. 1 \in 1..n /\ 1 \in 1..n + 1 /\ 1 + 1 = 2
    BY <1>1
  <2> QED
    BY <1>2, <2>1
<1>6. o \in [1..Len(t) + 1 -> Nat] /\ o[1] = off[2] /\ o[Len(t) + 1] = last
  BY SMTT(40), <1>1, <1>2
<1>7. \A i \in 1..n : o[i] = off[i + 1]
  OBVIOUS
<1> HIDE DEF o
<1>8. ASSUME NEW i \in 1..Len(t)
      PROVE  o[i + 1] = o[i] + Len(t[i].data) /\ Counts(t[i].data, o[i])
  <2>1. i \in 1..n /\ i + 1 \in 1..n
    BY <1>1
  <2>2. o[i] = off[i + 1] /\ o[i + 1] = off[(i + 1) + 1] /\ t[i] = w[i + 1]
    BY SMTT(40), <1>1, <1>7, <2>1
  <2>3. /\ off[(i + 1) + 1] = off[i + 1] + Len(w[i + 1].data)
        /\ Counts(w[i + 1].data, off[i + 1])
    BY <1>2, <2>1
  <2> QED
    BY <2>2, <2>3
<1>9. Numbered(t, o, last)
  BY <1>6, <1>8 DEF Numbered
<1> QED
  BY <1>4, <1>5, <1>6, <1>9 DEF t

(* The numbers when a record with the next bytes is added. *)
LEMMA NumberedGrows ==
  ASSUME NEW w \in Seq(Pieces), NEW off, NEW last \in Nat, Numbered(w, off, last),
         NEW h \in Pieces, NEW b \in Pieces, h.data = <<>>, Counts(b.data, last)
  PROVE  \E o : Numbered(w \o <<h, b>>, o, last + Len(b.data)) /\ o[1] = off[1]
<1> DEFINE v == w \o <<h, b>>
           n == Len(w)
           m == Len(b.data)
           o == [i \in 1..n + 3 |-> IF i <= n + 1 THEN off[i]
                                    ELSE IF i = n + 2 THEN last ELSE last + m]
<1>1. /\ n \in Nat /\ Len(v) = n + 2 /\ v[n + 1] = h /\ v[n + 2] = b
      /\ \A i \in 1..n : v[i] = w[i]
  OBVIOUS
<1>2. /\ off \in [1..n + 1 -> Nat] /\ off[n + 1] = last
      /\ \A i \in 1..n : off[i + 1] = off[i] + Len(w[i].data) /\ Counts(w[i].data, off[i])
  BY SMTT(40) DEF Numbered
<1>3. b.data \in Seq(Nat) /\ m \in Nat
  BY DEF Pieces
<1>4. Len(h.data) = 0 /\ Counts(h.data, last)
  BY DEF Counts
<1> HIDE DEF v, n, m
<1>5. /\ \A i \in 1..n + 1 : o[i] = off[i]
      /\ o[n + 2] = last /\ o[n + 3] = last + m
  BY <1>1
<1>6. o \in [1..n + 3 -> Nat]
  BY SMTT(40), <1>1, <1>2, <1>3
<1> HIDE DEF o
<1>7. ASSUME NEW i \in 1..Len(v)
      PROVE  o[i + 1] = o[i] + Len(v[i].data) /\ Counts(v[i].data, o[i])
  <2>1. CASE i \in 1..n
    <3>1. i \in 1..n + 1 /\ i + 1 \in 1..n + 1
      BY <1>1, <2>1
    <3> QED
      BY Zenon, <1>1, <1>2, <1>5, <2>1, <3>1
  <2>2. CASE i = n + 1
    <3>1. n + 1 \in 1..n + 1 /\ i + 1 = n + 2
      BY <1>1, <2>2
    <3>2. o[i] = last /\ o[i + 1] = last /\ v[i] = h
      BY <1>1, <1>2, <1>5, <2>2, <3>1
    <3> QED
      BY <1>4, <3>2
  <2>3. CASE i = n + 2
    <3>1. i + 1 = n + 3
      BY <1>1, <2>3
    <3> QED
      BY SMTT(40), <1>1, <1>5, <2>3, <3>1 DEF m
  <2> QED
    BY <1>1, <2>1, <2>2, <2>3
<1>8. Len(v) + 1 = n + 3 /\ 1 \in 1..n + 1
  BY <1>1
<1>9. Numbered(v, o, last + m) /\ o[1] = off[1]
  BY <1>5, <1>6, <1>7, <1>8 DEF Numbered
<1> QED
  BY <1>9 DEF v, m

(* A step that leaves the bytes as they are, or ends the connection. *)
LEMMA BytesSame ==
  ASSUME NEW off, ByteInv(off), Arriving' = Arriving, UNCHANGED <<sent, delivered, pkt, plain, cut>>,
         Live' => Live
  PROVE  \E o : ByteInv(o)'
<1>1. Numbered(Arriving', off, sent') /\ Ordered(delivered', pkt', plain', off[1])
  BY DEF ByteInv
<1>2. ~cut' => Intact(off[1])'
  <2>1. Base' = Base /\ \A i : PacketAt(i)' = PacketAt(i)
    BY DEF Base, PacketAt
  <2>2. ~cut' => Intact(off[1])
    BY Zenon DEF ByteInv
  <2> QED
    BY <2>1, <2>2, Zenon DEF Intact
<1> QED
  BY <1>1, <1>2, Zenon DEF ByteInv

(* The first piece is taken, and its bytes are lost or there are none. *)
LEMMA BytesPassed ==
  ASSUME NEW off, ByteInv(off), StreamTypeOK, wire # <<>>, wire' = Tail(wire),
         UNCHANGED <<tail, sent, delivered, pkt, plain, cut>>, Live' => Live,
         ~cut /\ Live' => Head(wire).data = <<>>
  PROVE  \E o : ByteInv(o)'
<1>1. /\ Arriving \in Seq(Pieces) /\ Arriving # <<>> /\ Arriving' = Tail(Arriving)
      /\ Arriving[1] = Head(wire)
  BY PieceTaken
<1>2. Numbered(Arriving, off, sent) /\ Ordered(delivered, pkt, plain, off[1])
  BY SMTT(40) DEF ByteInv
<1>3. off[1] \in Nat /\ Head(wire).data \in Seq(Nat)
  BY SMTT(40), <1>1, <1>2, NumberedTail
<1>4. PICK o : Numbered(Arriving', o, sent) /\ o[1] = off[1] + Len(Head(wire).data)
  BY SMTT(40), <1>1, <1>2, NumberedTail
<1>5. Ordered(delivered', pkt', plain', o[1])
  <2>1. o[1] \in Nat /\ off[1] <= o[1]
    BY <1>3, <1>4
  <2>2. delivered \in Seq(Seq(Nat)) /\ pkt \in Seq(Nat) /\ plain \in Seq(Nat)
    BY DEF StreamTypeOK
  <2> QED
    BY Zenon, <1>2, <1>3, <2>1, <2>2, OrderedHigher
<1>6. ~cut' => Intact(o[1])'
  <2>1. Base' = Base /\ \A i : PacketAt(i)' = PacketAt(i)
    BY DEF Base, PacketAt
  <2>2. ~cut' => ~cut /\ Intact(off[1])
    BY Zenon DEF ByteInv
  <2>3. ~cut /\ Live' => o[1] = off[1]
    <3>1. ASSUME ~cut, Live' PROVE o[1] = off[1]
      <4>1. Len(Head(wire).data) = 0
        BY <3>1
      <4> QED
        BY <1>3, <1>4, <4>1
    <3> QED
      BY <3>1
  <2> QED
    BY <2>1, <2>2, <2>3, Zenon DEF Intact
<1>7. Numbered(Arriving', o, sent')
  BY <1>4
<1> QED
  BY <1>5, <1>6, <1>7, Zenon DEF ByteInv

(* A record is decrypted into an empty plain_buf. *)
LEMMA BytesRefill ==
  ASSUME NEW off, ByteInv(off), StreamTypeOK, wire # <<>>, wire' = Tail(wire),
         UNCHANGED <<tail, sent, delivered, pkt, cut>>, plain = <<>>,
         plain' = Head(wire).data, Live
  PROVE  \E o : ByteInv(o)'
<1> DEFINE d == Head(wire).data
<1>1. /\ Arriving \in Seq(Pieces) /\ Arriving # <<>> /\ Arriving' = Tail(Arriving)
      /\ Arriving[1] = Head(wire)
  BY PieceTaken
<1>2. Numbered(Arriving, off, sent) /\ Ordered(delivered, pkt, <<>>, off[1])
  BY DEF ByteInv
<1>3. off[1] \in Nat /\ d \in Seq(Nat) /\ Counts(d, off[1])
  BY <1>1, <1>2, NumberedTail
<1>4. PICK o : Numbered(Arriving', o, sent) /\ o[1] = off[1] + Len(d)
  BY <1>1, <1>2, NumberedTail
<1>0. plain' = d
  OBVIOUS
<1> HIDE DEF d
<1>5. Ordered(delivered', pkt', plain', o[1])
  <2>1. delivered \in Seq(Seq(Nat)) /\ pkt \in Seq(Nat)
    BY DEF StreamTypeOK
  <2>2. Ordered(delivered, pkt, d, off[1] + Len(d))
    BY <1>2, <1>3, <2>1, RefillOrdered
  <2> QED
    BY <1>0, <1>4, <2>2, Zenon
<1>6. ~cut' => Intact(o[1])'
  <2>1. Base' = Base /\ \A i : PacketAt(i)' = PacketAt(i)
    BY DEF Base, PacketAt
  <2>2. ~cut' => ~cut /\ Intact(off[1])
    BY Zenon DEF ByteInv
  <2>3. ASSUME Intact(off[1]) PROVE off[1] = Base + Len(pkt)
    <3>1. off[1] = Base + Len(pkt) + Len(plain)
      BY <2>3 DEF Intact
    <3>2. Len(plain) = 0
      OBVIOUS
    <3>3. Base \in Nat /\ Len(pkt) \in Nat
      BY SMTT(40), StreamConstantsOK DEF Base, StreamTypeOK
    <3> QED
      BY <3>1, <3>2, <3>3
  <2>4. ASSUME Intact(off[1]) PROVE Intact(o[1])'
    <3>1. \A i \in 1..Len(delivered') : delivered'[i] = PacketAt(i)'
      BY <2>1, <2>4 DEF Intact
    <3>2. Counts(pkt', Base')
      BY <2>1, <2>4 DEF Intact
    <3>3. Counts(plain', Base' + Len(pkt')) /\ o[1] = Base' + Len(pkt') + Len(plain')
      BY <1>0, <1>3, <1>4, <2>1, <2>3, <2>4
    <3> QED
      BY <3>1, <3>2, <3>3, Zenon DEF Intact
  <2> QED
    BY <2>2, <2>4, Zenon
<1>7. Numbered(Arriving', o, sent')
  BY <1>4
<1> QED
  BY <1>5, <1>6, <1>7, Zenon DEF ByteInv

(* One sequence, then the other. *)
LEMMA Joins ==
  ASSUME NEW S, NEW a \in Seq(S), NEW b \in Seq(S)
  PROVE  /\ a \o b \in Seq(S) /\ Len(a \o b) = Len(a) + Len(b)
         /\ \A k \in 1..Len(a) : (a \o b)[k] = a[k]
         /\ \A k \in 1..Len(b) : (a \o b)[Len(a) + k] = b[k]
<1>1. a \o b \in Seq(S) /\ Len(a \o b) = Len(a) + Len(b)
  OBVIOUS
<1>2. \A k \in 1..Len(a) : (a \o b)[k] = a[k]
  OBVIOUS
<1>3. \A k \in 1..Len(b) : (a \o b)[Len(a) + k] = b[k]
  OBVIOUS
<1> QED
  BY <1>1, <1>2, <1>3

(* Bytes that count on from one another, joined or cut. *)
LEMMA CountsCopied ==
  ASSUME NEW pk \in Seq(Nat), NEW pl \in Seq(Nat), NEW w \in 0..Len(pl), NEW base \in Nat,
         Counts(pk, base), Counts(pl, base + Len(pk))
  PROVE  LET p == pk \o SubSeq(pl, 1, w)
             q == SubSeq(pl, w + 1, Len(pl))
         IN  /\ p \in Seq(Nat) /\ Len(p) = Len(pk) + w /\ Counts(p, base)
             /\ q \in Seq(Nat) /\ Len(q) = Len(pl) - w /\ Counts(q, base + Len(pk) + w)
<1> DEFINE a == SubSeq(pl, 1, w)
           p == pk \o a
           q == SubSeq(pl, w + 1, Len(pl))
<1>1. /\ a \in Seq(Nat) /\ Len(a) = w /\ \A k \in 1..w : a[k] = pl[k]
      /\ q \in Seq(Nat) /\ Len(q) = Len(pl) - w
      /\ \A k \in 1..Len(pl) - w : q[k] = pl[w + k]
  BY Cuts
<1> HIDE DEF a, q
<1>2. /\ p \in Seq(Nat) /\ Len(p) = Len(pk) + w
      /\ \A k \in 1..Len(pk) : p[k] = pk[k]
      /\ \A k \in 1..w : p[Len(pk) + k] = a[k]
  <2>1. a \in Seq(Nat) /\ Len(a) = w
    BY <1>1
  <2>2. ASSUME NEW b \in Seq(Nat)
        PROVE  /\ pk \o b \in Seq(Nat) /\ Len(pk \o b) = Len(pk) + Len(b)
               /\ \A k \in 1..Len(pk) : (pk \o b)[k] = pk[k]
               /\ \A k \in 1..Len(b) : (pk \o b)[Len(pk) + k] = b[k]
    BY Joins
  <2> QED
    BY <2>1, <2>2, Zenon
<1> HIDE DEF p
<1>0. Len(pk) \in Nat /\ Len(pl) \in Nat /\ w \in Nat
  OBVIOUS
<1>3. ASSUME NEW k \in 1..Len(p) PROVE p[k] = base + k - 1
  <2>1. CASE k <= Len(pk)
    <3>1. k \in 1..Len(pk)
      BY <1>0, <2>1
    <3> QED
      BY <1>2, <3>1 DEF Counts
  <2>2. CASE ~(k <= Len(pk))
    <3> DEFINE j == k - Len(pk)
    <3>1. j \in 1..w /\ Len(pk) + j = k /\ j \in 1..Len(pl)
      BY SMTT(40), <1>0, <1>2, <2>2
    <3> HIDE DEF j
    <3>2. p[k] = pl[j]
      BY <1>1, <1>2, <3>1
    <3>3. pl[j] = base + Len(pk) + j - 1
      BY <3>1 DEF Counts
    <3>4. \A x, y, z \in Nat : x + y + z - 1 = x + (y + z) - 1
      OBVIOUS
    <3>5. j \in Nat
      BY <3>1
    <3>6. base + Len(pk) + j - 1 = base + k - 1
      BY <1>0, <3>1, <3>4, <3>5, Zenon
    <3> QED
      BY <3>2, <3>3, <3>6, Zenon
  <2> QED
    BY <2>1, <2>2
<1>4. ASSUME NEW k \in 1..Len(q) PROVE q[k] = base + Len(pk) + w + k - 1
  <2>1. k \in 1..Len(pl) - w /\ w + k \in 1..Len(pl)
    BY <1>0, <1>1
  <2>2. q[k] = base + Len(pk) + (w + k) - 1
    BY SMTT(40), <1>1, <2>1 DEF Counts
  <2> QED
    BY <1>0, <2>1, <2>2
<1> QED
  BY SMTT(40), <1>1, <1>2, <1>3, <1>4 DEF Counts, p, q, a

(* A packet more. *)
LEMMA NextBase ==
  ASSUME NEW n \in Nat
  PROVE  n * PacketLen \in Nat /\ (n + 1) * PacketLen = n * PacketLen + PacketLen
  BY StreamConstantsOK

(* A sequence of PacketLen bytes that begins with the packet is the packet. *)
LEMMA IsPacket ==
  ASSUME NEW p \in Seq(Nat), NEW n \in Nat, Len(p) = PacketLen, Counts(p, n * PacketLen)
  PROVE  p = PacketAt(n + 1)
<1> DEFINE x == n * PacketLen
<1>1. (n + 1) - 1 = n
  OBVIOUS
<1>2. PacketAt(n + 1) = [j \in 1..PacketLen |-> x + j - 1]
  BY <1>1 DEF PacketAt
<1>3. \A k \in 1..Len(p) : p[k] = x + k - 1
  BY DEF Counts
<1>4. p = [k \in 1..Len(p) |-> p[k]]
  OBVIOUS
<1> HIDE DEF x
<1> QED
  BY <1>2, <1>3, <1>4, Zenon

(* Copy. *)
LEMMA BytesCopied ==
  ASSUME NEW off, ByteInv(off), StreamTypeOK, Copy
  PROVE  ByteInv(off)'
<1> DEFINE p == pkt \o SubSeq(plain, 1, Wanted)
           q == SubSeq(plain, Wanted + 1, Len(plain))
           n == Len(delivered)
<1>1. /\ delivered \in Seq(Seq(Nat)) /\ pkt \in Seq(Nat) /\ plain \in Seq(Nat)
      /\ Wanted \in 0..Len(plain) /\ n \in Nat
  BY WantedOK DEF StreamTypeOK
<1>2. /\ plain' = q
      /\ \/ Len(p) = PacketLen /\ pkt' = <<>> /\ delivered' = Append(delivered, p)
         \/ Len(p) # PacketLen /\ pkt' = p /\ delivered' = delivered
      /\ Arriving' = Arriving /\ sent' = sent /\ cut' = cut /\ Live /\ Live'
  BY Zenon DEF Copy, Arriving, peerVars, Live
<1>3. Numbered(Arriving', off, sent')
  BY <1>2 DEF ByteInv
<1>4. Ordered(delivered', pkt', plain', off[1])
  <2>1. Ordered(delivered, p, q, off[1]) /\ Ordered(Append(delivered, p), <<>>, q, off[1])
    BY <1>1, CopyOrdered DEF ByteInv
  <2> HIDE DEF p, q
  <2> QED
    BY <1>2, <2>1, Zenon
<1>5. ASSUME Intact(off[1]) PROVE Intact(off[1])'
  <2>1. /\ Counts(pkt, Base) /\ Counts(plain, Base + Len(pkt))
        /\ off[1] = Base + Len(pkt) + Len(plain)
        /\ \A i \in 1..n : delivered[i] = PacketAt(i)
    BY <1>2, <1>5 DEF Intact
  <2>2. /\ Base \in Nat /\ Base = n * PacketLen
        /\ (n + 1) * PacketLen = Base + PacketLen /\ PacketLen \in Nat
    BY <1>1, NextBase, StreamConstantsOK DEF Base
  <2>3. /\ p \in Seq(Nat) /\ Len(p) = Len(pkt) + Wanted /\ Counts(p, Base)
        /\ q \in Seq(Nat) /\ Len(q) = Len(plain) - Wanted
        /\ Counts(q, Base + Len(pkt) + Wanted)
    BY SMTT(40), <1>1, <2>1, <2>2, CountsCopied
  <2>4. /\ Base + Len(pkt) + Wanted = Base + Len(p)
        /\ off[1] = Base + Len(p) + Len(q)
    <3>1. Len(pkt) \in Nat /\ Len(plain) \in Nat /\ Wanted \in Nat
      BY <1>1
    <3>2. /\ Wanted <= Len(plain) /\ Base \in Nat
          /\ Len(p) = Len(pkt) + Wanted /\ Len(q) = Len(plain) - Wanted
          /\ off[1] = Base + Len(pkt) + Len(plain)
      BY <1>1, <2>1, <2>2, <2>3
    <3> HIDE DEF p, q
    <3> QED
      BY <3>1, <3>2
  <2>5. \A i : PacketAt(i)' = PacketAt(i)
    BY DEF PacketAt
  <2> HIDE DEF p, q
  <2>6. CASE pkt' = p /\ delivered' = delivered
    <3>1. Base' = Base
      BY <2>6 DEF Base
    <3>2. Counts(pkt', Base') /\ Counts(plain', Base' + Len(pkt'))
      BY <1>2, <2>3, <2>4, <2>6, <3>1
    <3>3. off[1] = Base' + Len(pkt') + Len(plain')
      BY <1>2, <2>4, <2>6, <3>1
    <3>4. \A i \in 1..Len(delivered') : delivered'[i] = PacketAt(i)'
      BY <2>1, <2>5, <2>6
    <3> QED
      BY <3>2, <3>3, <3>4, Zenon DEF Intact
  <2>7. CASE Len(p) = PacketLen /\ pkt' = <<>> /\ delivered' = Append(delivered, p)
    <3>1. Len(delivered') = n + 1 /\ delivered'[n + 1] = p
          /\ \A i \in 1..n : delivered'[i] = delivered[i]
      BY <1>1, <2>3, <2>7
    <3>2. Base' = Base + Len(p)
      BY <2>2, <2>7, <3>1 DEF Base
    <3>3. Len(pkt') = 0 /\ Counts(pkt', Base')
      BY <2>7 DEF Counts
    <3>4. Base' + Len(pkt') = Base + Len(p)
      BY <2>2, <2>3, <3>2, <3>3
    <3>5. Counts(plain', Base' + Len(pkt')) /\ off[1] = Base' + Len(pkt') + Len(plain')
      BY <1>2, <2>3, <2>4, <3>4
    <3>6. p = PacketAt(n + 1)
      BY <1>1, <2>2, <2>3, <2>7, IsPacket
    <3>7. ASSUME NEW i \in 1..Len(delivered') PROVE delivered'[i] = PacketAt(i)'
      <4>1. i \in 1..n \/ i = n + 1
        BY <1>1, <3>1
      <4> HIDE DEF n
      <4> QED
        BY <2>1, <2>5, <3>1, <3>6, <4>1, Zenon
    <3> QED
      BY <3>3, <3>5, <3>7, Zenon DEF Intact
  <2> QED
    BY <1>2, <2>6, <2>7
<1>6. ~cut' => Intact(off[1])'
  BY <1>2, <1>5, Zenon DEF ByteInv
<1> QED
  BY <1>3, <1>4, <1>6, Zenon DEF ByteInv

(* The peer sends a record. *)
LEMMA BytesSent ==
  ASSUME NEW off, ByteInv(off), StreamTypeOK, NEW kind \in Kinds,
         NEW k \in Payloads \cup {0}, SendHeader(kind, k)
  PROVE  \E o : ByteInv(o)'
<1> DEFINE data == [i \in 1..k |-> sent + i - 1]
           h == Piece("head", kind, nrec, enc, <<>>)
           b == Piece("body", kind, nrec, enc, data)
<1>1. Arriving' = Arriving \o <<h, b>> /\ Arriving \in Seq(Pieces)
  BY RecordArrives
<1>2. k \in Nat /\ data \in Seq(Nat) /\ Len(data) = k /\ h \in Pieces /\ b \in Pieces
  BY Zenon, SentPieces
<1>3. h.data = <<>> /\ b.data = data
  BY DEF Piece
<1>4. Counts(data, sent)
  BY <1>2 DEF Counts
<1>5. sent \in Nat /\ sent' = sent + k /\ UNCHANGED <<delivered, pkt, plain, cut, phase>>
  BY DEF SendHeader, readVars, StreamTypeOK
<1>6. Numbered(Arriving, off, sent) /\ Ordered(delivered, pkt, plain, off[1])
  BY DEF ByteInv
<1> HIDE DEF data, h, b
<1>7. PICK o : Numbered(Arriving', o, sent') /\ o[1] = off[1]
  <2>1. Counts(b.data, sent) /\ sent' = sent + Len(b.data)
    BY <1>2, <1>3, <1>4, <1>5, Zenon
  <2>2. \E o : Numbered(Arriving \o <<h, b>>, o, sent + Len(b.data)) /\ o[1] = off[1]
    <3>1. ASSUME NEW w \in Seq(Pieces), Numbered(w, off, sent)
          PROVE  \E o : Numbered(w \o <<h, b>>, o, sent + Len(b.data)) /\ o[1] = off[1]
      <4>1. sent \in Nat
        BY <1>5, Zenon
      <4>2. h \in Pieces /\ b \in Pieces /\ h.data = <<>> /\ Counts(b.data, sent)
        BY <1>2, <1>3, <2>1, Zenon
      <4> QED
        BY <3>1, <4>1, <4>2, NumberedGrows, ZenonT(40)
    <3> QED
      BY <1>1, <1>6, <3>1, Zenon
  <2> QED
    BY <1>1, <2>1, <2>2, Zenon
<1>8. Ordered(delivered', pkt', plain', o[1])
  BY <1>5, <1>6, <1>7
<1>9. ~cut' => Intact(o[1])'
  <2>1. Base' = Base /\ \A i : PacketAt(i)' = PacketAt(i)
    BY <1>5 DEF Base, PacketAt
  <2>2. ~cut' => Intact(o[1])
    BY <1>5, <1>7, Zenon DEF ByteInv
  <2> QED
    BY <1>5, <2>1, <2>2, Zenon DEF Intact, Live
<1> QED
  BY <1>7, <1>8, <1>9, Zenon DEF ByteInv

(* Every step keeps the order and, while no read is cut, the bytes. *)
LEMMA ByteStep ==
  ASSUME NEW off, ByteInv(off), StreamTypeOK, FrameInv, [StreamNext]_streamVars
  PROVE  \E o : ByteInv(o)'
<1> USE DEF readVars, peerVars
<1>1. CASE FetchHeader
  <2>1. /\ wire # <<>> /\ wire' = Tail(wire) /\ Len(record) # 1 /\ phase' = phase
        /\ UNCHANGED <<tail, sent, delivered, pkt, plain, cut>>
    BY <1>1 DEF FetchHeader
  <2>2. ASSUME ~cut PROVE Head(wire).data = <<>>
    <3>1. Arriving \in Seq(Pieces) /\ Arriving # <<>> /\ Arriving[1] = Head(wire)
      BY <2>1, PieceTaken
    <3>2. 1 \in 1..Len(Arriving)
      BY <3>1
    <3>3. Arriving[1].part = "head" /\ PieceOK(Arriving[1])
      BY <2>1, <2>2, <3>1, <3>2 DEF FrameInv, Framed, InStep
    <3> QED
      BY <3>1, <3>3 DEF PieceOK
  <2>3. Live' => Live
    BY <2>1 DEF Live
  <2> QED
    BY <2>1, <2>2, <2>3, BytesPassed
<1>2. CASE EndOfStream
  <2>1. UNCHANGED <<wire, tail, sent, delivered, pkt, plain, cut>> /\ phase' \in {"eof", "failed"}
    BY <1>2 DEF EndOfStream
  <2>2. Arriving' = Arriving /\ ~Live'
    BY <2>1 DEF Arriving, Live
  <2> QED
    BY <2>1, <2>2, BytesSame
<1>3. CASE Copy
  BY <1>3, BytesCopied
<1>4. ASSUME NEW type \in Types, HelloRecord(type) PROVE \E o : ByteInv(o)'
  <2>1. /\ Fetched(type) /\ wire # <<>> /\ wire' = Tail(wire)
        /\ UNCHANGED <<tail, sent, delivered, pkt, plain, cut>>
        /\ phase \in {"hello1", "hello2"} /\ (phase' # "failed" => type \in {"ccs", "handshake"})
    BY <1>4 DEF HelloRecord, Fetched
  <2>2. ASSUME ~cut, Live' PROVE Head(wire).data = <<>>
    <3>1. type \in {"ccs", "handshake"}
      BY <2>1, <2>2 DEF Live
    <3> QED
      BY <2>1, <2>2, <3>1, FetchedType
  <2>3. Live
    BY <2>1 DEF Live
  <2> QED
    BY <2>1, <2>2, <2>3, BytesPassed
<1>5. ASSUME NEW type \in Types, FinishedRecord(type) PROVE \E o : ByteInv(o)'
  <2>1. /\ Fetched(type) /\ wire # <<>> /\ wire' = Tail(wire)
        /\ UNCHANGED <<tail, sent, delivered, pkt, plain, cut>>
        /\ phase = "finished"
        /\ phase' # "failed" => type = "ccs" \/ record[1].kind = "finished"
    BY Zenon, <1>5 DEF FinishedRecord, Fetched
  <2>2. ASSUME ~cut, Live' PROVE Head(wire).data = <<>>
    <3>1. type = "ccs" \/ record[1].kind = "finished"
      BY <2>1, <2>2 DEF Live
    <3> QED
      BY <2>1, <2>2, <3>1, FetchedType
  <2>3. Live
    BY <2>1 DEF Live
  <2> QED
    BY SMTT(40), <2>1, <2>2, <2>3, BytesPassed
<1>6. ASSUME NEW type \in Types, DataRecord(type) PROVE \E o : ByteInv(o)'
  <2>1. /\ Fetched(type) /\ wire # <<>> /\ wire' = Tail(wire) /\ plain = <<>>
        /\ UNCHANGED <<tail, sent, delivered, pkt, cut>> /\ phase = "open"
    BY <1>6 DEF DataRecord, Fetched, Fetching
  <2>2. Live
    BY <2>1 DEF Live
  <2>3. \/ plain' = record'[2].data
        \/ plain' = plain /\ (phase' \notin {"eof", "failed"} => type = "ccs")
    BY <1>6, Zenon DEF DataRecord
  <2>4. CASE plain' = record'[2].data
    <3>1. plain' = Head(wire).data
      BY <2>1, <2>4, FetchedTypes
    <3> QED
      BY <2>1, <2>2, <3>1, BytesRefill
  <2>5. CASE plain' = plain /\ (phase' \notin {"eof", "failed"} => type = "ccs")
    <3>1. ASSUME ~cut, Live' PROVE Head(wire).data = <<>>
      <4>1. type = "ccs"
        BY <2>5, <3>1 DEF Live
      <4> QED
        BY <2>1, <3>1, <4>1, FetchedType
    <3> QED
      BY <2>1, <2>2, <2>5, <3>1, BytesPassed
  <2> QED
    BY SMTT(40), <2>3, <2>4, <2>5
<1>7. ASSUME NEW kind \in Kinds, NEW k \in Payloads \cup {0}, SendHeader(kind, k)
      PROVE  \E o : ByteInv(o)'
  BY <1>7, BytesSent
<1>8. CASE SendBody
  <2>1. /\ wire' = wire \o tail /\ tail' = <<>>
        /\ UNCHANGED <<sent, delivered, pkt, plain, cut>> /\ phase' = phase
    BY <1>8 DEF SendBody
  <2>2. wire \in Seq(Pieces) /\ tail \in Seq(Pieces)
    BY DEF StreamTypeOK
  <2>3. Arriving' = Arriving
    BY <2>1, <2>2 DEF Arriving
  <2>4. Live' => Live
    BY <2>1 DEF Live
  <2> QED
    BY <2>1, <2>3, <2>4, BytesSame
<1>9. CASE PeerCloses
  <2>1. UNCHANGED <<wire, tail, sent, delivered, pkt, plain, cut, phase>>
    BY <1>9 DEF PeerCloses
  <2> QED
    BY <2>1, BytesSame DEF Arriving, Live
<1>10. CASE WakeUp
  <2>1. /\ UNCHANGED <<wire, tail, sent, delivered, plain, phase>> /\ pkt' = <<>>
        /\ cut' = (cut \/ pkt # <<>> \/ Len(record) = 1)
    BY <1>10 DEF WakeUp, ReadPending
  <2>2. Arriving' = Arriving
    BY <2>1 DEF Arriving
  <2>3. Ordered(delivered', pkt', plain', off[1])
    BY <2>1, DropOrdered DEF ByteInv
  <2>4. ~cut' => Intact(off[1])'
    <3>1. Base' = Base /\ \A i : PacketAt(i)' = PacketAt(i)
      BY <2>1 DEF Base, PacketAt
    <3>2. ~cut' => pkt' = pkt /\ Intact(off[1])
      BY <2>1, Zenon DEF ByteInv
    <3> QED
      BY <2>1, <3>1, <3>2, Zenon DEF Intact, Live
  <2>5. Numbered(Arriving', off, sent')
    BY <2>1, <2>2 DEF ByteInv
  <2> QED
    BY <2>3, <2>4, <2>5, Zenon DEF ByteInv
<1>11. CASE Misread \/ ConnectTimeout
  <2>1. UNCHANGED <<wire, tail, sent, delivered, pkt, plain, cut>> /\ phase' = "failed"
    BY <1>11 DEF Misread, ConnectTimeout, ReadPending
  <2>2. Arriving' = Arriving /\ ~Live'
    BY <2>1 DEF Arriving, Live
  <2> QED
    BY <2>1, <2>2, BytesSame
<1>12. CASE UNCHANGED streamVars
  <2>1. UNCHANGED <<wire, tail, sent, delivered, pkt, plain, cut, phase>>
    BY <1>12 DEF streamVars
  <2> QED
    BY <2>1, BytesSame DEF Arriving, Live
<1> QED
  BY <1>1, <1>2, <1>3, <1>4, <1>5, <1>6, <1>7, <1>8, <1>9, <1>10, <1>11, <1>12,
     StreamCases, Zenon
-----------------------------------------------------------------------------
(* A connection that was just accepted. *)
LEMMA StreamInitInv == StreamInit => StreamInv
<1> SUFFICES ASSUME StreamInit PROVE StreamInv
  OBVIOUS
<1> USE DEF StreamInit
<1>1. StreamTypeOK
  <2>1. /\ wire \in Seq(Pieces) /\ tail \in Seq(Pieces) /\ record \in Seq(Pieces)
        /\ plain \in Seq(Nat) /\ pkt \in Seq(Nat) /\ delivered \in Seq(Seq(Nat))
    OBVIOUS
  <2>2. Len(record) = 0 /\ Len(pkt) = 0
    OBVIOUS
  <2>3. Len(record) <= 2 /\ Len(pkt) < PacketLen
    BY <2>2, StreamConstantsOK
  <2>4. {nrec, sent, enc, decrypted} \subseteq Nat
    OBVIOUS
  <2> QED
    BY <2>1, <2>3, <2>4, Zenon DEF StreamTypeOK
<1>2. Arriving = <<>>
  BY DEF Arriving
<1>3. FrameInv
  <2>1. Framed(<<>>)
    BY DEF Framed
  <2>2. Len(record) = 0
    OBVIOUS
  <2> QED
    BY <1>2, <2>1, <2>2 DEF FrameInv, InStep
<1>4. EofIsReal
  BY DEF EofIsReal
<1>5. ByteInv([i \in {1} |-> 0])
  <2> DEFINE off == [i \in {1} |-> 0]
  <2>1. off \in [1..1 -> Nat] /\ off[1] = 0
    OBVIOUS
  <2> HIDE DEF off
  <2>2. Numbered(Arriving, off, sent)
    <3>1. Len(Arriving) = 0
      BY <1>2
    <3>2. Len(Arriving) + 1 = 1 /\ 1..Len(Arriving) = {}
      BY <3>1
    <3> QED
      BY <2>1, <3>2 DEF Numbered
  <2>3. Ordered(delivered, pkt, plain, off[1])
    BY DEF Ordered, Increasing, Below, Under
  <2>4. Intact(off[1])
    <3>1. Len(delivered) = 0 /\ Len(pkt) = 0 /\ Len(plain) = 0
      OBVIOUS
    <3>2. Base = 0
      BY <3>1, StreamConstantsOK DEF Base
    <3> QED
      BY <2>1, <3>1, <3>2 DEF Intact, Counts
  <2>5. ByteInv(off)
    BY <2>2, <2>3, <2>4, Zenon DEF ByteInv
  <2> QED
    BY <2>5 DEF off
<1> QED
  BY <1>1, <1>3, <1>4, <1>5, Zenon DEF StreamInv

(* The inductive invariant holds in every state. *)
LEMMA StreamInvariant == StreamSpec => []StreamInv
<1>1. StreamInv /\ [StreamNext]_streamVars => StreamInv'
  <2> SUFFICES ASSUME StreamInv, [StreamNext]_streamVars PROVE StreamInv'
    OBVIOUS
  <2>1. PICK off : ByteInv(off)
    BY Zenon DEF StreamInv
  <2>2. StreamTypeOK /\ FrameInv /\ EofIsReal
    BY Zenon DEF StreamInv
  <2>3. \E o : ByteInv(o)'
    BY <2>1, <2>2, ByteStep
  <2>4. StreamTypeOK' /\ FrameInv' /\ EofIsReal'
    BY <2>2, StreamTypeStep, FrameStep, EofStep, Zenon
  <2> QED
    BY <2>3, <2>4, Zenon DEF StreamInv
<1> QED
  BY <1>1, StreamInitInv, PTL DEF StreamSpec

(* While no read is cut, read_packet returns the packets that were sent, in *)
(* order and once each, however they are split over records: for every      *)
(* packet length, number of records and payload.                            *)
THEOREM PacketsArriveIntact == StreamSpec => []PacketsIntact
<1>1. StreamInv => PacketsIntact
  <2> SUFFICES ASSUME StreamInv, ~cut, NEW i \in DOMAIN delivered
               PROVE  delivered[i] = PacketAt(i)
    BY DEF PacketsIntact
  <2>1. PICK off : ByteInv(off)
    BY Zenon DEF StreamInv
  <2>2. delivered \in Seq(Seq(Nat))
    BY DEF StreamInv, StreamTypeOK
  <2> QED
    BY <2>1, <2>2 DEF ByteInv, Intact
<1> QED
  BY <1>1, StreamInvariant, PTL

(* Whatever is cut, no byte is repeated or reordered on the way from the    *)
(* records to the packets.                                                  *)
THEOREM BytesKeepOrder == StreamSpec => []OrderKept
<1>1. StreamInv => OrderKept
  <2> SUFFICES ASSUME StreamInv PROVE OrderKept
    OBVIOUS
  <2>1. PICK off : Ordered(delivered, pkt, plain, off[1])
    BY Zenon DEF StreamInv, ByteInv
  <2> DEFINE all == delivered \o <<pkt, plain>>
             n == Len(delivered)
  <2>2. delivered \in Seq(Seq(Nat)) /\ pkt \in Seq(Nat) /\ plain \in Seq(Nat)
    BY DEF StreamInv, StreamTypeOK
  <2>3. /\ n \in Nat /\ DOMAIN all = 1..n + 2 /\ all[n + 1] = pkt /\ all[n + 2] = plain
        /\ \A i \in 1..n : all[i] = delivered[i]
        /\ \A i \in 1..n + 2 : all[i] \in Seq(Nat)
    <3>1. <<pkt, plain>> \in Seq(Seq(Nat)) /\ Len(<<pkt, plain>>) = 2
      BY <2>2
    <3>2. /\ all \in Seq(Seq(Nat)) /\ Len(all) = n + 2 /\ n \in Nat
          /\ \A i \in 1..n : all[i] = delivered[i]
      BY <2>2, <3>1
    <3>3. all[n + 1] = pkt /\ all[n + 2] = plain
      BY <2>2
    <3> HIDE DEF all, n
    <3> QED
      BY <3>2, <3>3
  <2> HIDE DEF all, n
  <2>4. \A i \in 1..n + 2 : i \in 1..n \/ i = n + 1 \/ i = n + 2
    BY SMTT(40), <2>3
  <2>5. \A i \in 1..n + 2 : Increasing(all[i])
    BY SMTT(40), <2>1, <2>3, <2>4 DEF Ordered, n
  <2>6. ASSUME NEW i \in 1..n + 2, NEW j \in 1..n + 2, i < j PROVE Below(all[i], all[j])
    <3>1. CASE i \in 1..n /\ j \in 1..n
      BY SMTT(40), <2>1, <2>3, <2>6, <3>1 DEF Ordered, n
    <3>2. CASE i \in 1..n /\ j \in {n + 1, n + 2}
      BY SMTT(40), <2>1, <2>3, <3>2 DEF Ordered, n
    <3>3. CASE i = n + 1
      <4>1. j = n + 2
        BY <2>3, <2>4, <2>6, <3>3
      <4> QED
        BY <2>1, <2>3, <3>3, <4>1 DEF Ordered
    <3> QED
      BY SMTT(40), <2>3, <2>4, <2>6, <3>1, <3>2, <3>3
  <2>7. \A i \in 1..n + 2 : DOMAIN all[i] = 1..Len(all[i])
    BY <2>3
  <2>8. ASSUME NEW i \in 1..n + 2, NEW j \in 1..n + 2,
               NEW k \in DOMAIN all[i], NEW l \in DOMAIN all[j], i < j \/ (i = j /\ k < l)
        PROVE  all[i][k] < all[j][l]
    <3>1. k \in 1..Len(all[i]) /\ l \in 1..Len(all[j])
      BY <2>7
    <3>2. CASE i < j
      BY <2>6, <3>1, <3>2, Zenon DEF Below
    <3>3. CASE i = j /\ k < l
      BY <2>5, <3>1, <3>3, Zenon DEF Increasing
    <3> QED
      BY <2>8, <3>2, <3>3
  <2> QED
    BY <2>3, <2>8, Zenon DEF OrderKept, all
<1> QED
  BY <1>1, StreamInvariant, PTL

(* While no read is cut, the end of the stream is reported only after the   *)
(* peer closed it, sent an alert or a record without data.                  *)
THEOREM EofComesFromPeer == StreamSpec => []EofIsReal
<1>1. StreamInv => EofIsReal
  BY Zenon DEF StreamInv
<1> QED
  BY <1>1, StreamInvariant, PTL

(* What fetch_record's comment says, that record_buf holds the full record, *)
(* is true as long as no read is cut.                                       *)
THEOREM RecordsWholeUncut == StreamSpec => [](~cut => RecordWhole)
<1>1. StreamInv => (~cut => RecordWhole)
  BY Zenon DEF StreamInv, FrameInv, RecordWhole
<1> QED
  BY <1>1, StreamInvariant, PTL
=============================================================================
