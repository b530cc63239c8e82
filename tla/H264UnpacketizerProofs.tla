----------------------- MODULE H264UnpacketizerProofs -----------------------
(***************************************************************************)
(* Theorems about H264Unpacketizer, for every buffer size and every set of *)
(* payloads.                                                               *)
(***************************************************************************)
EXTENDS H264Losses, SequenceTheorems, FiniteSetTheorems, TLAPS

Lists == INSTANCE LinkedListTheorems

(* sum[k] is size[1] + ... + size[k]. *)
Sums(sum, size, n) ==
  /\ sum \in [0 .. n -> Nat]
  /\ sum[0] = 0
  /\ \A k \in 1 .. n : sum[k] = sum[k-1] + size[k]

(* What the recursive function of Total computes. *)
LEMMA TotalIs ==
  ASSUME NEW n \in Nat, NEW size, \A k \in 1 .. n : size[k] \in Nat
  PROVE  \E sum : Sums(sum, size, n) /\ Total(size, n) = sum[n]
<1> DEFINE I == {m \in Nat : m <= n => \E sum : Sums(sum, size, m)}
<1>1. 0 \in I
  <2> DEFINE zero == [k \in 0 .. 0 |-> 0]
  <2>1. Sums(zero, size, 0)
    BY DEF Sums
  <2> QED
    BY <2>1
<1>2. ASSUME NEW m \in Nat, m \in I PROVE m + 1 \in I
  <2> SUFFICES ASSUME m + 1 <= n PROVE \E sum : Sums(sum, size, m + 1)
    OBVIOUS
  <2>1. PICK sum : Sums(sum, size, m)
    BY <1>2
  <2> DEFINE more == [k \in 0 .. m + 1 |-> IF k <= m THEN sum[k] ELSE sum[m] + size[m+1]]
  <2>2. size[m+1] \in Nat
    OBVIOUS
  <2>3. more \in [0 .. m + 1 -> Nat] /\ more[0] = 0
    BY <2>1, <2>2 DEF Sums
  <2>4. ASSUME NEW k \in 1 .. m + 1 PROVE more[k] = more[k-1] + size[k]
    <3>1. CASE k <= m
      BY <2>1, <3>1 DEF Sums
    <3>2. CASE k = m + 1
      BY <3>2
    <3> QED
      BY <3>1, <3>2
  <2>5. Sums(more, size, m + 1)
    <3> HIDE DEF more
    <3> QED BY <2>3, <2>4 DEF Sums
  <2> QED
    BY <2>5
<1>3. Nat \subseteq I
  <2> HIDE DEF I
  <2> QED BY <1>1, <1>2, Lists!SetInduction
<1>4. PICK sum : Sums(sum, size, n)
  BY <1>3
<1> DEFINE Step(up) == [k \in 0 .. n |-> IF k = 0 THEN 0 ELSE up[k-1] + size[k]]
           upto == CHOOSE up : up = Step(up)
<1>5. sum = Step(sum)
  BY <1>4 DEF Sums
<1>6. upto = Step(upto)
  <2> HIDE DEF Step
  <2> QED BY <1>5
<1> HIDE DEF upto
<1> DEFINE J == {m \in Nat : m <= n => upto[m] = sum[m]}
<1>7. 0 \in J
  BY <1>4, <1>6 DEF Sums
<1>8. ASSUME NEW m \in Nat, m \in J PROVE m + 1 \in J
  BY <1>4, <1>6, <1>8 DEF Sums
<1>9. Nat \subseteq J
  <2> HIDE DEF J
  <2> QED BY <1>7, <1>8, Lists!SetInduction
<1>10. Total(size, n) = upto[n]
  BY DEF Total, upto
<1> QED
  BY <1>4, <1>9, <1>10

(* The sum of two parts; one size, and none. *)
TwoParts(both, left, m, right, n) ==
  /\ \A k \in 1 .. m : left[k] \in Nat /\ both[k] = left[k]
  /\ \A k \in 1 .. n : right[k] \in Nat /\ both[m+k] = right[k]

LEMMA TotalSplit ==
  ASSUME NEW m \in Nat, NEW n \in Nat, NEW both, NEW left, NEW right,
         TwoParts(both, left, m, right, n)
  PROVE  /\ Total(left, m) \in Nat /\ Total(right, n) \in Nat
         /\ Total(both, m + n) = Total(left, m) + Total(right, n)
<1> USE DEF TwoParts
<1>1. PICK u : Sums(u, left, m) /\ Total(left, m) = u[m]
  BY TotalIs
<1>2. PICK v : Sums(v, right, n) /\ Total(right, n) = v[n]
  BY TotalIs
<1>3. \A k \in 1 .. m + n : both[k] \in Nat
  <2> TAKE k \in 1 .. m + n
  <2>1. CASE k <= m
    BY <2>1
  <2>2. CASE k > m
    <3>1. k - m \in 1 .. n /\ m + (k - m) = k
      BY <2>2
    <3> QED
      BY <3>1
  <2> QED
    BY <2>1, <2>2
<1>4. PICK w : Sums(w, both, m + n) /\ Total(both, m + n) = w[m+n]
  <2>1. m + n \in Nat
    OBVIOUS
  <2> QED
    BY <1>3, <2>1, TotalIs
<1> DEFINE I == {k \in Nat : k <= m => w[k] = u[k]}
           J == {k \in Nat : k <= n => w[m+k] = u[m] + v[k]}
<1>5. 0 \in I
  BY <1>1, <1>4 DEF Sums
<1>6. ASSUME NEW k \in Nat, k \in I PROVE k + 1 \in I
  <2> SUFFICES ASSUME k + 1 <= m PROVE w[k+1] = u[k+1]
    OBVIOUS
  <2>1. k + 1 \in 1 .. m /\ k + 1 \in 1 .. m + n /\ (k + 1) - 1 = k
    OBVIOUS
  <2>2. w[k+1] = w[k] + both[k+1] /\ u[k+1] = u[k] + left[k+1]
    BY <1>1, <1>4, <2>1 DEF Sums
  <2> QED
    BY <1>6, <2>1, <2>2
<1>7. Nat \subseteq I
  <2> HIDE DEF I
  <2> QED BY <1>5, <1>6, Lists!SetInduction
<1>8. 0 \in J
  <2>1. w[m] = u[m] /\ u[m] \in Nat /\ v[0] = 0
    BY <1>1, <1>2, <1>7 DEF Sums
  <2> QED
    BY <2>1
<1>9. ASSUME NEW k \in Nat, k \in J PROVE k + 1 \in J
  <2> SUFFICES ASSUME k + 1 <= n PROVE w[m+(k+1)] = u[m] + v[k+1]
    OBVIOUS
  <2>1. k + 1 \in 1 .. n /\ m + (k + 1) \in 1 .. m + n
        /\ (k + 1) - 1 = k /\ (m + (k + 1)) - 1 = m + k
    OBVIOUS
  <2>2. w[m+(k+1)] = w[m+k] + both[m+(k+1)] /\ v[k+1] = v[k] + right[k+1]
    BY <1>2, <1>4, <2>1 DEF Sums
  <2>3. both[m+(k+1)] = right[k+1] /\ right[k+1] \in Nat
    BY <2>1
  <2>4. u[m] \in Nat /\ v[k] \in Nat
    BY <1>1, <1>2 DEF Sums
  <2> QED
    BY <1>9, <2>2, <2>3, <2>4
<1>10. Nat \subseteq J
  <2> HIDE DEF J
  <2> QED BY <1>8, <1>9, Lists!SetInduction
<1>11. u[m] \in Nat /\ v[n] \in Nat
  BY <1>1, <1>2 DEF Sums
<1> QED
  BY <1>1, <1>2, <1>4, <1>10, <1>11

LEMMA TotalShort ==
  ASSUME NEW size
  PROVE  Total(size, 0) = 0 /\ (size[1] \in Nat => Total(size, 1) = size[1])
<1>1. Total(size, 0) = 0
  <2>1. \A k \in 1 .. 0 : size[k] \in Nat
    OBVIOUS
  <2>2. PICK sum : Sums(sum, size, 0) /\ Total(size, 0) = sum[0]
    BY <2>1, TotalIs
  <2> QED
    BY <2>2 DEF Sums
<1>2. ASSUME size[1] \in Nat PROVE Total(size, 1) = size[1]
  <2>1. \A k \in 1 .. 1 : size[k] \in Nat
    BY <1>2
  <2>2. PICK sum : Sums(sum, size, 1) /\ Total(size, 1) = sum[1]
    BY <2>1, TotalIs
  <2>3. sum[1] = sum[0] + size[1] /\ sum[0] = 0
    BY <2>2 DEF Sums
  <2> QED
    BY <1>2, <2>2, <2>3
<1> QED
  BY <1>1, <1>2

(* Two more for each of n. *)
LEMMA TotalMore ==
  ASSUME NEW n \in Nat, NEW size, NEW more,
         \A k \in 1 .. n : size[k] \in Nat /\ more[k] = size[k] + 2
  PROVE  Total(size, n) \in Nat /\ Total(more, n) = Total(size, n) + 2 * n
<1>1. PICK u : Sums(u, size, n) /\ Total(size, n) = u[n]
  BY TotalIs
<1>2. PICK v : Sums(v, more, n) /\ Total(more, n) = v[n]
  <2>1. \A k \in 1 .. n : more[k] \in Nat
    OBVIOUS
  <2> QED
    BY <2>1, TotalIs
<1> DEFINE I == {k \in Nat : k <= n => v[k] = u[k] + 2 * k}
<1>3. 0 \in I
  BY <1>1, <1>2 DEF Sums
<1>4. ASSUME NEW k \in Nat, k \in I PROVE k + 1 \in I
  <2> SUFFICES ASSUME k + 1 <= n PROVE v[k+1] = u[k+1] + 2 * (k + 1)
    OBVIOUS
  <2>1. k + 1 \in 1 .. n /\ (k + 1) - 1 = k
    OBVIOUS
  <2>2. v[k+1] = v[k] + more[k+1] /\ u[k+1] = u[k] + size[k+1] /\ u[k] \in Nat
    BY <1>1, <1>2, <2>1 DEF Sums
  <2> QED
    BY <1>4, <2>1, <2>2
<1>5. Nat \subseteq I
  <2> HIDE DEF I
  <2> QED BY <1>3, <1>4, Lists!SetInduction
<1> QED
  BY <1>1, <1>2, <1>5 DEF Sums
-----------------------------------------------------------------------------
(***************************************************************************)
(* The sync point lies in the bitstream, unless the bitstream is empty: an *)
(* empty one is where a stale sync point is left behind, and where the     *)
(* next call forgets it.                                                   *)
(***************************************************************************)
SyncInside == bits # <<>> => last_sync_pos <= Len(bits)

IInv == TypeOK /\ SyncInside /\ SyncNeverAhead

LEMMA SyncPos ==
  ASSUME TypeOK, SyncInside
  PROVE  sync_pos \in 0 .. Len(bits)
BY DEF TypeOK, SyncInside, sync_pos, bits_pos

(* The pieces that a payload appends are pieces. *)
LEMMA PieceTypes ==
  ASSUME NEW p \in Payload
  PROVE  /\ p.kind = "SINGLE" => Start(p.nal) \in Piece
         /\ p.kind = "STAP_A" => StapPieces(p) \in Seq(Piece)
                                 /\ Len(StapPieces(p)) = Len(p.nals)
         /\ p.kind = "FU_A" => FuPieces(p) \in Seq(Piece)
<1>1. p.kind = "SINGLE" => Start(p.nal) \in Piece
  BY DEF Payload, SinglePayload, StapPayload, FuPayload, OtherPayload, ShortPayload,
     Start, Piece
<1>2. ASSUME p.kind = "STAP_A"
      PROVE  StapPieces(p) \in Seq(Piece) /\ Len(StapPieces(p)) = Len(p.nals)
  <2>1. p.nals \in Seq(Seq(Byte))
    BY <1>2 DEF Payload, SinglePayload, StapPayload, FuPayload, OtherPayload, ShortPayload
  <2>2. \A k \in 1 .. Len(p.nals) : Start(p.nals[k]) \in Piece
    BY <2>1 DEF Start, Piece
  <2>3. StapPieces(p) = [k \in 1 .. Len(p.nals) |-> Start(p.nals[k])]
    BY <2>1 DEF StapPieces
  <2>4. QED
    BY <2>1, <2>2, <2>3
<1>3. ASSUME p.kind = "FU_A"
      PROVE  FuPieces(p) \in Seq(Piece)
  <2>1. p.octet \in Byte /\ p.S \in BOOLEAN /\ p.data \in Seq(Byte)
    BY <1>3 DEF Payload, SinglePayload, StapPayload, FuPayload, OtherPayload, ShortPayload
  <2>2. <<p.octet>> \o p.data \in Seq(Byte)
    BY <2>1
  <2>3. Start(<<p.octet>> \o p.data) \in Piece /\ More(p.data) \in Piece
    BY <2>1, <2>2 DEF Start, More, Piece
  <2>4. CASE p.S
    BY <2>3, <2>4 DEF FuPieces
  <2>5. CASE ~ p.S
    BY <2>3, <2>5 DEF FuPieces
  <2>6. QED
    BY <2>4, <2>5
<1>4. QED
  BY <1>1, <1>2, <1>3
(* The NAL units of an aggregate that the loop takes are its first ones. *)
LEMMA StapFront ==
  ASSUME NEW p \in Payload, p.kind = "STAP_A"
  PROVE  /\ p.nals \in Seq(Seq(Byte)) /\ p.invalid \in Nat
         /\ StapTaken(p) \in 0 .. Len(p.nals)
         /\ SubSeq(StapPieces(p), 1, StapTaken(p)) \in Seq(Piece)
         /\ Len(SubSeq(StapPieces(p), 1, StapTaken(p))) = StapTaken(p)
         /\ \A k \in 1 .. StapTaken(p) : SubSeq(StapPieces(p), 1, StapTaken(p))[k].start
<1>1. p.nals \in Seq(Seq(Byte)) /\ p.invalid \in Nat
  BY DEF Payload, SinglePayload, StapPayload, FuPayload, OtherPayload, ShortPayload
<1>2. PICK n \in Nat : n = Len(p.nals) /\ DOMAIN p.nals = 1 .. n
  BY <1>1
<1> DEFINE roomy == {k \in DOMAIN p.nals : StapLeft(p, k - 1) > 0}
<1>3. StapTaken(p) \in 0 .. n
  <2>1. roomy \subseteq 1 .. n
    BY <1>2
  <2>2. IsFiniteSet(1 .. n) /\ Cardinality(1 .. n) = n
    <3>1. 1 \in Int /\ n \in Int
      BY <1>2
    <3>2. /\ IsFiniteSet(1 .. n)
          /\ Cardinality(1 .. n) = IF 1 > n THEN 0 ELSE n - 1 + 1
      BY <3>1, FS_Interval
    <3> QED
      BY <3>1, <3>2
  <2> HIDE DEF roomy
  <2>3. Cardinality(roomy) <= n /\ Cardinality(roomy) \in Nat
    BY <2>1, <2>2, FS_Subset, FS_CardinalityType
  <2> QED
    BY <2>3 DEF StapTaken, roomy
<1>4. StapPieces(p) \in Seq(Piece) /\ Len(StapPieces(p)) = n
  BY <1>2, PieceTypes
<1>5. \A k \in 1 .. n : StapPieces(p)[k].start
  BY <1>2 DEF StapPieces, Start
<1> DEFINE pieces == StapPieces(p)
           taken  == StapTaken(p)
<1> HIDE DEF pieces, taken
<1>6. /\ SubSeq(pieces, 1, taken) \in Seq(Piece)
      /\ Len(SubSeq(pieces, 1, taken)) = taken
      /\ \A k \in 1 .. taken : SubSeq(pieces, 1, taken)[k] = pieces[k]
  <2>1. taken \in 0 .. n /\ pieces \in Seq(Piece) /\ Len(pieces) = n
    BY <1>3, <1>4 DEF pieces, taken
  <2> QED
    BY <2>1, SubSeqProperties
<1> QED
  BY <1>1, <1>2, <1>3, <1>5, <1>6 DEF pieces, taken
-----------------------------------------------------------------------------
LEMMA InvInit == Init => IInv
<1>1. SUFFICES ASSUME Init PROVE IInv
  OBVIOUS
<1>2. prev_lost \in BOOLEAN
  BY <1>1 DEF Init
<1>3. bits = <<>> /\ last_sync_pos = 0 /\ status = "SUCCESS"
  BY <1>1 DEF Init
<1>4. bits \in Seq(Piece)
  BY <1>3
<1>5. QED
  BY <1>2, <1>3, <1>4 DEF IInv, TypeOK, SyncInside, SyncNeverAhead, Statuses

LEMMA InvStep == IInv /\ [Next]_vars => IInv'
<1>1. SUFFICES ASSUME IInv, [Next]_vars PROVE IInv'
  OBVIOUS
<1>2. TypeOK /\ SyncInside /\ SyncNeverAhead /\ sync_pos \in 0 .. Len(bits)
  BY <1>1, SyncPos DEF IInv
<1>3. bits \in Seq(Piece) /\ Len(bits) \in Nat /\ prev_lost \in BOOLEAN
      /\ last_sync_pos \in Nat /\ status \in Statuses
  BY <1>2 DEF TypeOK
<1>4. CASE UNCHANGED vars
  BY <1>2, <1>4 DEF IInv, vars, TypeOK, SyncInside, SyncNeverAhead
<1>5. CASE Lost
  BY <1>2, <1>5 DEF IInv, Lost, TypeOK, SyncInside, SyncNeverAhead, Statuses
<1>6. CASE NextPicture
  BY <1>2, <1>6 DEF IInv, NextPicture, TypeOK, SyncInside, SyncNeverAhead
<1>7. ASSUME Abort("NO_ROOM") PROVE IInv'
  BY <1>2, <1>3, <1>7 DEF IInv, Abort, TypeOK, SyncInside, SyncNeverAhead, Statuses
<1>8. ASSUME NEW p \in Payloads, Unpacketize(p) PROVE IInv'
  <2>1. p \in Payload
    BY PayloadsAssumption
  <2>2. CASE Short(p)
    BY <1>2, <2>2 DEF IInv, Short, TypeOK, SyncInside, SyncNeverAhead, Statuses
  <2>3. CASE NotSupported(p)
    BY <1>2, <1>3, <2>3
       DEF IInv, NotSupported, TypeOK, SyncInside, SyncNeverAhead, Statuses
  <2>4. CASE SingleNal(p)
    <3>1. CASE Abort("NO_ROOM")
      BY <1>7, <3>1
    <3>2. CASE /\ bits' = Append(bits, Start(p.nal)) /\ last_sync_pos' = Len(bits')
               /\ prev_lost' = FALSE /\ status' = "SUCCESS"
      <4>1. Start(p.nal) \in Piece
        BY <2>1, <2>4, PieceTypes DEF SingleNal
      <4>2. bits' \in Seq(Piece) /\ Len(bits') \in Nat
        BY <1>3, <3>2, <4>1
      <4>3. prev_lost' \in BOOLEAN
        BY <3>2
      <4>4. QED
        BY <3>2, <4>2, <4>3 DEF IInv, TypeOK, SyncInside, SyncNeverAhead, Statuses
    <3>3. QED
      BY <2>4, <3>1, <3>2 DEF SingleNal
  <2>5. CASE StapA(p)
    <3>1. CASE ~ StapHasRoom(p)
      BY <1>7, <2>5, <3>1 DEF StapA
    <3>2. CASE StapHasRoom(p)
      <4> DEFINE front == SubSeq(StapPieces(p), 1, StapTaken(p))
      <4>1. /\ bits' = bits \o front
            /\ last_sync_pos' = IF p.nals = <<>> THEN sync_pos ELSE Len(bits')
            /\ prev_lost' \in BOOLEAN /\ status' \in {"SUCCESS", "EINVAL", "OVERRUN"}
        BY <1>3, <2>5, <3>2 DEF StapA
      <4>2. front \in Seq(Piece)
        BY <2>1, <2>5, StapFront DEF StapA
      <4> HIDE DEF front
      <4>3. /\ bits' \in Seq(Piece) /\ Len(bits') \in Nat
            /\ Len(bits') = Len(bits) + Len(front)
            /\ Len(front) \in Nat
        BY <1>3, <4>1, <4>2
      <4>4. last_sync_pos' \in 0 .. Len(bits')
        BY <1>2, <1>3, <4>1, <4>3
      <4>5. QED
        BY <4>1, <4>3, <4>4 DEF IInv, TypeOK, SyncInside, SyncNeverAhead, Statuses
    <3>3. QED
      BY <3>1, <3>2
  <2>6. CASE FuA(p)
    <3>1. CASE FuNoRoom(p)
      BY <1>7, <3>1 DEF FuNoRoom
    <3>2. CASE FuAppend(p)
      <4>1. FuPieces(p) \in Seq(Piece)
        BY <2>1, <2>6, PieceTypes DEF FuA
      <4>2. /\ bits' = bits \o FuPieces(p)
            /\ last_sync_pos' = IF p.E THEN Len(bits') ELSE sync_pos
            /\ prev_lost' = FALSE /\ status' = "SUCCESS"
        BY <3>2 DEF FuAppend
      <4>3. /\ bits' \in Seq(Piece) /\ Len(bits') \in Nat
            /\ Len(bits') = Len(bits) + Len(FuPieces(p)) /\ Len(FuPieces(p)) \in Nat
        BY <1>3, <4>1, <4>2
      <4>4. last_sync_pos' \in 0 .. Len(bits')
        BY <1>2, <1>3, <4>2, <4>3
      <4>5. prev_lost' \in BOOLEAN
        BY <4>2
      <4>6. QED
        BY <4>2, <4>3, <4>4, <4>5 DEF IInv, TypeOK, SyncInside, SyncNeverAhead, Statuses
    <3>3. CASE FuRevert(p)
      <4>1. /\ bits' = SubSeq(bits, 1, sync_pos) /\ last_sync_pos' = sync_pos
            /\ prev_lost' = prev_lost /\ status' = "EIGNORED"
        BY <1>2, <1>3, <3>3 DEF FuRevert, reverted, bits_pos
      <4>2. bits' \in Seq(Piece) /\ Len(bits') = sync_pos
        BY <1>2, <1>3, <4>1, SubSeqProperties
      <4>3. QED
        BY <1>2, <1>3, <4>1, <4>2 DEF IInv, TypeOK, SyncInside, SyncNeverAhead, Statuses
    <3>4. QED
      BY <2>6, <3>1, <3>2, <3>3 DEF FuA
  <2>7. QED
    BY <1>8, <2>2, <2>3, <2>4, <2>5, <2>6 DEF Unpacketize
<1>9. QED
  BY <1>1, <1>4, <1>5, <1>6, <1>8 DEF Next

LEMMA Inductive == Spec => []IInv
BY InvInit, InvStep, PTL DEF Spec
-----------------------------------------------------------------------------
(***************************************************************************)
(* Every variable keeps its type.                                          *)
(***************************************************************************)
THEOREM TypeCorrect == Spec => []TypeOK
<1>1. IInv => TypeOK
  BY DEF IInv
<1>2. QED
  BY Inductive, <1>1, PTL

(***************************************************************************)
(* The assertion on the way back to the sync point never fails.            *)
(***************************************************************************)
THEOREM SyncPointInside == Spec => []SyncNeverAhead
<1>1. IInv => SyncNeverAhead
  BY DEF IInv
<1>2. QED
  BY Inductive, <1>1, PTL

(* The first n pieces of a longer bitstream, and of its first n pieces. *)
LEMMA PrefixKept ==
  ASSUME NEW s \in Seq(Piece), NEW t \in Seq(Piece), NEW n \in 0 .. Len(s)
  PROVE  /\ IsPrefix(SubSeq(s, 1, n), s \o t)
         /\ IsPrefix(SubSeq(s, 1, n), SubSeq(s, 1, n))
<1> DEFINE u == SubSeq(s, 1, n)
<1>1. u \in Seq(Piece) /\ Len(u) = n /\ \A i \in 1 .. n : u[i] = s[i]
  BY SubSeqProperties
<1>2. s \o t \in Seq(Piece) /\ Len(s \o t) >= n /\ \A i \in 1 .. n : (s \o t)[i] = s[i]
  BY ConcatProperties
<1> HIDE DEF u
<1>3. SubSeq(s \o t, 1, n) = SubSeq(u, 1, n)
  <2>1. \A i \in 1 .. n : (s \o t)[i] = u[i]
    BY <1>1, <1>2
  <2>2. QED
    BY <1>1, <1>2, <2>1, SubSeqProperties
<1>4. QED
  BY <1>1, <1>2, <1>3 DEF IsPrefix, u

(***************************************************************************)
(* What lies in front of the sync point is never taken away, unless the    *)
(* whole bitstream is dropped.                                             *)
(***************************************************************************)
THEOREM UnitsKept == Spec => CompleteUnitsKept
<1> DEFINE kept == SubSeq(bits, 1, sync_pos)
           A    == bits' = <<>> \/ IsPrefix(kept, bits')
<1>1. IInv /\ [Next]_vars => [A]_vars
  <2>1. SUFFICES ASSUME IInv, Next, bits' # <<>>
                 PROVE  IsPrefix(kept, bits')
    OBVIOUS
  <2>2. bits \in Seq(Piece) /\ sync_pos \in 0 .. Len(bits)
    BY <2>1, SyncPos DEF IInv, TypeOK
  <2>3. ASSUME NEW t \in Seq(Piece), bits' = bits \o t
        PROVE  IsPrefix(kept, bits')
    BY <2>2, <2>3, PrefixKept
  <2>4. ASSUME bits' = bits
        PROVE  IsPrefix(kept, bits')
    <3>1. <<>> \in Seq(Piece) /\ bits' = bits \o <<>>
      BY <2>2, <2>4
    <3>2. QED
      BY <2>3, <3>1
  <2>5. CASE Lost \/ NextPicture
    BY <2>1, <2>4, <2>5 DEF Lost, NextPicture
  <2>6. ASSUME NEW p \in Payloads, Unpacketize(p)
        PROVE  IsPrefix(kept, bits')
    <3>1. p \in Payload
      BY PayloadsAssumption
    <3>2. CASE Short(p) \/ NotSupported(p)
      BY <2>1, <2>4, <3>2 DEF Short, NotSupported
    <3>3. CASE SingleNal(p)
      <4>1. bits' = bits \/ bits' = Append(bits, Start(p.nal))
        BY <3>3 DEF SingleNal, Abort
      <4>2. Start(p.nal) \in Piece
        BY <3>1, <3>3, PieceTypes DEF SingleNal
      <4>3. <<Start(p.nal)>> \in Seq(Piece)
            /\ Append(bits, Start(p.nal)) = bits \o <<Start(p.nal)>>
        BY <2>2, <4>2, AppendIsConcat
      <4>4. QED
        BY <2>3, <2>4, <4>1, <4>3
    <3>4. CASE StapA(p)
      <4>1. SubSeq(StapPieces(p), 1, StapTaken(p)) \in Seq(Piece)
        BY <3>1, <3>4, StapFront DEF StapA
      <4>2. QED
        BY <2>3, <2>4, <3>4, <4>1 DEF StapA, Abort
    <3>5. CASE FuA(p)
      <4>1. FuPieces(p) \in Seq(Piece)
        BY <3>1, <3>5, PieceTypes DEF FuA
      <4>2. CASE FuNoRoom(p) \/ FuAppend(p)
        BY <2>3, <2>4, <4>1, <4>2 DEF FuNoRoom, FuAppend, Abort
      <4>3. CASE FuRevert(p)
        <5>1. bits' = kept \/ bits' = bits
          BY <4>3 DEF FuRevert, reverted, Abort
        <5>2. QED
          BY <2>2, <2>4, <5>1, PrefixKept
      <4>4. QED
        BY <3>5, <4>2, <4>3 DEF FuA
    <3>6. QED
      BY <2>6, <3>2, <3>3, <3>4, <3>5 DEF Unpacketize
  <2>7. QED
    BY <2>1, <2>5, <2>6 DEF Next
<1>2. QED
  BY Inductive, <1>1, PTL DEF Spec, CompleteUnitsKept
-----------------------------------------------------------------------------
(* The lengths of the pieces of a bitstream, start codes included. *)
Sizes(pieces) == [k \in DOMAIN pieces |-> PieceLen(pieces[k])]

LEMMA PieceSize ==
  ASSUME NEW p \in Piece
  PROVE  /\ PieceLen(p) \in Nat /\ Len(p.data) \in Nat
         /\ p.start => PieceLen(p) = Len(p.data) + 4
         /\ ~ p.start => PieceLen(p) = Len(p.data)
<1>1. Len(p.data) \in Nat /\ p.start \in BOOLEAN
  BY DEF Piece
<1>2. Len(nal_start_code) = 4
  BY DEF nal_start_code
<1>3. CASE p.start
  BY <1>1, <1>2, <1>3 DEF PieceLen
<1>4. CASE ~ p.start
  BY <1>1, <1>4 DEF PieceLen
<1> QED
  BY <1>3, <1>4

LEMMA BytesAppend ==
  ASSUME NEW s \in Seq(Piece), NEW t \in Seq(Piece)
  PROVE  /\ BytesOf(s) \in Nat /\ BytesOf(t) \in Nat
         /\ BytesOf(s \o t) = BytesOf(s) + BytesOf(t)
<1> DEFINE st == s \o t
<1>1. /\ Len(s) \in Nat /\ Len(t) \in Nat /\ Len(st) = Len(s) + Len(t)
      /\ st \in Seq(Piece)
  OBVIOUS
<1>2. DOMAIN s = 1 .. Len(s) /\ DOMAIN t = 1 .. Len(t) /\ DOMAIN st = 1 .. Len(s) + Len(t)
  BY <1>1
<1>3. \A k \in 1 .. Len(s) : s[k] \in Piece /\ st[k] = s[k]
  BY <1>1
<1>4. \A k \in 1 .. Len(t) : t[k] \in Piece /\ st[Len(s)+k] = t[k]
  BY <1>1
<1> HIDE DEF st
<1>5. \A k \in 1 .. Len(s) : Sizes(s)[k] \in Nat /\ Sizes(st)[k] = Sizes(s)[k]
  <2> TAKE k \in 1 .. Len(s)
  <2>1. k \in 1 .. Len(s) + Len(t)
    BY <1>1
  <2>2. PieceLen(s[k]) \in Nat
    BY <1>3, PieceSize
  <2> QED
    BY <1>2, <1>3, <2>1, <2>2 DEF Sizes
<1>6. \A k \in 1 .. Len(t) : Sizes(t)[k] \in Nat /\ Sizes(st)[Len(s)+k] = Sizes(t)[k]
  <2> TAKE k \in 1 .. Len(t)
  <2>1. Len(s) + k \in 1 .. Len(s) + Len(t)
    BY <1>1
  <2>2. PieceLen(t[k]) \in Nat
    BY <1>4, PieceSize
  <2> QED
    BY <1>2, <1>4, <2>1, <2>2 DEF Sizes
<1>7. /\ Total(Sizes(s), Len(s)) \in Nat /\ Total(Sizes(t), Len(t)) \in Nat
      /\ Total(Sizes(st), Len(s) + Len(t)) = Total(Sizes(s), Len(s)) + Total(Sizes(t), Len(t))
  <2>1. PICK m \in Nat, n \in Nat : m = Len(s) /\ n = Len(t)
    BY <1>1
  <2> DEFINE left  == Sizes(s)
             right == Sizes(t)
             both  == Sizes(st)
  <2>2. \A k \in 1 .. m : left[k] \in Nat /\ both[k] = left[k]
    BY <1>5, <2>1
  <2>3. \A k \in 1 .. n : right[k] \in Nat /\ both[m+k] = right[k]
    BY <1>6, <2>1
  <2>4. /\ Total(left, m) \in Nat /\ Total(right, n) \in Nat
        /\ Total(both, m + n) = Total(left, m) + Total(right, n)
    <3>1. TwoParts(both, left, m, right, n)
      <4> HIDE DEF left, right, both
      <4> QED BY <2>2, <2>3 DEF TwoParts
    <3> QED
      BY <3>1, TotalSplit
  <2> QED
    BY <2>1, <2>4
<1> QED
  BY <1>1, <1>7 DEF BytesOf, Sizes, st

LEMMA BytesShort ==
  BytesOf(<<>>) = 0 /\ \A p \in Piece : BytesOf(<<p>>) = PieceLen(p)
<1>1. BytesOf(<<>>) = 0
  <2>1. Len(<<>>) = 0
    OBVIOUS
  <2> QED
    BY <2>1, TotalShort DEF BytesOf
<1>2. ASSUME NEW p \in Piece PROVE BytesOf(<<p>>) = PieceLen(p)
  <2>1. Len(<<p>>) = 1 /\ DOMAIN <<p>> = 1 .. 1 /\ <<p>>[1] = p
    OBVIOUS
  <2>2. PieceLen(p) \in Nat
    BY PieceSize
  <2>3. Sizes(<<p>>)[1] = PieceLen(p)
    BY <2>1 DEF Sizes
  <2> QED
    BY <2>1, <2>2, <2>3, TotalShort DEF BytesOf, Sizes
<1> QED
  BY <1>1, <1>2

(* The bytes an aggregate needs: all of its NAL units, and the start code  *)
(* in front of an invalid size.                                            *)
StapWritten(p) == BytesOf(StapPieces(p)) + (IF p.invalid > 0 THEN 4 ELSE 0)

(* They are two more for each size than it has in the payload.             *)
LEMMA StapBytes ==
  ASSUME NEW p \in Payloads, p.kind = "STAP_A"
  PROVE  /\ BytesOf(StapPieces(p)) \in Nat /\ StapLen(p) \in Nat \ {0}
         /\ StapSizes(p) <= 16 => StapWritten(p) <= StapLen(p) + 32
<1>1. p \in Payload
  BY PayloadsAssumption
<1>2. p.nals \in Seq(Seq(Byte)) /\ p.invalid \in Nat
  BY <1>1 DEF Payload, SinglePayload, StapPayload, FuPayload, OtherPayload, ShortPayload
<1> DEFINE n    == Len(p.nals)
           size == [k \in DOMAIN p.nals |-> 2 + Len(p.nals[k])]
<1>3. n \in Nat /\ DOMAIN p.nals = 1 .. n
  BY <1>2
<1>4. StapPieces(p) \in Seq(Piece) /\ Len(StapPieces(p)) = n
      /\ DOMAIN StapPieces(p) = 1 .. n
  BY <1>1, <1>3, PieceTypes DEF StapPieces
<1>5. ASSUME NEW k \in 1 .. n
      PROVE  size[k] \in Nat /\ Sizes(StapPieces(p))[k] = size[k] + 2
  <2>1. StapPieces(p)[k] = Start(p.nals[k]) /\ Start(p.nals[k]) \in Piece
    BY <1>3, <1>4 DEF StapPieces
  <2>2. PieceLen(Start(p.nals[k])) = Len(p.nals[k]) + 4
    BY <2>1, PieceSize DEF Start
  <2>3. Len(p.nals[k]) \in Nat
    BY <1>2
  <2>4. size[k] = 2 + Len(p.nals[k])
    BY <1>3
  <2>5. Sizes(StapPieces(p))[k] = PieceLen(StapPieces(p)[k])
    BY <1>4 DEF Sizes
  <2> HIDE DEF size
  <2> QED
    BY <2>1, <2>2, <2>3, <2>4, <2>5
<1> HIDE DEF size
<1>6. /\ Total(size, n) \in Nat
      /\ Total(Sizes(StapPieces(p)), n) = Total(size, n) + 2 * n
  BY <1>3, <1>5, TotalMore
<1>7. BytesOf(StapPieces(p)) = Total(size, n) + 2 * n
  BY <1>4, <1>6 DEF BytesOf, Sizes
<1>8. StapLen(p) = 1 + p.invalid + Total(size, n)
  BY DEF StapLen, size
<1>9. StapSizes(p) = n + (IF p.invalid > 0 THEN 1 ELSE 0)
  BY DEF StapSizes
<1>10. StapWritten(p) = BytesOf(StapPieces(p)) + (IF p.invalid > 0 THEN 4 ELSE 0)
  BY DEF StapWritten
<1> DEFINE sum == Total(size, n)
           all == BytesOf(StapPieces(p))
<1> HIDE DEF n, size, sum, all
<1>11. all = sum + 2 * n /\ sum \in Nat /\ StapLen(p) = 1 + p.invalid + sum
  BY <1>6, <1>7, <1>8 DEF sum, all
<1>12. all \in Nat /\ StapLen(p) \in Nat \ {0}
  BY <1>2, <1>3, <1>11
<1>13. ASSUME StapSizes(p) <= 16 PROVE StapWritten(p) <= StapLen(p) + 32
  <2>1. CASE p.invalid > 0
    <3>1. n + 1 <= 16 /\ StapWritten(p) = all + 4
      BY <1>9, <1>10, <1>13, <2>1 DEF all
    <3> QED
      BY <1>2, <1>3, <1>11, <2>1, <3>1
  <2>2. CASE ~ p.invalid > 0
    <3>1. n <= 16 /\ StapWritten(p) = all
      BY <1>3, <1>9, <1>10, <1>12, <1>13, <2>2 DEF all
    <3> QED
      BY <1>2, <1>3, <1>11, <3>1
  <2> QED
    BY <2>1, <2>2
<1> QED
  BY <1>12, <1>13 DEF all

(* The part of an aggregate that the loop takes fits, unless the call has  *)
(* written behind the buffer; and so it has only with more than 16 sizes.  *)
LEMMA StapFits ==
  ASSUME TypeOK, NEW p \in Payloads, p.kind = "STAP_A", StapHasRoom(p)
  PROVE  /\ ~ StapOverrun(p) => BytesOf(SubSeq(StapPieces(p), 1, StapTaken(p))) <= Room
         /\ StapSizes(p) <= 16 => ~ StapOverrun(p)
<1>1. p \in Payload
  BY PayloadsAssumption
<1> DEFINE pieces == StapPieces(p)
           taken  == StapTaken(p)
           front  == SubSeq(pieces, 1, taken)
           rest   == SubSeq(pieces, taken + 1, Len(pieces))
           code   == IF MeetsInvalid(p) THEN 4 ELSE 0
<1>2. /\ taken \in 0 .. Len(pieces) /\ Len(pieces) \in Nat
      /\ pieces \in Seq(Piece) /\ front \in Seq(Piece) /\ p.invalid \in Nat
  BY <1>1, PieceTypes, StapFront
<1>3. BytesOf(bits) \in Nat
  BY BytesAppend DEF TypeOK
<1>4. Room \in Int
  BY <1>3, BitsLenAssumption DEF Room
<1>5. BytesOf(front) \in Nat
  BY <1>2, BytesAppend
<1>6. StapOverrun(p) <=> Room - BytesOf(front) < code
  BY DEF StapOverrun, StapLeft, nal_start_code
<1>7. code \in {0, 4} /\ (code = 4 => p.invalid > 0)
  BY DEF MeetsInvalid
<1>8. ~ StapOverrun(p) => BytesOf(front) <= Room
  <2> HIDE DEF front, code
  <2> QED BY <1>4, <1>5, <1>6, <1>7
<1>9. ASSUME StapSizes(p) <= 16 PROVE ~ StapOverrun(p)
  <2>1. BytesOf(front) <= BytesOf(pieces)
    <3> HIDE DEF pieces, taken
    <3>1. rest \in Seq(Piece) /\ front \o rest = pieces
      <4>1. PICK n \in 1 - 1 .. Len(pieces) : n = taken
        BY <1>2
      <4>2. 1 \in 1 .. Len(pieces) + 1 /\ Len(pieces) \in n .. Len(pieces)
        BY <1>2, <4>1
      <4>3. SubSeq(pieces, 1, n) \o SubSeq(pieces, n + 1, Len(pieces))
              = SubSeq(pieces, 1, Len(pieces))
        BY <1>2, <4>2, ConcatAdjacentSubSeq
      <4>4. SubSeq(pieces, 1, Len(pieces)) = pieces
        BY <1>2, SubSeqFull
      <4>5. rest \in Seq(Piece)
        BY <1>2, SubSeqProperties
      <4> QED
        BY <4>1, <4>3, <4>4, <4>5
    <3> HIDE DEF front, rest
    <3>2. /\ BytesOf(front) \in Nat /\ BytesOf(rest) \in Nat
          /\ BytesOf(front \o rest) = BytesOf(front) + BytesOf(rest)
      BY <1>2, <3>1, BytesAppend
    <3> QED
      BY <3>1, <3>2
  <2>2. /\ BytesOf(pieces) \in Nat /\ StapLen(p) \in Nat
        /\ BytesOf(pieces) + (IF p.invalid > 0 THEN 4 ELSE 0) <= StapLen(p) + 32
    BY <1>9, StapBytes DEF StapWritten
  <2>3. Room >= StapLen(p) + 32
    BY DEF StapHasRoom
  <2> HIDE DEF front, pieces, code
  <2>4. BytesOf(front) + code <= Room
    BY <1>2, <1>4, <1>5, <1>7, <2>1, <2>2, <2>3
  <2> QED
    BY <1>4, <1>5, <1>6, <1>7, <2>4
<1> QED
  BY <1>8, <1>9

Fits == status # "OVERRUN" => BytesOf(bits) <= BitsLen

LEMMA FitsInit == Init => Fits
BY BitsLenAssumption, BytesShort DEF Init, Fits

(* A call that appends pieces for which there is room. *)
LEMMA FitsAppend ==
  ASSUME TypeOK, NEW t \in Seq(Piece), BytesOf(t) <= Room, bits' = bits \o t
  PROVE  BytesOf(bits') <= BitsLen
<1>1. bits \in Seq(Piece)
  BY DEF TypeOK
<1>2. BytesOf(bits \o t) = BytesOf(bits) + BytesOf(t) /\ BytesOf(bits) \in Nat
      /\ BytesOf(t) \in Nat
  BY <1>1, BytesAppend
<1>3. BytesOf(bits') = BytesOf(bits) + BytesOf(t)
  BY <1>2
<1> QED
  BY <1>2, <1>3, BitsLenAssumption DEF Room

LEMMA FitsStep == IInv /\ Fits /\ [Next]_vars => Fits'
<1> SUFFICES ASSUME IInv, Fits, Next PROVE Fits'
  BY DEF Fits, vars
<1>1. TypeOK /\ bits \in Seq(Piece) /\ sync_pos \in 0 .. Len(bits)
  BY SyncPos DEF IInv, TypeOK
<1>0. BytesOf(bits) <= BitsLen
  BY DEF Next, Lost, NextPicture, Unpacketize, Running, Fits
<1>2. CASE UNCHANGED bits
  BY <1>0, <1>2 DEF Fits
<1>3. CASE bits' = <<>>
  <2>1. BytesOf(bits') = 0
    BY <1>3, BytesShort
  <2> QED
    BY <2>1, BitsLenAssumption DEF Fits
<1>4. ASSUME NEW p \in Payloads, SingleNal(p) PROVE Fits'
  <2>1. CASE Abort("NO_ROOM")
    BY <1>2, <2>1 DEF Abort
  <2>2. CASE Room >= Len(p.nal) + 4 /\ bits' = Append(bits, Start(p.nal))
    <3>1. Start(p.nal) \in Piece
      BY <1>4, PayloadsAssumption, PieceTypes DEF SingleNal
    <3>2. BytesOf(<<Start(p.nal)>>) = Len(p.nal) + 4
      BY <3>1, BytesShort, PieceSize DEF Start
    <3>3. bits' = bits \o <<Start(p.nal)>> /\ <<Start(p.nal)>> \in Seq(Piece)
      BY <1>1, <2>2, <3>1
    <3>4. BytesOf(<<Start(p.nal)>>) <= Room
      BY <2>2, <3>2
    <3> QED
      BY <1>1, <3>3, <3>4, FitsAppend DEF Fits
  <2>3. Len(nal_start_code) = 4 /\ Room \in Int /\ Len(p.nal) \in Nat
    <3>1. p.nal \in Seq(Byte)
      BY <1>4, PayloadsAssumption
         DEF SingleNal, Payload, SinglePayload, StapPayload, FuPayload, OtherPayload,
             ShortPayload
    <3>2. BytesOf(bits) \in Nat
      BY <1>1, BytesAppend
    <3> QED
      BY <3>1, <3>2, BitsLenAssumption DEF nal_start_code, Room
  <2> QED
    BY <1>4, <2>1, <2>2, <2>3 DEF SingleNal
<1>5. ASSUME NEW p \in Payloads, StapA(p) PROVE Fits'
  <2>1. CASE Abort("NO_ROOM")
    BY <1>2, <2>1 DEF Abort
  <2>2. CASE StapHasRoom(p) /\ StapOverrun(p)
    BY <1>5, <2>2 DEF StapA, Fits
  <2>3. CASE StapHasRoom(p) /\ ~ StapOverrun(p)
    <3>1. SubSeq(StapPieces(p), 1, StapTaken(p)) \in Seq(Piece)
      BY <1>5, PayloadsAssumption, StapFront DEF StapA
    <3>2. BytesOf(SubSeq(StapPieces(p), 1, StapTaken(p))) <= Room
      BY <1>1, <1>5, <2>3, StapFits DEF StapA
    <3>3. bits' = bits \o SubSeq(StapPieces(p), 1, StapTaken(p))
      BY <1>5, <2>3 DEF StapA
    <3> QED
      BY <1>1, <3>1, <3>2, <3>3, FitsAppend DEF Fits
  <2> QED
    BY <1>5, <2>1, <2>2, <2>3 DEF StapA
<1>6. ASSUME NEW p \in Payloads, FuA(p) PROVE Fits'
  <2>1. CASE FuNoRoom(p)
    BY <1>2, <2>1 DEF FuNoRoom, Abort
  <2>2. CASE FuAppend(p)
    <3>1. /\ p \in Payload /\ p.octet \in Byte /\ p.S \in BOOLEAN /\ p.data \in Seq(Byte)
          /\ Len(p.data) \in Nat
      BY <1>6, PayloadsAssumption
         DEF FuA, Payload, SinglePayload, StapPayload, FuPayload, OtherPayload,
             ShortPayload
    <3>2. FuPieces(p) \in Seq(Piece)
      BY <1>6, <3>1, PieceTypes DEF FuA
    <3>3. Room >= 6 + Len(p.data)
      <4>1. BytesOf(bits) \in Nat
        BY <1>1, BytesAppend
      <4> QED
        BY <2>2, <3>1, <4>1, BitsLenAssumption DEF FuAppend, FuHasRoom, nal_start_code, Room
    <3>4. BytesOf(FuPieces(p)) <= Len(p.data) + 5
      <4>1. CASE p.S
        <5> DEFINE d == <<p.octet>> \o p.data
        <5>1. d \in Seq(Byte) /\ Len(d) = Len(p.data) + 1
          BY <3>1
        <5>2. FuPieces(p) = <<Start(d)>>
          BY <4>1 DEF FuPieces
        <5> HIDE DEF d
        <5>3. Start(d) \in Piece
          BY <5>1 DEF Start, Piece
        <5>4. PieceLen(Start(d)) = Len(d) + 4
          BY <5>3, PieceSize DEF Start
        <5>5. BytesOf(FuPieces(p)) = Len(d) + 4
          BY <5>2, <5>3, <5>4, BytesShort
        <5> QED
          BY <3>1, <5>1, <5>5
      <4>2. CASE ~ p.S /\ p.data # <<>>
        <5>1. FuPieces(p) = <<More(p.data)>>
          BY <4>2 DEF FuPieces
        <5>2. More(p.data) \in Piece
          BY <3>1 DEF More, Piece
        <5>3. PieceLen(More(p.data)) = Len(p.data)
          BY <5>2, PieceSize DEF More
        <5> QED
          BY <3>1, <5>1, <5>2, <5>3, BytesShort
      <4>3. CASE ~ p.S /\ p.data = <<>>
        <5>1. FuPieces(p) = <<>>
          BY <4>3 DEF FuPieces
        <5> QED
          BY <3>1, <5>1, BytesShort
      <4> QED
        BY <4>1, <4>2, <4>3
    <3>5. bits' = bits \o FuPieces(p)
      BY <2>2 DEF FuAppend
    <3>6. BytesOf(FuPieces(p)) \in Nat /\ Room \in Int
      <4>1. BytesOf(bits) \in Nat
        BY <1>1, BytesAppend
      <4> QED
        BY <3>2, <4>1, BytesAppend, BitsLenAssumption DEF Room
    <3>7. BytesOf(FuPieces(p)) <= Room
      BY <3>1, <3>3, <3>4, <3>6
    <3> QED
      BY <1>1, <3>2, <3>5, <3>7, FitsAppend DEF Fits
  <2>3. CASE FuRevert(p)
    <3>1. CASE Abort("SYNC_AHEAD")
      BY <1>2, <3>1 DEF Abort
    <3>2. CASE bits' = SubSeq(bits, 1, sync_pos)
      <4> DEFINE back == SubSeq(bits, 1, sync_pos)
                 rest == SubSeq(bits, sync_pos + 1, Len(bits))
      <4>1. back \in Seq(Piece) /\ rest \in Seq(Piece) /\ bits = back \o rest
        <5>1. Len(bits) \in Nat /\ sync_pos \in 1 - 1 .. Len(bits)
          BY <1>1
        <5>2. back \o rest = SubSeq(bits, 1, Len(bits))
          <6>1. PICK n \in 1 - 1 .. Len(bits) : n = sync_pos
            BY <5>1
          <6>2. 1 \in 1 .. Len(bits) + 1 /\ Len(bits) \in n .. Len(bits)
            BY <5>1
          <6>3. SubSeq(bits, 1, n) \o SubSeq(bits, n + 1, Len(bits)) = SubSeq(bits, 1, Len(bits))
            BY <1>1, <6>2, ConcatAdjacentSubSeq
          <6> QED
            BY <6>1, <6>3 DEF back, rest
        <5>3. SubSeq(bits, 1, Len(bits)) = bits
          BY <1>1, SubSeqFull
        <5>4. back \in Seq(Piece) /\ rest \in Seq(Piece)
          BY <1>1, <5>1, SubSeqProperties
        <5> QED
          BY <5>2, <5>3, <5>4
      <4> HIDE DEF back, rest
      <4>2. BytesOf(bits) = BytesOf(back) + BytesOf(rest)
            /\ BytesOf(back) \in Nat /\ BytesOf(rest) \in Nat
        BY <4>1, BytesAppend
      <4>3. BytesOf(bits') = BytesOf(back)
        BY <3>2 DEF back
      <4> QED
        BY <1>0, <4>2, <4>3, BitsLenAssumption DEF Fits
    <3> QED
      BY <2>3, <3>1, <3>2 DEF FuRevert, reverted
  <2> QED
    BY <1>6, <2>1, <2>2, <2>3 DEF FuA
<1> QED
  BY <1>2, <1>3, <1>4, <1>5, <1>6
     DEF Next, Unpacketize, Lost, Short, NotSupported, NextPicture, vars

(***************************************************************************)
(* Nothing but an aggregate of more than sixteen sizes is written behind   *)
(* the end of the bitstream buffer, whatever its size and the payloads:    *)
(* the 32 bytes of line 529 pay for the start codes of sixteen exactly.    *)
(***************************************************************************)
THEOREM EnoughRoom == Spec => WithinBits
<1> DEFINE A == BytesOf(bits') > BitsLen \/ status' = "OVERRUN" =>
                  \E p \in Payloads : StapA(p) /\ StapSizes(p) > 16
<1>1. IInv /\ IInv' /\ Fits /\ Fits' /\ [Next]_vars => [A]_vars
  <2> SUFFICES ASSUME IInv, IInv', Fits, Fits', Next,
                      BytesOf(bits') > BitsLen \/ status' = "OVERRUN"
               PROVE  \E p \in Payloads : StapA(p) /\ StapSizes(p) > 16
    OBVIOUS
  <2>1. status' = "OVERRUN"
    <3>1. BytesOf(bits') \in Nat
      BY BytesAppend DEF IInv, TypeOK
    <3> QED
      BY <3>1, BitsLenAssumption DEF Fits
  <2>2. PICK p \in Payloads : StapA(p) /\ StapHasRoom(p) /\ StapOverrun(p)
    BY <2>1 DEF Next, Lost, NextPicture, Unpacketize, Running, Short, SingleNal, StapA,
       FuA, FuNoRoom, FuAppend, FuRevert, NotSupported, Abort
  <2>3. ~ StapSizes(p) <= 16
    BY <2>2, StapFits DEF StapA, IInv
  <2>4. StapSizes(p) \in Nat
    <3>1. p.nals \in Seq(Seq(Byte))
      BY <2>2, PayloadsAssumption, StapFront DEF StapA
    <3>2. PICK n \in Nat : n = Len(p.nals)
      BY <3>1
    <3>3. PICK m \in 0 .. 1 : m = IF p.invalid > 0 THEN 1 ELSE 0
      OBVIOUS
    <3>4. StapSizes(p) = n + m
      BY <3>2, <3>3 DEF StapSizes
    <3> QED
      BY <3>4
  <2> QED
    BY <2>2, <2>3, <2>4
<1> QED
  BY <1>1, FitsInit, FitsStep, Inductive, PTL DEF Spec, WithinBits
-----------------------------------------------------------------------------
(***************************************************************************)
(* Holes lie in the bitstream, and unpack_prev_lost remembers the one at   *)
(* its end: the only one that a call could bridge.                         *)
(***************************************************************************)
HoleInv ==
  /\ holes \subseteq 0 .. Len(bits)
  /\ Len(bits) \in holes => prev_lost
  /\ NoHoleBridged

LEMMA HoleInvInit == HoleInit => HoleInv
BY DEF HoleInit, HoleInv, NoHoleBridged

LEMMA HoleInvSame ==
  ASSUME HoleInv, UNCHANGED <<bits, prev_lost, holes>>
  PROVE  HoleInv'
BY DEF HoleInv, NoHoleBridged

(* What is appended at a hole starts a NAL unit, or is nothing. *)
LEMMA HoleInvAppend ==
  ASSUME HoleInv, bits \in Seq(Piece), NEW t \in Seq(Piece),
         bits' = bits \o t, holes' = holes,
         Len(bits) \in holes => IF t = <<>> THEN prev_lost' ELSE t[1].start
  PROVE  HoleInv'
<1>1. PICK m \in Nat, n \in Nat : m = Len(bits) /\ n = Len(t)
  OBVIOUS
<1>2. /\ Len(bits') = m + n
      /\ \A k \in 1 .. m : bits'[k] = bits[k]
      /\ n > 0 => bits'[m+1] = t[1]
  BY <1>1, ConcatProperties
<1>3. holes' \subseteq 0 .. Len(bits')
  BY <1>1, <1>2 DEF HoleInv
<1>4. t = <<>> <=> n = 0
  BY <1>1
<1>5. ASSUME Len(bits') \in holes' PROVE prev_lost'
  <2>1. m + n \in 0 .. m
    BY <1>1, <1>2, <1>5 DEF HoleInv
  <2>2. n = 0
    BY <2>1
  <2> QED
    BY <1>1, <1>2, <1>4, <1>5, <2>2
<1>6. ASSUME NEW h \in holes', h < Len(bits') PROVE bits'[h+1].start
  <2>1. h \in 0 .. m
    BY <1>1, <1>6 DEF HoleInv
  <2>2. CASE h < m
    <3>1. h + 1 \in 1 .. m
      BY <2>1, <2>2
    <3>2. bits[h+1].start
      BY <1>1, <1>6, <2>2 DEF HoleInv, NoHoleBridged
    <3> QED
      BY <1>2, <3>1, <3>2
  <2>3. CASE h = m
    <3>1. n > 0 /\ t # <<>>
      BY <1>2, <1>4, <1>6, <2>3
    <3> QED
      BY <1>1, <1>2, <1>6, <2>3, <3>1
  <2>4. h < m \/ h = m
    BY <2>1
  <2> QED
    BY <2>2, <2>3, <2>4
<1> QED
  BY <1>3, <1>5, <1>6 DEF HoleInv, NoHoleBridged

(* A bitstream that goes back to n pieces, with a hole behind them or not. *)
LEMMA HoleInvBack ==
  ASSUME HoleInv, bits \in Seq(Piece), NEW n \in 0 .. Len(bits), prev_lost' = prev_lost,
         bits' = SubSeq(bits, 1, n), holes' \subseteq {h \in holes : h < n} \cup {n},
         n \in holes' => prev_lost
  PROVE  HoleInv'
<1>1. Len(bits') = n /\ \A k \in 1 .. n : bits'[k] = bits[k]
  BY SubSeqProperties
<1>2. Len(bits) \in Nat /\ \A h \in holes : h \in 0 .. Len(bits)
  BY DEF HoleInv
<1>3. holes' \subseteq 0 .. Len(bits')
  BY <1>1, <1>2
<1>4. ASSUME NEW h \in holes', h < Len(bits') PROVE bits'[h+1].start
  <2>1. h \in holes /\ h < n /\ h \in 0 .. Len(bits)
    BY <1>1, <1>2, <1>4
  <2>2. h + 1 \in 1 .. n
    BY <2>1
  <2>3. bits[h+1].start
    BY <1>2, <2>1 DEF HoleInv, NoHoleBridged
  <2> QED
    BY <1>1, <2>2, <2>3
<1> QED
  BY <1>1, <1>3, <1>4 DEF HoleInv, NoHoleBridged

(* The bitstream is emptied. *)
LEMMA HoleInvEmpty ==
  ASSUME HoleInv, bits \in Seq(Piece), bits' = <<>>, prev_lost' = prev_lost,
         holes' = HolesOfEmpty
  PROVE  HoleInv'
<1>1. Len(bits') = 0
  OBVIOUS
<1>2. holes' \subseteq {0} /\ (0 \in holes' => prev_lost')
  BY DEF HolesOfEmpty, HoleInv, bits_pos
<1>3. \A h \in holes' : ~ h < Len(bits')
  BY <1>1, <1>2
<1> QED
  BY <1>1, <1>2, <1>3 DEF HoleInv, NoHoleBridged

(* A payload is missing at the end of the bitstream. *)
LEMMA HoleInvLost ==
  ASSUME HoleInv, bits \in Seq(Piece), bits' = bits, prev_lost' = TRUE,
         holes' = holes \cup {bits_pos}
  PROVE  HoleInv'
<1>1. PICK n \in Nat : n = Len(bits)
  OBVIOUS
<1>2. \A h \in holes' : h \in holes \/ h = n
  BY <1>1 DEF bits_pos
<1>3. holes \subseteq 0 .. n
  BY <1>1 DEF HoleInv
<1>4. holes' \subseteq 0 .. n
  <2>1. n \in 0 .. n
    BY <1>1
  <2> QED
    BY <1>2, <1>3, <2>1
<1> QED
  BY <1>1, <1>2, <1>4 DEF HoleInv, NoHoleBridged

(* An aggregate of which nothing is taken has met its invalid size, and    *)
(* leaves unpack_prev_lost alone.                                          *)
LEMMA StapTakesNone ==
  ASSUME TypeOK, NEW p \in Payloads, p.kind = "STAP_A", StapHasRoom(p), StapTaken(p) = 0
  PROVE  MeetsInvalid(p)
<1>1. p \in Payload
  BY PayloadsAssumption
<1>2. p.nals \in Seq(Seq(Byte)) /\ p.invalid \in Nat /\ StapPieces(p) \in Seq(Piece)
  BY <1>1, StapFront, PieceTypes
<1>3. StapLen(p) \in Nat
  BY StapBytes
<1>4. BytesOf(bits) \in Nat
  BY BytesAppend DEF TypeOK
<1>5. Room \in Int /\ Room > 0
  BY <1>3, <1>4, BitsLenAssumption DEF StapHasRoom, Room
<1>6. StapLeft(p, 0) > 0
  <2>1. SubSeq(StapPieces(p), 1, 0) = <<>>
    BY <1>2, SubSeqEmpty
  <2>2. BytesOf(SubSeq(StapPieces(p), 1, 0)) = 0
    BY <2>1, BytesShort
  <2>3. StapLeft(p, 0) = Room - 0
    BY <2>2 DEF StapLeft
  <2> QED
    BY <1>5, <2>3
<1>7. p.nals = <<>>
  <2> SUFFICES ASSUME p.nals # <<>> PROVE FALSE
    OBVIOUS
  <2> DEFINE roomy == {k \in DOMAIN p.nals : StapLeft(p, k - 1) > 0}
  <2>1. PICK n \in Nat : n = Len(p.nals) /\ DOMAIN p.nals = 1 .. n /\ n > 0
    BY <1>2
  <2>2. 1 \in roomy
    BY <1>6, <2>1
  <2>3. IsFiniteSet(roomy)
    <3>1. roomy \subseteq 1 .. n
      BY <2>1
    <3>2. IsFiniteSet(1 .. n)
      <4>1. 1 \in Int /\ n \in Int
        BY <2>1
      <4> HIDE DEF roomy
      <4> QED
        BY <4>1, FS_Interval
    <3> HIDE DEF roomy
    <3> QED
      BY <3>1, <3>2, FS_Subset
  <2> HIDE DEF roomy
  <2>4. Cardinality(roomy) # 0
    BY <2>2, <2>3, FS_EmptySet
  <2> QED
    BY <2>4 DEF StapTaken, roomy
<1>8. Len(p.nals) = 0
  BY <1>7
<1>9. StapSizes(p) > 0
  BY PayloadsAssumption
<1>10. p.invalid > 0
  BY <1>8, <1>9 DEF StapSizes
<1> QED
  BY <1>6, <1>8, <1>10 DEF MeetsInvalid

LEMMA HoleInvStep == IInv /\ HoleInv /\ [HoleNext]_<<vars, holes>> => HoleInv'
<1> SUFFICES ASSUME IInv, HoleInv, [HoleNext]_<<vars, holes>> PROVE HoleInv'
  OBVIOUS
<1>1. TypeOK /\ bits \in Seq(Piece) /\ sync_pos \in 0 .. Len(bits)
  BY SyncPos DEF IInv, TypeOK
<1>2. CASE UNCHANGED <<vars, holes>>
  BY <1>2, HoleInvSame DEF vars
<1>3. CASE Lost /\ holes' = holes \cup {bits_pos}
  BY <1>1, <1>3, HoleInvLost DEF Lost
<1>4. CASE NextPicture /\ holes' = HolesOfEmpty
  BY <1>1, <1>4, HoleInvEmpty DEF NextPicture
<1>5. ASSUME NEW p \in Payloads, Unpacketize(p), holes' = HolesAfter(p) PROVE HoleInv'
  <2>1. p \in Payload
    BY PayloadsAssumption
  <2>2. CASE Short(p)
    <3>1. holes' = holes \cup {bits_pos}
      BY <1>5, <2>2 DEF Short, HolesAfter
    <3> QED
      BY <1>1, <2>2, <3>1, HoleInvLost DEF Short
  <2>3. CASE NotSupported(p)
    <3>1. holes' = HolesOfEmpty
      BY <1>5, <2>3 DEF NotSupported, HolesAfter
    <3> QED
      BY <1>1, <2>3, <3>1, HoleInvEmpty DEF NotSupported
  <2>4. ASSUME p.kind \in {"SINGLE", "STAP_A", "FU_A"}, status' # "EIGNORED"
        PROVE  holes' = holes
    BY <1>5, <2>4 DEF HolesAfter
  <2>5. ASSUME NEW why, why # "EIGNORED", p.kind \in {"SINGLE", "STAP_A", "FU_A"}, Abort(why)
        PROVE  HoleInv'
    BY <2>4, <2>5, HoleInvSame DEF Abort
  <2>6. CASE SingleNal(p)
    <3>1. CASE Abort("NO_ROOM")
      BY <2>5, <2>6, <3>1 DEF SingleNal
    <3>2. CASE bits' = Append(bits, Start(p.nal)) /\ status' = "SUCCESS"
      <4> DEFINE t == <<Start(p.nal)>>
      <4>1. t \in Seq(Piece) /\ bits' = bits \o t
        BY <1>1, <2>1, <2>6, <3>2, PieceTypes, AppendIsConcat DEF SingleNal
      <4>2. holes' = holes
        BY <2>4, <2>6, <3>2 DEF SingleNal
      <4>3. t # <<>> /\ t[1].start
        BY DEF Start
      <4> HIDE DEF t
      <4> QED
        BY <1>1, <4>1, <4>2, <4>3, HoleInvAppend
    <3> QED
      BY <2>6, <3>1, <3>2 DEF SingleNal
  <2>7. CASE StapA(p)
    <3>1. CASE ~ StapHasRoom(p)
      BY <2>5, <2>7, <3>1 DEF StapA
    <3>2. CASE StapHasRoom(p)
      <4> DEFINE front == SubSeq(StapPieces(p), 1, StapTaken(p))
      <4>1. /\ bits' = bits \o front /\ status' # "EIGNORED"
            /\ prev_lost' = (MeetsInvalid(p) /\ prev_lost)
        BY <2>7, <3>2 DEF StapA
      <4>2. holes' = holes
        BY <2>4, <2>7, <4>1 DEF StapA
      <4>3. /\ front \in Seq(Piece) /\ Len(front) = StapTaken(p) /\ StapTaken(p) \in Nat
            /\ \A k \in 1 .. StapTaken(p) : front[k].start
        BY <2>1, <2>7, StapFront DEF StapA
      <4>4. front = <<>> => MeetsInvalid(p)
        BY <1>1, <2>7, <3>2, <4>3, StapTakesNone DEF StapA
      <4> HIDE DEF front
      <4>5. front # <<>> => front[1].start
        BY <4>3
      <4>6. Len(bits) \in holes => IF front = <<>> THEN prev_lost' ELSE front[1].start
        BY <4>1, <4>4, <4>5 DEF HoleInv
      <4> QED
        BY <1>1, <4>1, <4>2, <4>3, <4>6, HoleInvAppend
    <3> QED
      BY <3>1, <3>2
  <2>8. CASE FuA(p)
    <3>1. CASE FuNoRoom(p)
      BY <2>5, <2>8, <3>1 DEF FuA, FuNoRoom
    <3>2. CASE FuAppend(p)
      <4>1. holes' = holes /\ bits' = bits \o FuPieces(p) /\ (p.S \/ ~ prev_lost)
        BY <2>4, <2>8, <3>2 DEF FuA, FuAppend, FuUsable
      <4>2. FuPieces(p) \in Seq(Piece)
        BY <2>1, <2>8, PieceTypes DEF FuA
      <4>3. p.S => FuPieces(p) # <<>> /\ FuPieces(p)[1].start
        BY DEF FuPieces, Start
      <4>4. Len(bits) \in holes => IF FuPieces(p) = <<>> THEN prev_lost' ELSE FuPieces(p)[1].start
        BY <4>1, <4>3 DEF HoleInv
      <4> QED
        BY <1>1, <4>1, <4>2, <4>4, HoleInvAppend
    <3>3. CASE FuRevert(p)
      <4>1. CASE Abort("SYNC_AHEAD")
        BY <2>5, <2>8, <4>1 DEF FuA
      <4>2. CASE bits' = reverted /\ status' = "EIGNORED" /\ prev_lost' = prev_lost
        <5>1. bits' = SubSeq(bits, 1, sync_pos) /\ Len(bits') = sync_pos
          BY <1>1, <4>2, SubSeqProperties DEF reverted
        <5>2. holes' = {h \in holes : h < sync_pos} \cup {sync_pos}
          BY <1>5, <2>8, <4>2, <5>1 DEF FuA, HolesAfter
        <5>3. prev_lost
          BY <3>3 DEF FuRevert, FuUsable
        <5> QED
          BY <1>1, <4>2, <5>1, <5>2, <5>3, HoleInvBack
      <4> QED
        BY <3>3, <4>1, <4>2 DEF FuRevert
    <3> QED
      BY <2>8, <3>1, <3>2, <3>3 DEF FuA
  <2> QED
    BY <1>5, <2>2, <2>3, <2>6, <2>7, <2>8 DEF Unpacketize
<1> QED
  BY <1>2, <1>3, <1>4, <1>5 DEF HoleNext

(***************************************************************************)
(* The bitstream is never continued over a place where a payload is        *)
(* missing, for every sequence of payloads, losses and pictures.           *)
(***************************************************************************)
THEOREM HolesStayOpen == HoleSpec => []NoHoleBridged
<1>1. HoleInit => IInv /\ HoleInv
  BY InvInit, HoleInvInit DEF HoleInit
<1>2. IInv /\ HoleInv /\ [HoleNext]_<<vars, holes>> => (IInv /\ HoleInv)'
  <2>1. [HoleNext]_<<vars, holes>> => [Next]_vars
    BY DEF HoleNext, Next, vars
  <2> QED
    BY <2>1, InvStep, HoleInvStep
<1>3. HoleInv => NoHoleBridged
  BY DEF HoleInv
<1> QED
  BY <1>1, <1>2, <1>3, PTL DEF HoleSpec
=============================================================================
