-------------------------- MODULE H264SessionProofs --------------------------
(***************************************************************************)
(* Theorems about H264Session, for every MTU, every size of the receiver's *)
(* buffer and every set of pictures made of proper NAL units.              *)
(*                                                                         *)
(* The sender: a picture is laid out in the bitstream (Geometry), so every *)
(* call finds the start codes it should (CallAtUnit, CallWithin), and each *)
(* payload carries a segment of a NAL unit that follows the segment before *)
(* it (Sent, Sending).  The receiver: the pieces of its bitstream are some *)
(* of these segments, each of which starts a NAL unit or continues what is *)
(* in front of it (Holding, Taking), so they join to beginnings of units   *)
(* (AllPlaced), of which those in front of the sync point stay (AllGrown). *)
(* A NAL unit none of whose payloads is lost comes to lie there (Keeping,  *)
(* UnitArrives), and when nothing is lost at all the pieces are all of the *)
(* segments (AllFilled); room for the picture is room for every payload    *)
(* (RoomEnough), so that the receiver runs on (Roomy).  A receiver of the  *)
(* payload format, RFC6184, has after each segment the units up to there   *)
(* (Reached), so that the sender's payloads carry the picture.             *)
(***************************************************************************)
EXTENDS H264Session, SequenceTheorems, FiniteSetTheorems, TLAPS

Lists == INSTANCE LinkedListTheorems
-----------------------------------------------------------------------------
(* flat[k] is seqs[1] \o ... \o seqs[k]. *)
Flat(flat, seqs, n, S) ==
  /\ flat \in [1 .. n -> Seq(S)]
  /\ flat[1] = seqs[1]
  /\ \A k \in 1 .. n - 1 : flat[k+1] = flat[k] \o seqs[k+1]

(* What the recursive function of FlattenSeq computes. *)
LEMMA FlattenIs ==
  ASSUME NEW S, NEW seqs \in Seq(Seq(S)), seqs # <<>>
  PROVE  \E flat : Flat(flat, seqs, Len(seqs), S) /\ Tx!FlattenSeq(seqs) = flat[Len(seqs)]
<1> DEFINE n == Len(seqs)
           I == {m \in Nat : m + 1 <= n => \E flat : Flat(flat, seqs, m + 1, S)}
<1>n. n \in Nat /\ n >= 1
  OBVIOUS
<1>1. 0 \in I
  <2> DEFINE one == [k \in 1 .. 1 |-> seqs[1]]
  <2>1. seqs[1] \in Seq(S)
    BY <1>n
  <2>2. one \in [1 .. 1 -> Seq(S)] /\ one[1] = seqs[1]
    BY <2>1
  <2>3. Flat(one, seqs, 1, S)
    <3> HIDE DEF one
    <3> QED BY <2>2 DEF Flat
  <2> QED
    BY <2>3
<1>2. ASSUME NEW m \in Nat, m \in I PROVE m + 1 \in I
  <2> SUFFICES ASSUME m + 2 <= n PROVE \E flat : Flat(flat, seqs, m + 2, S)
    OBVIOUS
  <2>1. PICK flat : Flat(flat, seqs, m + 1, S)
    BY <1>2, <1>n
  <2> DEFINE more == [k \in 1 .. m + 2 |-> IF k <= m + 1 THEN flat[k] ELSE flat[m+1] \o seqs[m+2]]
  <2>2. seqs[m+2] \in Seq(S) /\ flat[m+1] \in Seq(S)
    BY <2>1, <1>n DEF Flat
  <2>3. more \in [1 .. m + 2 -> Seq(S)] /\ more[1] = seqs[1]
    <3>1. \A k \in 1 .. m + 2 : more[k] \in Seq(S)
      <4> TAKE k \in 1 .. m + 2
      <4>1. flat[m+1] \o seqs[m+2] \in Seq(S)
        BY <2>2
      <4>2. k <= m + 1 => flat[k] \in Seq(S)
        BY <2>1 DEF Flat
      <4> QED BY <4>1, <4>2
    <3> QED
      BY <2>1, <3>1 DEF Flat
  <2>4. ASSUME NEW k \in 1 .. (m + 2) - 1 PROVE more[k+1] = more[k] \o seqs[k+1]
    <3>0. k \in 1 .. m + 1 /\ k + 1 \in 1 .. m + 2 /\ k \in 1 .. m + 2
      OBVIOUS
    <3>1. CASE k <= m
      <4>1. k \in 1 .. (m + 1) - 1 /\ k + 1 <= m + 1
        BY <3>1
      <4>2. more[k+1] = flat[k+1] /\ more[k] = flat[k]
        BY <3>0, <4>1
      <4>3. flat[k+1] = flat[k] \o seqs[k+1]
        BY <2>1, <4>1 DEF Flat
      <4> QED BY <4>2, <4>3
    <3>2. CASE k = m + 1
      <4>1. m + 2 \in 1 .. m + 2 /\ ~ (m + 2 <= m + 1) /\ m + 1 \in 1 .. m + 2
        OBVIOUS
      <4>2. more[m+2] = flat[m+1] \o seqs[m+2]
        BY <4>1
      <4>3. more[m+1] = flat[m+1]
        BY <4>1
      <4>4. k + 1 = m + 2
        BY <3>2
      <4> HIDE DEF more
      <4> QED BY <3>2, <4>2, <4>3, <4>4
    <3>3. k <= m \/ k = m + 1
      BY <3>0
    <3> HIDE DEF more
    <3> QED
      BY <3>1, <3>2, <3>3
  <2>5. Flat(more, seqs, m + 2, S)
    <3> HIDE DEF more
    <3> QED BY <2>3, <2>4 DEF Flat
  <2> QED
    BY <2>5
<1>3. Nat \subseteq I
  <2> HIDE DEF I
  <2> QED BY <1>1, <1>2, Lists!SetInduction
<1>4. PICK flat : Flat(flat, seqs, n, S)
  <2>0. n - 1 \in Nat /\ (n - 1) + 1 = n
    BY <1>n
  <2>1. n - 1 \in I
    BY <1>3, <2>0
  <2> QED
    BY <2>0, <2>1
<1> DEFINE Step(up) == [k \in 1 .. n |-> IF k = 1 THEN seqs[k] ELSE up[k-1] \o seqs[k]]
           flatten == CHOOSE up : up = Step(up)
<1>5. flat = Step(flat)
  <2>1. \A k \in 1 .. n : flat[k] = IF k = 1 THEN seqs[k] ELSE flat[k-1] \o seqs[k]
    <3> TAKE k \in 1 .. n
    <3>1. CASE k = 1
      BY <3>1, <1>4 DEF Flat
    <3>2. CASE k # 1
      <4>1. k - 1 \in 1 .. n - 1 /\ (k - 1) + 1 = k
        BY <3>2
      <4> QED BY <1>4, <3>2, <4>1 DEF Flat
    <3> QED
      BY <3>1, <3>2
  <2> QED
    BY <1>4, <2>1 DEF Flat
<1>6. flatten = Step(flatten)
  <2> HIDE DEF Step
  <2> QED BY <1>5
<1> HIDE DEF flatten
<1> DEFINE J == {m \in Nat : m + 1 <= n => flatten[m+1] = flat[m+1]}
<1>7. 0 \in J
  BY <1>4, <1>6, <1>n DEF Flat
<1>8. ASSUME NEW m \in Nat, m \in J PROVE m + 1 \in J
  <2> SUFFICES ASSUME m + 2 <= n PROVE flatten[m+2] = flat[m+2]
    OBVIOUS
  <2>1. flatten[m+2] = flatten[m+1] \o seqs[m+2]
    <3>1. m + 2 \in 1 .. n /\ m + 2 # 1 /\ (m + 2) - 1 = m + 1
      BY <1>n
    <3> QED BY <1>6, <3>1
  <2>2. flat[m+2] = flat[m+1] \o seqs[m+2]
    <3>1. m + 1 \in 1 .. n - 1 /\ (m + 1) + 1 = m + 2
      BY <1>n
    <3> QED BY <1>4, <3>1 DEF Flat
  <2> QED
    <3>1. flatten[m+1] = flat[m+1]
      BY <1>8, <1>n
    <3> QED BY <2>1, <2>2, <3>1
<1>9. Nat \subseteq J
  <2> HIDE DEF J
  <2> QED BY <1>7, <1>8, Lists!SetInduction
<1>10. Tx!FlattenSeq(seqs) = flatten[n]
  BY <1>n DEF Tx!FlattenSeq, flatten
<1>11. flatten[n] = flat[n]
  <2>0. n - 1 \in Nat /\ (n - 1) + 1 = n
    BY <1>n
  <2>1. n - 1 \in J
    BY <1>9, <2>0
  <2> QED
    BY <2>0, <2>1
<1> QED
  BY <1>4, <1>10, <1>11
-----------------------------------------------------------------------------
Byte == 0 .. 255

Unit == [code : {3, 4}, nal : Seq(Byte)]

ProperPicture(pic) == pic \in Seq(Unit) /\ \A k \in DOMAIN pic : ProperUnit(pic[k])

UnitBytes(unit) == Tx!StartCode(unit.code) \o unit.nal

(* off[k] is where the start code of NAL unit k of a picture begins.       *)
Geometry(pic, off) ==
  /\ off \in [1 .. Len(pic) + 1 -> Nat]
  /\ off[1] = 0
  /\ \A k \in 1 .. Len(pic) : off[k+1] = off[k] + pic[k].code + Len(pic[k].nal)
  /\ Tx!Layout(pic) \in Seq(Byte)
  /\ Len(Tx!Layout(pic)) = off[Len(pic) + 1]
  /\ \A k \in 1 .. Len(pic) : \A i \in 1 .. pic[k].code + Len(pic[k].nal) :
       Tx!Layout(pic)[off[k] + i] = UnitBytes(pic[k])[i]

(* st consists of s and, behind it, t. *)
Both(st, s, t) ==
  /\ Len(st) = Len(s) + Len(t)
  /\ \A i \in 1 .. Len(s) : st[i] = s[i]
  /\ \A i \in 1 .. Len(t) : st[Len(s) + i] = t[i]

(* What a concatenation consists of.                                       *)
LEMMA Concat ==
  ASSUME NEW S, NEW s \in Seq(S), NEW t \in Seq(S)
  PROVE  s \o t \in Seq(S) /\ Both(s \o t, s, t)
<1>1. Len(s) \in Nat /\ Len(t) \in Nat
  OBVIOUS
<1>2. \A i \in 1 .. Len(t) : (s \o t)[Len(s) + i] = t[i]
  <2> TAKE i \in 1 .. Len(t)
  <2>1. Len(s) + i \in 1 .. Len(s) + Len(t) /\ ~ (Len(s) + i <= Len(s)) /\ (Len(s) + i) - Len(s) = i
    BY <1>1
  <2> QED BY <2>1
<1>3. s \o t \in Seq(S) /\ Len(s \o t) = Len(s) + Len(t)
  OBVIOUS
<1>4. \A i \in 1 .. Len(s) : (s \o t)[i] = s[i]
  OBVIOUS
<1> QED
  BY <1>2, <1>3, <1>4 DEF Both

(* The bytes of a NAL unit and its start code.                             *)
LEMMA UnitBytesAre ==
  ASSUME NEW unit \in Unit
  PROVE  /\ UnitBytes(unit) \in Seq(Byte)
         /\ Len(UnitBytes(unit)) = unit.code + Len(unit.nal)
         /\ unit.code = 3 => /\ UnitBytes(unit)[1] = 0 /\ UnitBytes(unit)[2] = 0
                             /\ UnitBytes(unit)[3] = 1
         /\ unit.code = 4 => /\ UnitBytes(unit)[1] = 0 /\ UnitBytes(unit)[2] = 0
                             /\ UnitBytes(unit)[3] = 0 /\ UnitBytes(unit)[4] = 1
         /\ \A i \in 1 .. Len(unit.nal) : UnitBytes(unit)[unit.code + i] = unit.nal[i]
<1>0. unit.code \in {3, 4} /\ unit.nal \in Seq(Byte)
  BY DEF Unit
<1> DEFINE code == Tx!StartCode(unit.code)
<1>1. CASE unit.code = 3
  <2>1. code = <<0, 0, 1>>
    BY <1>1 DEF Tx!StartCode
  <2>2. code \in Seq(Byte) /\ Len(code) = 3
        /\ code[1] = 0 /\ code[2] = 0 /\ code[3] = 1
    BY <2>1 DEF Byte
  <2> HIDE DEF code
  <2>3. /\ code \o unit.nal \in Seq(Byte) /\ Len(code \o unit.nal) = 3 + Len(unit.nal)
        /\ \A i \in 1 .. 3 : (code \o unit.nal)[i] = code[i]
        /\ \A i \in 1 .. Len(unit.nal) : (code \o unit.nal)[3 + i] = unit.nal[i]
    <3>1. code \o unit.nal \in Seq(Byte) /\ Both(code \o unit.nal, code, unit.nal)
      BY <1>0, <2>2, Concat
    <3> QED
      BY <2>2, <3>1 DEF Both
  <2> QED
    BY <1>0, <1>1, <2>2, <2>3 DEF UnitBytes, code
<1>2. CASE unit.code = 4
  <2>1. code = <<0, 0, 0, 1>>
    BY <1>2 DEF Tx!StartCode
  <2>2. code \in Seq(Byte) /\ Len(code) = 4
        /\ code[1] = 0 /\ code[2] = 0 /\ code[3] = 0 /\ code[4] = 1
    BY <2>1 DEF Byte
  <2> HIDE DEF code
  <2>3. /\ code \o unit.nal \in Seq(Byte) /\ Len(code \o unit.nal) = 4 + Len(unit.nal)
        /\ \A i \in 1 .. 4 : (code \o unit.nal)[i] = code[i]
        /\ \A i \in 1 .. Len(unit.nal) : (code \o unit.nal)[4 + i] = unit.nal[i]
    <3>1. code \o unit.nal \in Seq(Byte) /\ Both(code \o unit.nal, code, unit.nal)
      BY <1>0, <2>2, Concat
    <3> QED
      BY <2>2, <3>1 DEF Both
  <2> QED
    BY <1>0, <1>2, <2>2, <2>3 DEF UnitBytes, code
<1> QED
  BY <1>0, <1>1, <1>2

(* Every picture has a layout.                                             *)
LEMMA GeometryExists ==
  ASSUME NEW pic \in Seq(Unit)
  PROVE  \E off : Geometry(pic, off)
<1> DEFINE n == Len(pic)
           seqs == [k \in DOMAIN pic |-> UnitBytes(pic[k])]
<1>0. n \in Nat /\ DOMAIN pic = 1 .. n
  OBVIOUS
<1>1. Tx!Layout(pic) = Tx!FlattenSeq(seqs)
  BY DEF Tx!Layout, UnitBytes
<1>u. \A k \in 1 .. n : pic[k] \in Unit /\ pic[k].code \in Nat /\ Len(pic[k].nal) \in Nat
  <2> TAKE k \in 1 .. n
  <2>1. pic[k] \in Unit
    BY <1>0
  <2>2. pic[k].code \in {3, 4} /\ pic[k].nal \in Seq(Byte)
    BY <2>1 DEF Unit
  <2> QED BY <2>1, <2>2
<1>2. \A k \in 1 .. n : /\ UnitBytes(pic[k]) \in Seq(Byte)
                        /\ Len(UnitBytes(pic[k])) = pic[k].code + Len(pic[k].nal)
  BY <1>u, UnitBytesAre
<1>3. seqs \in Seq(Seq(Byte)) /\ Len(seqs) = n /\ \A k \in 1 .. n : seqs[k] = UnitBytes(pic[k])
  BY <1>0, <1>2
<1> HIDE DEF seqs, n
<1> USE <1>0
<1>4. CASE n = 0
  <2> DEFINE zero == [k \in 1 .. 1 |-> 0]
  <2>1. Tx!FlattenSeq(seqs) = seqs /\ seqs = <<>>
    BY <1>3, <1>4 DEF Tx!FlattenSeq
  <2>2. zero \in [1 .. n + 1 -> Nat] /\ zero[1] = 0
    BY <1>4
  <2> HIDE DEF zero
  <2>3. Geometry(pic, zero)
    BY <1>1, <1>4, <2>1, <2>2 DEF Geometry, n
  <2> QED
    BY <2>3
<1>5. CASE n # 0
  <2>1. PICK flat : Flat(flat, seqs, n, Byte) /\ Tx!FlattenSeq(seqs) = flat[n]
    BY <1>0, <1>3, <1>5, FlattenIs
  <2> DEFINE off == [k \in 1 .. n + 1 |-> IF k = 1 THEN 0 ELSE Len(flat[k-1])]
  <2>2. \A k \in 1 .. n : flat[k] \in Seq(Byte)
    BY <2>1 DEF Flat
  <2>3. off \in [1 .. n + 1 -> Nat] /\ off[1] = 0 /\ \A k \in 1 .. n : off[k+1] = Len(flat[k])
    BY <1>0, <2>2
  <2> HIDE DEF off
  <2>4. ASSUME NEW k \in 1 .. n
        PROVE  off[k+1] = off[k] + pic[k].code + Len(pic[k].nal)
    <3>0. pic[k].code \in Nat /\ Len(pic[k].nal) \in Nat
      BY <1>u
    <3>1. CASE k = 1
      <4>1. off[k+1] = Len(seqs[1])
        BY <2>1, <2>3, <3>1 DEF Flat
      <4> QED BY <1>2, <1>3, <2>3, <3>0, <3>1, <4>1
    <3>2. CASE k # 1
      <4>1. k - 1 \in 1 .. n - 1 /\ (k - 1) + 1 = k /\ k - 1 \in 1 .. n
        BY <3>2
      <4>2. flat[k] = flat[k-1] \o seqs[k]
        BY <2>1, <4>1 DEF Flat
      <4>3. Len(flat[k]) = Len(flat[k-1]) + Len(seqs[k])
        BY <1>3, <2>2, <4>1, <4>2
      <4>4. off[k] = Len(flat[k-1]) /\ off[k] \in Nat
        BY <2>3, <4>1
      <4>5. Len(seqs[k]) = pic[k].code + Len(pic[k].nal) /\ off[k+1] = Len(flat[k])
        BY <1>2, <1>3, <2>3
      <4>6. Len(flat[k-1]) + Len(seqs[k]) = Len(flat[k-1]) + (pic[k].code + Len(pic[k].nal))
        BY <4>5
      <4>7. off[k+1] = off[k] + (pic[k].code + Len(pic[k].nal))
        BY <4>3, <4>4, <4>5, <4>6, Zenon
      <4> QED BY <3>0, <4>4, <4>7
    <3> QED
      BY <3>1, <3>2
  <2> DEFINE J == {m \in Nat : m + 1 <= n =>
                     \A k \in 1 .. m + 1 :
                       /\ off[k+1] <= Len(flat[m+1])
                       /\ \A i \in 1 .. Len(seqs[k]) : flat[m+1][off[k] + i] = seqs[k][i]}
  <2>5. 0 \in J
    <3>1. flat[1] = seqs[1] /\ off[1] = 0 /\ off[2] = Len(flat[1]) /\ Len(flat[1]) \in Nat
      BY <1>0, <1>5, <2>1, <2>2, <2>3 DEF Flat
    <3>2. \A i \in 1 .. Len(seqs[1]) : 0 + i = i
      OBVIOUS
    <3> QED
      BY <3>1, <3>2
  <2>6. ASSUME NEW m \in Nat, m \in J PROVE m + 1 \in J
    <3> SUFFICES ASSUME m + 2 <= n, NEW k \in 1 .. m + 2
                 PROVE  /\ off[k+1] <= Len(flat[m+2])
                        /\ \A i \in 1 .. Len(seqs[k]) : flat[m+2][off[k] + i] = seqs[k][i]
      OBVIOUS
    <3>1. m + 1 \in 1 .. n - 1 /\ (m + 1) + 1 = m + 2 /\ m + 1 \in 1 .. n /\ m + 2 \in 1 .. n
          /\ m + 1 <= n
      BY <1>0
    <3>2. flat[m+2] = flat[m+1] \o seqs[m+2]
      BY <2>1, <3>1 DEF Flat
    <3>3. off[m+2] = Len(flat[m+1]) /\ flat[m+1] \in Seq(Byte) /\ seqs[m+2] \in Seq(Byte)
      BY <1>3, <2>2, <2>3, <3>1
    <3>c. /\ Len(flat[m+2]) = Len(flat[m+1]) + Len(seqs[m+2])
          /\ Len(flat[m+1]) \in Nat /\ Len(seqs[m+2]) \in Nat
          /\ \A i \in 1 .. Len(flat[m+1]) : flat[m+2][i] = flat[m+1][i]
          /\ \A i \in 1 .. Len(seqs[m+2]) : flat[m+2][Len(flat[m+1]) + i] = seqs[m+2][i]
      <4>1. Both(flat[m+1] \o seqs[m+2], flat[m+1], seqs[m+2])
        BY <3>3, Concat
      <4>2. Both(flat[m+2], flat[m+1], seqs[m+2])
        BY <3>2, <4>1, Zenon
      <4>3. Len(flat[m+1]) \in Nat /\ Len(seqs[m+2]) \in Nat
        BY <3>3
      <4> QED BY <4>2, <4>3 DEF Both
    <3>4. CASE k = m + 2
      <4>1. off[k+1] = Len(flat[m+2])
        BY <2>3, <3>1, <3>4
      <4> QED BY <3>3, <3>4, <3>c, <4>1
    <3>5. CASE k # m + 2
      <4>1. k \in 1 .. m + 1 /\ k \in 1 .. n
        BY <3>1, <3>5
      <4>2. /\ off[k+1] <= Len(flat[m+1])
            /\ \A i \in 1 .. Len(seqs[k]) : flat[m+1][off[k] + i] = seqs[k][i]
        BY <2>6, <3>1, <4>1
      <4>3. off[k] \in Nat /\ off[k] + Len(seqs[k]) = off[k+1] /\ Len(seqs[k]) \in Nat
        <5>0. off[k] \in Nat
          <6>1. k \in 1 .. n + 1
            BY <4>1
          <6> QED BY <2>3, <6>1
        <5>1. off[k] \in Nat /\ Len(seqs[k]) = pic[k].code + Len(pic[k].nal)
          BY <1>2, <1>3, <4>1, <5>0
        <5>2. pic[k].code \in Nat /\ Len(pic[k].nal) \in Nat
          BY <1>u, <4>1
        <5> QED BY <2>4, <4>1, <5>1, <5>2, SMTT(30)
      <4>4. \A i \in 1 .. Len(seqs[k]) : off[k] + i \in 1 .. Len(flat[m+1])
        BY <3>c, <4>2, <4>3, SMTT(30)
      <4>5. off[k+1] \in Nat
        BY <2>3, <4>1
      <4>6. off[k+1] <= Len(flat[m+2])
        <5>0. \A x, y \in Nat : x <= x + y /\ x + y \in Nat
          OBVIOUS
        <5>1. /\ Len(flat[m+1]) <= Len(flat[m+1]) + Len(seqs[m+2])
              /\ Len(flat[m+1]) + Len(seqs[m+2]) \in Nat
          BY <3>c, <5>0, Zenon
        <5>2. Len(flat[m+1]) <= Len(flat[m+2]) /\ Len(flat[m+2]) \in Nat
          BY <3>c, <5>1, Zenon
        <5>3. off[k+1] <= Len(flat[m+1]) /\ Len(flat[m+1]) \in Nat
          BY <3>c, <4>2
        <5> QED BY <4>5, <5>2, <5>3
      <4>7. ASSUME NEW i \in 1 .. Len(seqs[k]) PROVE flat[m+2][off[k] + i] = seqs[k][i]
        <5>1. flat[m+2][off[k] + i] = flat[m+1][off[k] + i]
          BY <3>c, <4>4, <4>7
        <5> QED BY <4>2, <4>7, <5>1
      <4> QED BY <4>6, <4>7
    <3> QED
      BY <3>4, <3>5
  <2>7. Nat \subseteq J
    <3> HIDE DEF J
    <3> QED BY <2>5, <2>6, Lists!SetInduction
  <2>8. \A k \in 1 .. n : \A i \in 1 .. Len(seqs[k]) : flat[n][off[k] + i] = seqs[k][i]
    <3>1. n - 1 \in Nat /\ (n - 1) + 1 = n
      BY <1>0, <1>5
    <3>2. n - 1 \in J
      BY <2>7, <3>1
    <3> QED
      BY <3>1, <3>2
  <2>9. Len(flat[n]) = off[n+1] /\ flat[n] \in Seq(Byte)
    BY <1>0, <1>5, <2>2, <2>3
  <2>10. Geometry(pic, off)
    <3>1. Tx!Layout(pic) = flat[n]
      BY <1>1, <2>1
    <3>2. \A k \in 1 .. n : Len(seqs[k]) = pic[k].code + Len(pic[k].nal) /\ seqs[k] = UnitBytes(pic[k])
      BY <1>2, <1>3
    <3>3. \A k \in 1 .. n : \A i \in 1 .. pic[k].code + Len(pic[k].nal) :
            Tx!Layout(pic)[off[k] + i] = UnitBytes(pic[k])[i]
      BY <2>8, <3>1, <3>2
    <3>4. Tx!Layout(pic) \in Seq(Byte) /\ Len(Tx!Layout(pic)) = off[n+1]
      BY <2>9, <3>1
    <3> QED BY <2>3, <2>4, <3>3, <3>4, Zenon DEF Geometry, n
  <2> QED
    BY <2>10
<1> QED
  BY <1>4, <1>5
-----------------------------------------------------------------------------
CodeLen(pic, k) == pic[k].code
NalLen(pic, k)  == Len(pic[k].nal)

(* The types of a NAL unit of a picture.                                   *)
LEMMA UnitTypes ==
  ASSUME NEW pic, ProperPicture(pic), NEW k \in 1 .. Len(pic)
  PROVE  /\ pic[k] \in Unit
         /\ CodeLen(pic, k) \in {3, 4}
         /\ NalLen(pic, k) \in Nat /\ NalLen(pic, k) >= 1
         /\ pic[k].nal \in Seq(Byte)
<1>1. pic[k] \in Unit /\ k \in DOMAIN pic
  BY DEF ProperPicture
<1>2. pic[k].code \in {3, 4} /\ pic[k].nal \in Seq(Byte)
  BY <1>1 DEF Unit
<1>3. pic[k].nal # <<>>
  BY <1>1 DEF ProperPicture, ProperUnit
<1>4. Len(pic[k].nal) \in Nat /\ Len(pic[k].nal) # 0
  BY <1>2, <1>3
<1> QED
  BY <1>1, <1>2, <1>4 DEF CodeLen, NalLen

(* NAL units lie one behind the other, and nothing lies between them. *)
LEMMA Places ==
  ASSUME NEW pic, ProperPicture(pic), NEW off, Geometry(pic, off)
  PROVE  /\ \A k \in 1 .. Len(pic) : off[k+1] = off[k] + CodeLen(pic, k) + NalLen(pic, k)
         /\ \A j \in 1 .. Len(pic) : \A k \in 1 .. Len(pic) + 1 :
              j < k => off[j] + CodeLen(pic, j) + NalLen(pic, j) <= off[k]
         /\ \A p \in 0 .. off[Len(pic) + 1] - 1 :
              \E k \in 1 .. Len(pic) : off[k] <= p /\ p < off[k+1]
<1> DEFINE n == Len(pic)
<1>0. n \in Nat
  BY DEF ProperPicture
<1>1. \A k \in 1 .. n + 1 : off[k] \in Nat
  BY DEF Geometry
<1>2. \A k \in 1 .. n : /\ off[k+1] = off[k] + CodeLen(pic, k) + NalLen(pic, k)
  BY DEF Geometry, CodeLen, NalLen
<1>3. \A k \in 1 .. n : CodeLen(pic, k) \in {3, 4} /\ NalLen(pic, k) \in Nat /\ NalLen(pic, k) >= 1
  BY UnitTypes
<1> HIDE DEF n
<1> USE <1>0
<1>4. \A k \in 1 .. n : off[k+1] \in Nat /\ off[k] \in Nat /\ off[k] <= off[k+1]
  <2> TAKE k \in 1 .. n
  <2>1. k \in 1 .. n + 1 /\ k + 1 \in 1 .. n + 1
    OBVIOUS
  <2> QED BY <1>1, <1>2, <1>3, <2>1
<1> DEFINE J == {m \in Nat : m <= n => \A j \in 1 .. m : off[j+1] <= off[m+1]}
           K == {m \in Nat : m <= n =>
                   \A p \in 0 .. off[m+1] - 1 : \E k \in 1 .. m : off[k] <= p /\ p < off[k+1]}
<1>5. 0 \in J
  OBVIOUS
<1>6. ASSUME NEW m \in Nat, m \in J PROVE m + 1 \in J
  <2> SUFFICES ASSUME m + 1 <= n, NEW j \in 1 .. m + 1 PROVE off[j+1] <= off[m+2]
    OBVIOUS
  <2>1. m + 1 \in 1 .. n /\ (m + 1) + 1 = m + 2 /\ j \in 1 .. n
    OBVIOUS
  <2>2. CASE j = m + 1
    BY <1>4, <2>1, <2>2
  <2>3. CASE j # m + 1
    <3>1. off[j+1] <= off[m+1]
      BY <1>6, <2>3
    <3>2. off[m+1] <= off[m+2] /\ off[m+1] \in Nat /\ off[m+2] \in Nat /\ off[j+1] \in Nat
      BY <1>4, <2>1
    <3> QED BY <3>1, <3>2
  <2> QED BY <2>2, <2>3
<1>7. Nat \subseteq J
  <2> HIDE DEF J
  <2> QED BY <1>5, <1>6, Lists!SetInduction
<1>8. 0 \in K
  <2>1. off[1] = 0
    BY DEF Geometry
  <2> QED BY <2>1
<1>9. ASSUME NEW m \in Nat, m \in K PROVE m + 1 \in K
  <2> SUFFICES ASSUME m + 1 <= n, NEW p \in 0 .. off[m+2] - 1
               PROVE  \E k \in 1 .. m + 1 : off[k] <= p /\ p < off[k+1]
    OBVIOUS
  <2>1. m + 1 \in 1 .. n /\ (m + 1) + 1 = m + 2
    OBVIOUS
  <2>2. off[m+1] \in Nat /\ off[m+2] \in Nat
    BY <1>4, <2>1
  <2>3. CASE p < off[m+1]
    <3>1. p \in 0 .. off[m+1] - 1
      BY <2>2, <2>3
    <3>2. PICK k \in 1 .. m : off[k] <= p /\ p < off[k+1]
      BY <1>9, <3>1
    <3>3. k \in 1 .. m + 1
      OBVIOUS
    <3> QED BY <3>2, <3>3
  <2>4. CASE ~ (p < off[m+1])
    <3>1. off[m+1] <= p /\ p < off[m+2]
      BY <2>2, <2>4
    <3>2. m + 1 \in 1 .. m + 1
      OBVIOUS
    <3> QED BY <2>1, <3>1, <3>2
  <2> QED BY <2>3, <2>4
<1>10. Nat \subseteq K
  <2> HIDE DEF K
  <2> QED BY <1>8, <1>9, Lists!SetInduction
<1>11. ASSUME NEW j \in 1 .. n, NEW k \in 1 .. n + 1, j < k
       PROVE  off[j] + CodeLen(pic, j) + NalLen(pic, j) <= off[k]
  <2>1. k - 1 \in Nat /\ k - 1 <= n /\ j \in 1 .. k - 1 /\ (k - 1) + 1 = k
    BY <1>11
  <2>2. off[j+1] <= off[k]
    BY <1>7, <2>1
  <2> QED BY <1>2, <2>2
<1>12. \A p \in 0 .. off[n+1] - 1 : \E k \in 1 .. n : off[k] <= p /\ p < off[k+1]
  BY <1>10
<1> QED
  BY <1>2, <1>11, <1>12 DEF n

(* From offset q on, buffer b holds the picture. *)
Agrees(b, pic, q) == \A i \in q .. Len(Tx!Layout(pic)) - 1 : b[i] = Tx!Layout(pic)[i+1]

(* The byte at any place of a NAL unit that is not overwritten.            *)
LEMMA ByteAt ==
  ASSUME NEW pic, ProperPicture(pic), NEW off, Geometry(pic, off),
         NEW q \in Nat, NEW b, Agrees(b, pic, q), NEW k \in 1 .. Len(pic)
  PROVE  /\ \A i \in 0 .. CodeLen(pic, k) - 1 :
              off[k] + i >= q => b[off[k] + i] = IF i = CodeLen(pic, k) - 1 THEN 1 ELSE 0
         /\ \A i \in 0 .. NalLen(pic, k) - 1 :
              off[k] + CodeLen(pic, k) + i >= q =>
                b[off[k] + CodeLen(pic, k) + i] = pic[k].nal[i+1]
<1> DEFINE code == CodeLen(pic, k)
           len  == NalLen(pic, k)
           L    == Len(Tx!Layout(pic))
           bytes == UnitBytes(pic[k])
<1>1. /\ pic[k] \in Unit /\ code \in {3, 4} /\ len \in Nat /\ len >= 1
      /\ code = pic[k].code /\ len = Len(pic[k].nal)
  BY UnitTypes DEF CodeLen, NalLen
<1>2. /\ off[k] \in Nat /\ L \in Nat
      /\ \A i \in 1 .. code + len : Tx!Layout(pic)[off[k] + i] = bytes[i]
  <2>1. k \in 1 .. Len(pic) + 1
    OBVIOUS
  <2> QED BY <1>1, <2>1, SMTT(30) DEF Geometry
<1>3. off[k] + code + len <= L
  <2>1. Len(pic) \in Nat /\ L = off[Len(pic) + 1]
    BY DEF ProperPicture, Geometry
  <2>2. Len(pic) + 1 \in 1 .. Len(pic) + 1 /\ k < Len(pic) + 1
    BY <2>1
  <2> QED BY <2>1, <2>2, Places
<1>4. /\ code = 3 => bytes[1] = 0 /\ bytes[2] = 0 /\ bytes[3] = 1
      /\ code = 4 => bytes[1] = 0 /\ bytes[2] = 0 /\ bytes[3] = 0 /\ bytes[4] = 1
      /\ \A i \in 1 .. len : bytes[code + i] = pic[k].nal[i]
  BY <1>1, UnitBytesAre
<1> HIDE DEF code, len, L, bytes
<1>5. ASSUME NEW i \in 0 .. code + len - 1, off[k] + i >= q
      PROVE  b[off[k] + i] = bytes[i+1]
  <2>1. off[k] + i \in q .. L - 1 /\ i + 1 \in 1 .. code + len /\ (off[k] + i) + 1 = off[k] + (i + 1)
    <3>1. off[k] \in Nat /\ L \in Nat /\ code \in Nat /\ len \in Nat /\ i \in Nat
      BY <1>1, <1>2
    <3>2. off[k] + i \in q .. L - 1
      BY <1>3, <1>5, <3>1
    <3>3. i + 1 \in 1 .. code + len
      BY <3>1
    <3>4. (off[k] + i) + 1 = off[k] + (i + 1)
      BY <3>1
    <3> QED BY <3>2, <3>3, <3>4
  <2>2. b[off[k] + i] = Tx!Layout(pic)[(off[k] + i) + 1]
    BY <2>1 DEF Agrees, L
  <2> QED BY <1>2, <2>1, <2>2
<1>6. ASSUME NEW i \in 0 .. code - 1, off[k] + i >= q
      PROVE  b[off[k] + i] = IF i = code - 1 THEN 1 ELSE 0
  <2>1. i \in 0 .. code + len - 1
    BY <1>1
  <2>2. b[off[k] + i] = bytes[i+1]
    BY <1>5, <1>6, <2>1
  <2>3. CASE code = 3
    <3>1. i \in {0, 1, 2}
      BY <2>3
    <3> QED BY <1>4, <2>2, <2>3, <3>1
  <2>4. CASE code = 4
    <3>1. i \in {0, 1, 2, 3}
      BY <2>4
    <3> QED BY <1>4, <2>2, <2>4, <3>1
  <2> QED BY <1>1, <2>3, <2>4
<1>7. ASSUME NEW i \in 0 .. len - 1, off[k] + code + i >= q
      PROVE  b[off[k] + code + i] = pic[k].nal[i+1]
  <2>1. code + i \in 0 .. code + len - 1 /\ off[k] + (code + i) = off[k] + code + i
        /\ (code + i) + 1 = code + (i + 1) /\ i + 1 \in 1 .. len
    <3>1. off[k] \in Nat /\ code \in Nat /\ len \in Nat /\ i \in Nat
      BY <1>1, <1>2
    <3>2. code + i \in 0 .. code + len - 1 /\ i + 1 \in 1 .. len
      BY <3>1
    <3>3. off[k] + (code + i) = off[k] + code + i
      BY <3>1
    <3>4. (code + i) + 1 = code + (i + 1)
      BY <3>1
    <3> QED BY <3>2, <3>3, <3>4
  <2>2. b[off[k] + (code + i)] = bytes[(code + i) + 1]
    BY <1>5, <1>7, <2>1
  <2> QED BY <1>4, <2>1, <2>2
<1> QED
  BY <1>6, <1>7 DEF code, len

(* The start codes are the ones between the NAL units, and there are no    *)
(* others.                                                                 *)
LEMMA CodesAre ==
  ASSUME NEW pic, ProperPicture(pic), NEW off, Geometry(pic, off),
         NEW q \in Nat, NEW b, Agrees(b, pic, q)
  PROVE  /\ \A p \in q .. off[Len(pic) + 1] - 3 :
              Tx!CodeAt(b, p) => \E k \in 1 .. Len(pic) : p = off[k] + CodeLen(pic, k) - 3
         /\ \A k \in 1 .. Len(pic) :
              off[k] + CodeLen(pic, k) - 3 >= q => Tx!CodeAt(b, off[k] + CodeLen(pic, k) - 3)
<1> DEFINE n == Len(pic)
<1>0. n \in Nat /\ \A k \in 1 .. n + 1 : off[k] \in Nat
  <2>1. n \in Nat
    BY DEF ProperPicture
  <2>2. \A k \in 1 .. n + 1 : off[k] \in Nat
    BY DEF Geometry
  <2> QED BY <2>1, <2>2
<1>1. ASSUME NEW p \in q .. off[n+1] - 3, Tx!CodeAt(b, p)
      PROVE  \E k \in 1 .. n : p = off[k] + CodeLen(pic, k) - 3
  <2>0. off[n+1] \in Nat /\ p \in Nat
    BY <1>0
  <2>1. p \in 0 .. off[n+1] - 1
    BY <2>0
  <2>2. PICK k \in 1 .. n : off[k] <= p /\ p < off[k+1]
    BY <2>1, Places
  <2> DEFINE code == CodeLen(pic, k)
             len  == NalLen(pic, k)
             nal  == pic[k].nal
  <2>3. /\ code \in {3, 4} /\ len \in Nat /\ len >= 1 /\ off[k] \in Nat
        /\ off[k+1] = off[k] + code + len
    BY <1>0, UnitTypes, Places
  <2>4. /\ \A i \in 0 .. code - 1 : off[k] + i >= q => b[off[k] + i] = IF i = code - 1 THEN 1 ELSE 0
        /\ \A i \in 0 .. len - 1 : off[k] + code + i >= q => b[off[k] + code + i] = nal[i+1]
    BY ByteAt
  <2>5. b[p] = 0 /\ b[p+1] = 0 /\ b[p+2] = 1
    BY <1>1 DEF Tx!CodeAt
  <2>6. /\ nal[len] # 0
        /\ \A i \in 1 .. len-2 : ~ (nal[i] = 0 /\ nal[i+1] = 0 /\ nal[i+2] = 1)
    <3>1. ProperUnit(pic[k])
      BY DEF ProperPicture
    <3> QED BY <3>1 DEF ProperUnit, NalLen
  <2> HIDE DEF code, len, nal
  <2> DEFINE i == p - off[k]
  <2>o. off[k] \in Nat /\ off[k] <= p /\ p < off[k] + code + len
    BY <2>2, <2>3, Zenon
  <2>t. code \in Nat /\ len \in Nat /\ p \in Nat
    BY <2>0, <2>3
  <2>7. i \in Nat /\ p = off[k] + i /\ i < code + len
    <3>1. i \in Nat
      BY <2>o, <2>t
    <3>2. p = off[k] + i
      BY <2>o, <2>t
    <3>3. i < code + len
      BY <2>o, <2>t
    <3> QED BY <3>1, <3>2, <3>3
  <2> HIDE DEF i
  <2>8. CASE i = code - 3
    BY <2>3, <2>7, <2>8 DEF code
  <2>9. CASE i < code - 3
    <3>1. code = 4 /\ i = 0
      BY <2>3, <2>7, <2>9
    <3>2. 2 \in 0 .. code - 1 /\ off[k] + 2 >= q /\ 2 # code - 1 /\ p + 2 = off[k] + 2
      BY <2>3, <2>7, <3>1
    <3>3. b[off[k] + 2] = 0
      BY <2>4, <3>2
    <3> QED BY <2>5, <3>2, <3>3
  <2>10. CASE i = code - 2
    <3>1. code - 1 \in 0 .. code - 1 /\ off[k] + (code - 1) >= q /\ p + 1 = off[k] + (code - 1)
      BY <2>3, <2>7, <2>10, SMTT(30)
    <3>2. b[off[k] + (code - 1)] = 1
      BY <2>4, <3>1
    <3> QED BY <2>5, <3>1, <3>2
  <2>11. CASE i = code - 1
    <3>1. code - 1 \in 0 .. code - 1 /\ off[k] + (code - 1) >= q /\ p = off[k] + (code - 1)
      BY <2>3, <2>7, <2>11
    <3>2. b[off[k] + (code - 1)] = 1
      BY <2>4, <3>1
    <3> QED BY <2>5, <3>1, <3>2
  <2>12. CASE i >= code
    <3> DEFINE m == i - code
    <3>0. m \in 0 .. len - 1 /\ i = code + m
      BY <2>7, <2>12, <2>t
    <3> HIDE DEF m
    <3>1. m \in 0 .. len - 1 /\ p = off[k] + code + m /\ off[k] + code + m >= q
      <4>1. m \in Nat
        BY <3>0
      <4>2. p = off[k] + code + m
        <5>1. \A x, y, z \in Nat : x + (y + z) = x + y + z
          OBVIOUS
        <5>2. p = off[k] + (code + m)
          BY <2>7, <3>0, Zenon
        <5> QED BY <2>o, <2>t, <4>1, <5>1, <5>2, ZenonT(60)
      <4> QED BY <3>0, <4>2
    <3>2. b[p] = nal[m+1]
      BY <2>4, <3>1
    <3>3. m # len - 1
      BY <2>3, <2>5, <2>6, <3>1, <3>2, SMTT(30)
    <3>4. m + 1 \in 0 .. len - 1 /\ p + 1 = off[k] + code + (m + 1)
          /\ off[k] + code + (m + 1) >= q /\ (m + 1) + 1 = m + 2
      <4>0. m \in Nat
        BY <3>1
      <4>1. m + 1 \in 0 .. len - 1
        BY <2>3, <3>1, <3>3, <2>t, <4>0
      <4>2. p + 1 = off[k] + code + (m + 1)
        <5>1. \A x, y, z \in Nat : (x + y + z) + 1 = x + y + (z + 1)
          OBVIOUS
        <5>2. p + 1 = (off[k] + code + m) + 1
          BY <3>1, Zenon
        <5> QED BY <2>o, <2>t, <4>0, <5>1, <5>2, ZenonT(60)
      <4>3. off[k] + code + (m + 1) >= q
        BY <2>o, <2>t, <3>1, <4>0, SMTT(30)
      <4>4. (m + 1) + 1 = m + 2
        BY <4>0
      <4> QED BY <4>1, <4>2, <4>3, <4>4
    <3>5. b[p+1] = nal[m+2]
      BY <2>4, <3>4
    <3>6. m # len - 2
      BY <2>3, <2>5, <2>6, <3>1, <3>5
    <3>7. m + 2 \in 0 .. len - 1 /\ p + 2 = off[k] + code + (m + 2)
          /\ off[k] + code + (m + 2) >= q /\ (m + 2) + 1 = m + 3
      <4>0. m \in Nat
        BY <3>1
      <4>1. m + 2 \in 0 .. len - 1
        BY <2>3, <3>1, <3>3, <3>6, <2>t, <4>0
      <4>2. p + 2 = off[k] + code + (m + 2)
        <5>1. \A x, y, z \in Nat : (x + y + z) + 2 = x + y + (z + 2)
          OBVIOUS
        <5>2. p + 2 = (off[k] + code + m) + 2
          BY <3>1, Zenon
        <5> QED BY <2>o, <2>t, <4>0, <5>1, <5>2, ZenonT(60)
      <4>3. off[k] + code + (m + 2) >= q
        BY <2>o, <2>t, <3>1, <4>0, SMTT(30)
      <4>4. (m + 2) + 1 = m + 3
        BY <4>0
      <4> QED BY <4>1, <4>2, <4>3, <4>4
    <3>8. b[p+2] = nal[m+3]
      BY <2>4, <3>7
    <3>9. m + 1 \in 1 .. len - 2 /\ (m + 1) + 1 = m + 2 /\ (m + 1) + 2 = m + 3
      BY <2>3, <3>1, <3>7
    <3> QED BY <2>5, <2>6, <3>2, <3>5, <3>8, <3>9
  <2> QED
    BY <2>3, <2>7, <2>8, <2>9, <2>10, <2>11, <2>12
<1>2. ASSUME NEW k \in 1 .. n, off[k] + CodeLen(pic, k) - 3 >= q
      PROVE  Tx!CodeAt(b, off[k] + CodeLen(pic, k) - 3)
  <2> DEFINE code == CodeLen(pic, k)
  <2>1. code \in {3, 4} /\ off[k] \in Nat
    BY <1>0, UnitTypes
  <2>2. \A i \in 0 .. code - 1 : off[k] + i >= q => b[off[k] + i] = IF i = code - 1 THEN 1 ELSE 0
    BY ByteAt
  <2>3. off[k] + code - 3 >= q
    BY <1>2
  <2> HIDE DEF code
  <2>4. /\ code - 3 \in 0 .. code - 1 /\ code - 2 \in 0 .. code - 1 /\ code - 1 \in 0 .. code - 1
        /\ off[k] + (code - 3) >= q /\ off[k] + (code - 2) >= q /\ off[k] + (code - 1) >= q
        /\ off[k] + (code - 3) = off[k] + code - 3
        /\ off[k] + (code - 2) = off[k] + code - 3 + 1
        /\ off[k] + (code - 1) = off[k] + code - 3 + 2
        /\ code - 3 # code - 1 /\ code - 2 # code - 1
    BY <2>1, <2>3
  <2>5. b[off[k] + (code - 3)] = 0 /\ b[off[k] + (code - 2)] = 0 /\ b[off[k] + (code - 1)] = 1
    BY <2>2, <2>4
  <2>6. Tx!CodeAt(b, off[k] + code - 3)
    BY <2>4, <2>5 DEF Tx!CodeAt
  <2> QED BY <2>6 DEF code
<1> QED
  BY <1>1, <1>2

(* find_next_nal_unit finds the first of the start codes there are.        *)
LEMMA FindFirst ==
  ASSUME NEW b, NEW start \in Nat, NEW end \in Int, NEW f \in Tx!Codes(b, start, end),
         \A g \in Tx!Codes(b, start, end) : f <= g
  PROVE  /\ f > start /\ b[f-1] = 0 => Tx!find_next_nal_unit(b, start, end) = f - 1
         /\ ~ (f > start /\ b[f-1] = 0) => Tx!find_next_nal_unit(b, start, end) = f
<1> DEFINE found == Tx!Codes(b, start, end)
           first == Tx!Min(found)
<1>1. found \subseteq Int
  BY DEF Tx!Codes
<1>2. first = f
  <2>1. \A x \in found : (\A y \in found : x <= y) => x = f
    <3> TAKE x \in found
    <3> HAVE \A y \in found : x <= y
    <3>1. x <= f /\ f <= x /\ x \in Int /\ f \in Int
      BY <1>1
    <3> QED BY <3>1
  <2> HIDE DEF found
  <2>2. f \in found /\ \A y \in found : f <= y
    BY DEF found
  <2> QED BY <2>1, <2>2 DEF Tx!Min
<1> HIDE DEF first
<1>3. found # {}
  OBVIOUS
<1>4. Tx!find_next_nal_unit(b, start, end) =
        IF first > start /\ b[first-1] = 0 THEN first - 1 ELSE first
  BY <1>3 DEF Tx!find_next_nal_unit, first
<1> QED
  BY <1>2, <1>4

(* It finds nothing where there is none.                                   *)
LEMMA FindNone ==
  ASSUME NEW b, NEW start, NEW end, Tx!Codes(b, start, end) = {}
  PROVE  Tx!find_next_nal_unit(b, start, end) = Tx!NULL
BY DEF Tx!find_next_nal_unit

(* From inside NAL unit n: the start code behind it, if it can be seen.    *)
LEMMA FindEnd ==
  ASSUME NEW pic, ProperPicture(pic), NEW off, Geometry(pic, off),
         NEW n \in 1 .. Len(pic), NEW q \in Nat, NEW b, Agrees(b, pic, q),
         off[n] + CodeLen(pic, n) <= q, q < off[n+1],
         NEW end \in Nat, end <= off[Len(pic) + 1]
  PROVE  /\ n < Len(pic) /\ off[n+1] + CodeLen(pic, n+1) <= end =>
              Tx!find_next_nal_unit(b, q, end) = off[n+1]
         /\ ~ (n < Len(pic) /\ off[n+1] + CodeLen(pic, n+1) <= end) =>
              Tx!find_next_nal_unit(b, q, end) = Tx!NULL
<1> DEFINE N == Len(pic)
           found == Tx!Codes(b, q, end)
<1>0. N \in Nat /\ \A k \in 1 .. N + 1 : off[k] \in Nat
  BY DEF ProperPicture, Geometry
<1>1. off[n] \in Nat /\ off[n+1] \in Nat /\ off[N+1] \in Nat
  <2>1. n \in 1 .. N + 1 /\ n + 1 \in 1 .. N + 1 /\ N + 1 \in 1 .. N + 1
    BY <1>0
  <2> QED BY <1>0, <2>1
<1>2. \A k \in 1 .. N : /\ CodeLen(pic, k) \in {3, 4}
                        /\ NalLen(pic, k) \in Nat /\ NalLen(pic, k) >= 1
                        /\ off[k] \in Nat
  BY <1>0, UnitTypes
<1>3. ASSUME NEW p \in found
      PROVE  n < N /\ p >= off[n+1] + CodeLen(pic, n+1) - 3 /\ p \in Nat
             /\ p + 3 <= end /\ p >= q
  <2>1. p \in q .. off[N+1] - 3 /\ Tx!CodeAt(b, p) /\ p \in Nat /\ p + 3 <= end /\ p >= q
    <3>1. p \in q .. end - 3 /\ Tx!CodeAt(b, p)
      BY DEF Tx!Codes
    <3> QED BY <1>1, <3>1
  <2>2. PICK k \in 1 .. N : p = off[k] + CodeLen(pic, k) - 3
    BY <2>1, CodesAre
  <2>3. k > n
    <3> SUFFICES ASSUME k <= n PROVE FALSE
      BY <1>0
    <3>p. p = off[k] + CodeLen(pic, k) - 3 /\ p >= off[n] + CodeLen(pic, n)
      <4>1. CodeLen(pic, n) \in {3, 4}
        BY <1>2
      <4> QED BY <1>1, <2>1, <2>2, <4>1, SMTT(30)
    <3>c. CodeLen(pic, k) \in Int /\ CodeLen(pic, n) \in Int /\ off[k] \in Int
          /\ NalLen(pic, k) >= 1 /\ NalLen(pic, k) \in Int /\ CodeLen(pic, n) >= 0
      BY <1>2, SMTT(30)
    <3>1. CASE k = n
      <4>1. p = off[n] + CodeLen(pic, n) - 3
        BY <3>1, <3>p, Zenon
      <4> QED BY <1>1, <3>p, <3>c, <4>1
    <3>2. CASE k # n
      <4>1. k < n /\ n \in 1 .. N + 1
        BY <1>0, <3>2
      <4>2. off[k] + CodeLen(pic, k) + NalLen(pic, k) <= off[n]
        BY <4>1, Places
      <4>3. off[k] + CodeLen(pic, k) - 3 < off[n]
        <5>1. \A x, y, z, w \in Int : x + y + z <= w /\ z >= 1 => x + y - 3 < w
          OBVIOUS
        <5>2. off[n] \in Int
          BY <1>1
        <5> QED BY <3>c, <4>2, <5>1, <5>2, Zenon
      <4>4. p < off[n]
        BY <2>2, <4>3, Zenon
      <4> QED BY <1>1, <2>1, <3>p, <3>c, <4>4, SMTT(30)
    <3> QED BY <3>1, <3>2
  <2>4. n < N /\ n + 1 \in 1 .. N
    BY <1>0, <2>3
  <2>5. p >= off[n+1] + CodeLen(pic, n+1) - 3
    <3>1. CASE k = n + 1
      BY <1>1, <1>2, <2>2, <2>4, <3>1
    <3>2. CASE k # n + 1
      <4>1. n + 1 < k /\ k \in 1 .. N + 1
        BY <1>0, <2>3, <3>2
      <4>2. off[n+1] + CodeLen(pic, n+1) + NalLen(pic, n+1) <= off[k]
        BY <2>4, <4>1, Places
      <4>3. CodeLen(pic, k) \in {3, 4} /\ CodeLen(pic, n+1) \in {3, 4} /\ off[k] \in Nat
            /\ NalLen(pic, n+1) \in Nat
        BY <1>2, <2>4
      <4>4. off[n+1] + CodeLen(pic, n+1) <= off[k]
        BY <1>1, <4>2, <4>3, SMTT(30)
      <4>5. off[n+1] + CodeLen(pic, n+1) - 3 <= off[k] + CodeLen(pic, k) - 3
        BY <1>1, <4>3, <4>4, SMTT(30)
      <4> QED BY <2>2, <4>5, Zenon
    <3> QED BY <3>1, <3>2
  <2> QED BY <2>1, <2>4, <2>5
<1>4. ASSUME n < N, off[n+1] + CodeLen(pic, n+1) <= end
      PROVE  Tx!find_next_nal_unit(b, q, end) = off[n+1]
  <2> DEFINE c == CodeLen(pic, n+1)
             f == off[n+1] + c - 3
  <2>1. c \in {3, 4} /\ n + 1 \in 1 .. N
    BY <1>0, <1>2, <1>4
  <2>2. f \in Nat /\ f >= q /\ f \in q .. end - 3 /\ off[n+1] + c - 3 >= q
    BY <1>1, <1>4, <2>1
  <2>3. Tx!CodeAt(b, f)
    BY <2>1, <2>2, CodesAre
  <2>4. f \in found
    BY <2>2, <2>3 DEF Tx!Codes
  <2>5. \A g \in found : f <= g
    BY <1>1, <1>3, <2>1
  <2>6. q \in Nat /\ end \in Int
    OBVIOUS
  <2>7. /\ f > q /\ b[f-1] = 0 => Tx!find_next_nal_unit(b, q, end) = f - 1
        /\ ~ (f > q /\ b[f-1] = 0) => Tx!find_next_nal_unit(b, q, end) = f
    <3> HIDE DEF f
    <3> QED BY <2>4, <2>5, <2>6, FindFirst
  <2>8. CASE c = 4
    <3>1. f = off[n+1] + 1 /\ f > q /\ f - 1 = off[n+1] /\ off[n+1] + 0 = off[n+1] /\ off[n+1] >= q
      BY <1>1, <2>8
    <3>2. 0 \in 0 .. c - 1 /\ 0 # c - 1
      BY <2>8
    <3>3. \A i \in 0 .. c - 1 :
            off[n+1] + i >= q => b[off[n+1] + i] = IF i = c - 1 THEN 1 ELSE 0
      BY <2>1, ByteAt
    <3>4. b[off[n+1] + 0] = 0
      BY <3>1, <3>2, <3>3
    <3> QED BY <2>7, <3>1, <3>4
  <2>9. CASE c = 3
    <3>1. f = off[n+1] /\ f - 1 = off[n+1] - 1
      BY <1>1, <2>9
    <3>2. b[off[n+1] - 1] # 0
      <4> DEFINE l == NalLen(pic, n)
                 e == CodeLen(pic, n)
      <4>1. l \in Nat /\ l >= 1 /\ e \in {3, 4} /\ off[n+1] = off[n] + e + l
        BY <1>2, Places
      <4>2. /\ \A i \in 0 .. e - 1 : off[n] + i >= q => b[off[n] + i] = IF i = e - 1 THEN 1 ELSE 0
            /\ \A i \in 0 .. l - 1 : off[n] + e + i >= q => b[off[n] + e + i] = pic[n].nal[i+1]
        BY ByteAt
      <4> HIDE DEF l, e
      <4>3. l - 1 \in 0 .. l - 1 /\ (l - 1) + 1 = l
        BY <4>1
      <4>4. off[n] + e + (l - 1) = off[n+1] - 1 /\ off[n] + e + (l - 1) >= q
        BY <1>1, <4>1
      <4>5. b[off[n+1] - 1] = pic[n].nal[l]
        BY <4>2, <4>3, <4>4
      <4>6. pic[n].nal[l] # 0
        <5>1. ProperUnit(pic[n])
          BY DEF ProperPicture
        <5> QED BY <5>1 DEF ProperUnit, NalLen, l
      <4> QED BY <4>5, <4>6
    <3> QED BY <2>7, <3>1, <3>2
  <2> QED
    BY <2>1, <2>8, <2>9
<1>5. ASSUME ~ (n < N /\ off[n+1] + CodeLen(pic, n+1) <= end)
      PROVE  Tx!find_next_nal_unit(b, q, end) = Tx!NULL
  <2>1. found = {}
    <3> SUFFICES ASSUME NEW p \in found PROVE FALSE
      OBVIOUS
    <3>1. n < N /\ p >= off[n+1] + CodeLen(pic, n+1) - 3 /\ p \in Nat /\ p + 3 <= end
      BY <1>3
    <3>2. CodeLen(pic, n+1) \in {3, 4}
      BY <1>0, <1>2, <3>1
    <3> QED BY <1>1, <1>5, <3>1, <3>2
  <2> QED BY <2>1, FindNone
<1> QED
  BY <1>4, <1>5

(* At the beginning of NAL unit n: its start code.                         *)
LEMMA FindStart ==
  ASSUME NEW pic, ProperPicture(pic), NEW off, Geometry(pic, off),
         NEW n \in 1 .. Len(pic), NEW b, Agrees(b, pic, off[n])
  PROVE  /\ off[n] + 4 <= off[Len(pic) + 1]
         /\ Tx!find_next_nal_unit(b, off[n], off[n] + 4) = off[n]
         /\ Tx!PastCode(b, off[n]) = off[n] + CodeLen(pic, n)
<1> DEFINE N == Len(pic)
           q == off[n]
           c == CodeLen(pic, n)
           f == q + c - 3
           found == Tx!Codes(b, q, q + 4)
<1>0. N \in Nat /\ n \in 1 .. N + 1 /\ N + 1 \in 1 .. N + 1 /\ n < N + 1
  BY DEF ProperPicture
<1>1. q \in Nat /\ off[N+1] \in Nat
  BY <1>0 DEF Geometry
<1>2. c \in {3, 4} /\ NalLen(pic, n) \in Nat /\ NalLen(pic, n) >= 1
  BY UnitTypes
<1>3. q + c + NalLen(pic, n) <= off[N+1]
  BY <1>0, Places
<1>4. q + 4 <= off[N+1] /\ f \in q .. (q + 4) - 3 /\ f >= q
  BY <1>1, <1>2, <1>3, SMTT(30)
<1>5. \A i \in 0 .. c - 1 : q + i >= q => b[q + i] = IF i = c - 1 THEN 1 ELSE 0
  BY <1>1, ByteAt
<1>6. f \in found
  <2>1. Tx!CodeAt(b, f)
    BY <1>1, <1>4, CodesAre
  <2> QED BY <1>4, <2>1 DEF Tx!Codes
<1> HIDE DEF c
<1>b. /\ c = 4 => b[q + 0] = 0 /\ b[q + 1] = 0 /\ b[q + 2] = 0
      /\ c = 3 => b[q + 2] = 1
  <2>1. c = 4 => b[q + 0] = 0 /\ b[q + 1] = 0 /\ b[q + 2] = 0
    BY <1>1, <1>5
  <2>2. c = 3 => b[q + 2] = 1
    BY <1>1, <1>5
  <2> QED BY <2>1, <2>2
<1>7. ASSUME NEW g \in found PROVE f <= g
  <2>1. g \in q .. (q + 4) - 3 /\ Tx!CodeAt(b, g)
    BY DEF Tx!Codes
  <2>2. CASE c = 3
    BY <1>1, <2>1, <2>2
  <2>3. CASE c = 4
    <3>1. g = q => b[q + 2] = 1
      BY <2>1 DEF Tx!CodeAt
    <3>2. g # q
      BY <1>b, <2>3, <3>1
    <3> QED BY <1>1, <2>1, <2>3, <3>2
  <2> QED BY <1>2, <2>2, <2>3
<1>8. /\ f > q /\ b[f-1] = 0 => Tx!find_next_nal_unit(b, q, q + 4) = f - 1
      /\ ~ (f > q /\ b[f-1] = 0) => Tx!find_next_nal_unit(b, q, q + 4) = f
  <2>1. q \in Nat /\ q + 4 \in Int
    BY <1>1
  <2> HIDE DEF f, q
  <2> QED BY <1>6, <1>7, <2>1, FindFirst
<1>9. Tx!find_next_nal_unit(b, q, q + 4) = q
  <2>1. CASE c = 3
    <3>1. f = q
      BY <1>1, <2>1
    <3> QED BY <1>1, <1>8, <3>1
  <2>2. CASE c = 4
    <3>1. f = q + 1 /\ f - 1 = q + 0 /\ f > q /\ q + 0 = q
      BY <1>1, <2>2
    <3> QED BY <1>8, <1>b, <2>2, <3>1
  <2> QED BY <1>2, <2>1, <2>2
<1>10. Tx!PastCode(b, q) = q + c
  <2>1. CASE c = 3
    BY <1>b, <2>1 DEF Tx!PastCode
  <2>2. CASE c = 4
    BY <1>b, <2>2 DEF Tx!PastCode
  <2> QED BY <1>2, <2>1, <2>2
<1> QED
  BY <1>4, <1>9, <1>10 DEF c
-----------------------------------------------------------------------------
(* The two octets of a fragment.                                           *)
FuOctets(ind, hdr, nri, type, S, E) ==
  /\ nri \in 0 .. 3 /\ type \in 1 .. 23 /\ S \in 0 .. 1 /\ E \in 0 .. 1
  /\ ind = nri * 32 + 28 /\ hdr = S * 128 + E * 64 + type

(* What the receiver reads in them.                                        *)
FuRead(payload, octet, S, E) ==
  Read(payload) = [kind |-> "FU_A", octet |-> octet, S |-> S = 1, E |-> E = 1,
                   data |-> SubSeq(payload, 3, Len(payload))]

(* The receiver reads in an FU-A payload what was written there.           *)
LEMMA ReadFragment ==
  ASSUME NEW payload, Len(payload) >= 2, Len(payload) \in Nat,
         NEW nri, NEW type, NEW S, NEW E,
         FuOctets(payload[1], payload[2], nri, type, S, E)
  PROVE  FuRead(payload, nri * 32 + type, S, E)
<1>0. /\ nri \in 0 .. 3 /\ type \in 1 .. 23 /\ S \in 0 .. 1 /\ E \in 0 .. 1
      /\ payload[1] = nri * 32 + 28 /\ payload[2] = S * 128 + E * 64 + type
  BY DEF FuOctets
<1> USE DEF Rx!Type, Rx!Nri, Rx!SBit, Rx!EBit, Rx!NAL_TYPE_SINGLE_NAL_MIN,
        Rx!NAL_TYPE_SINGLE_NAL_MAX, Rx!NAL_TYPE_FU_A
<1>1. Rx!Type(payload[1]) = 28 /\ Rx!Nri(payload[1]) = nri
  <2>1. (nri * 32 + 28) % 32 = 28 /\ ((nri * 32 + 28) \div 32) % 4 = nri
    BY <1>0
  <2> QED BY <1>0, <2>1
<1>2. Rx!Type(payload[2]) = type /\ Rx!SBit(payload[2]) = S /\ Rx!EBit(payload[2]) = E
  <2>1. /\ (S * 128 + E * 64 + type) % 32 = type
        /\ (S * 128 + E * 64 + type) \div 128 = S
        /\ ((S * 128 + E * 64 + type) \div 64) % 2 = E
    <3>1. (S = 0 \/ S = 1) /\ (E = 0 \/ E = 1)
      BY <1>0
    <3> QED BY <1>0, <3>1, SMTT(30)
  <2> QED BY <1>0, <2>1
<1>3. ~ (Len(payload) < 2) /\ 28 \notin 1 .. 23
  OBVIOUS
<1>4. Read(payload) = [kind  |-> "FU_A",
                       octet |-> Rx!Nri(payload[1]) * 32 + Rx!Type(payload[2]),
                       S     |-> Rx!SBit(payload[2]) = 1,
                       E     |-> Rx!EBit(payload[2]) = 1,
                       data  |-> SubSeq(payload, 3, Len(payload))]
  <2>1. Rx!Type(payload[1]) = Rx!NAL_TYPE_FU_A
        /\ Rx!Type(payload[1]) \notin Rx!NAL_TYPE_SINGLE_NAL_MIN .. Rx!NAL_TYPE_SINGLE_NAL_MAX
    BY <1>1, <1>3
  <2> HIDE DEF Rx!Type, Rx!Nri, Rx!SBit, Rx!EBit, Rx!NAL_TYPE_SINGLE_NAL_MIN,
        Rx!NAL_TYPE_SINGLE_NAL_MAX, Rx!NAL_TYPE_FU_A
  <2> QED BY <1>3, <2>1 DEF Read
<1> HIDE DEF Rx!Type, Rx!Nri, Rx!SBit, Rx!EBit
<1> QED
  BY <1>1, <1>2, <1>4 DEF FuRead

(* What it reads in a payload that is a NAL unit.                          *)
LEMMA ReadSingle ==
  ASSUME NEW nal \in Seq(Byte), nal # <<>>, nal[1] < 128, nal[1] % 32 \in 1 .. 23
  PROVE  /\ Len(nal) = 1 => Read(nal) = [kind |-> "SHORT"]
         /\ Len(nal) >= 2 => Read(nal) = [kind |-> "SINGLE", nal |-> nal]
<1>1. Len(nal) \in Nat /\ Len(nal) >= 1
  OBVIOUS
<1>2. Rx!Type(nal[1]) \in Rx!NAL_TYPE_SINGLE_NAL_MIN .. Rx!NAL_TYPE_SINGLE_NAL_MAX
  BY DEF Rx!Type, Rx!NAL_TYPE_SINGLE_NAL_MIN, Rx!NAL_TYPE_SINGLE_NAL_MAX
<1>3. ASSUME Len(nal) = 1 PROVE Read(nal) = [kind |-> "SHORT"]
  <2>1. Len(nal) < 2 /\ ~ (Len(nal) >= 2)
    BY <1>3
  <2> QED BY <2>1 DEF Read
<1>4. ASSUME Len(nal) >= 2 PROVE Read(nal) = [kind |-> "SINGLE", nal |-> nal]
  <2>1. ~ (Len(nal) < 2)
    BY <1>1, <1>4
  <2>2. Rx!Type(nal[1]) # Rx!NAL_TYPE_FU_A
    <3>1. Rx!Type(nal[1]) \in 1 .. 23
      BY DEF Rx!Type
    <3>2. 28 \notin 1 .. 23
      OBVIOUS
    <3> QED BY <3>1, <3>2 DEF Rx!NAL_TYPE_FU_A
  <2> QED BY <1>2, <1>4, <2>1, <2>2 DEF Read
<1> QED
  BY <1>3, <1>4
-----------------------------------------------------------------------------
(* NAL unit seg.unit from octet seg.from + 1 to octet seg.to: what a       *)
(* payload carries.                                                        *)
Segment(pic) == [unit : 1 .. Len(pic), from : Nat, to : Nat]

Whole(pic, seg) == seg.to = NalLen(pic, seg.unit)

(* r is how the receiver reads a payload that carries seg.                 *)
Reads(pic, seg, r) ==
  LET nal == pic[seg.unit].nal IN
  /\ seg \in Segment(pic)
  /\ seg.from < seg.to /\ seg.to <= NalLen(pic, seg.unit)
  /\ r.kind \in {"SHORT", "SINGLE", "FU_A"}
  /\ r.kind = "SHORT" => seg.to = 1
  /\ r.kind = "SINGLE" => r.nal = nal
  /\ r.kind \in {"SHORT", "SINGLE"} => seg.from = 0 /\ Whole(pic, seg)
  /\ r.kind = "FU_A" =>
       /\ r.octet = nal[1]
       /\ r.S <=> seg.from = 0
       /\ r.E <=> Whole(pic, seg)
       /\ r.data = SubSeq(nal, IF seg.from = 0 THEN 2 ELSE seg.from + 1, seg.to)

(* m elements of a sequence, from element a + 1 on.                        *)
LEMMA SubSeqIs ==
  ASSUME NEW S, NEW s \in Seq(S), NEW a \in Nat, NEW m \in Nat, a + m <= Len(s)
  PROVE  /\ SubSeq(s, a + 1, a + m) = [i \in 1 .. m |-> s[a + i]]
         /\ SubSeq(s, a + 1, a + m) \in Seq(S)
         /\ Len(SubSeq(s, a + 1, a + m)) = m
<1>1. \A i \in 1 .. Len(s) : s[i] \in S
  OBVIOUS
<1>2. \A i \in a + 1 .. a + m : s[i] \in S
  <2>1. \A i \in a + 1 .. a + m : i \in 1 .. Len(s)
    OBVIOUS
  <2> QED BY <1>1, <2>1
<1>3. a + 1 \in Int /\ a + m \in Int
  OBVIOUS
<1>4. /\ SubSeq(s, a + 1, a + m) \in Seq(S)
      /\ Len(SubSeq(s, a + 1, a + m)) = IF a + 1 <= a + m THEN (a + m) - (a + 1) + 1 ELSE 0
      /\ \A i \in 1 .. (a + m) - (a + 1) + 1 : SubSeq(s, a + 1, a + m)[i] = s[a + 1 + i - 1]
  BY <1>2, <1>3, SubSeqProperties
<1>5. /\ (IF a + 1 <= a + m THEN (a + m) - (a + 1) + 1 ELSE 0) = m
      /\ (a + m) - (a + 1) + 1 = m
      /\ \A i \in 1 .. m : a + 1 + i - 1 = a + i
  OBVIOUS
<1>6. /\ SubSeq(s, a + 1, a + m) \in Seq(S)
      /\ Len(SubSeq(s, a + 1, a + m)) = m
      /\ \A i \in 1 .. m : SubSeq(s, a + 1, a + m)[i] = s[a + i]
  BY <1>4, <1>5
<1> QED
  BY <1>6

(* b holds at offset from what s holds from element a + 1 on, m of them. *)
SameBytes(b, from, s, a, m) == \A i \in 1 .. m : b[from + i - 1] = s[a + i]

(* The bytes of a NAL unit that lie at offset a of it in the bitstream.    *)
LEMMA Bytes ==
  ASSUME NEW pic, ProperPicture(pic), NEW off, Geometry(pic, off), NEW n \in 1 .. Len(pic),
         NEW a \in Nat, NEW b, Agrees(b, pic, off[n] + CodeLen(pic, n) + a),
         NEW m \in Nat, a + m <= NalLen(pic, n)
  PROVE  SameBytes(b, off[n] + CodeLen(pic, n) + a, pic[n].nal, a, m)
<1> DEFINE q == off[n] + CodeLen(pic, n)
           nal == pic[n].nal
<1>1. /\ CodeLen(pic, n) \in {3, 4} /\ NalLen(pic, n) \in Nat
      /\ nal \in Seq(Byte) /\ Len(nal) = NalLen(pic, n) /\ off[n] \in Nat
  <2>1. n \in 1 .. Len(pic) + 1
    BY DEF ProperPicture
  <2> QED BY <2>1, UnitTypes DEF Geometry, NalLen
<1>2. q \in Nat /\ q + a \in Nat
  <2>1. q \in Nat
    BY <1>1, SMTT(30)
  <2> HIDE DEF q
  <2> QED BY <2>1
<1>3. ASSUME NEW i \in 1 .. m PROVE b[q + a + i - 1] = nal[a + i]
  <2>1. a + i - 1 \in 0 .. NalLen(pic, n) - 1 /\ (a + i - 1) + 1 = a + i
    BY <1>1
  <2>2. q + (a + i - 1) = q + a + i - 1 /\ q + (a + i - 1) >= q + a
    <3>1. \A x \in Nat : /\ x + (a + i - 1) = x + a + i - 1
                         /\ x + (a + i - 1) >= x + a
      OBVIOUS
    <3> QED BY <1>2, <3>1
  <2>3. /\ \A j \in 0 .. CodeLen(pic, n) - 1 :
             off[n] + j >= q + a => b[off[n] + j] = IF j = CodeLen(pic, n) - 1 THEN 1 ELSE 0
        /\ \A j \in 0 .. NalLen(pic, n) - 1 :
             off[n] + CodeLen(pic, n) + j >= q + a =>
               b[off[n] + CodeLen(pic, n) + j] = pic[n].nal[j+1]
    BY <1>2, ByteAt
  <2> QED BY <2>1, <2>2, <2>3
<1> HIDE DEF q, nal
<1> QED
  BY <1>3 DEF q, nal, SameBytes
-----------------------------------------------------------------------------
(* The sender's buffer, from the position on, is the picture still.        *)
Laid(off) ==
  /\ ProperPicture(nals) /\ Geometry(nals, off)
  /\ picture = Tx!Layout(nals)
  /\ buf \in [0 .. Len(picture) - 1 -> Byte]
  /\ pos \in 0 .. Len(picture)
  /\ Agrees(buf, nals, pos)

(* The types of what the sender works on.                                  *)
LEMMA LaidTypes ==
  ASSUME NEW off, Laid(off)
  PROVE  /\ Len(nals) \in Nat /\ \A k \in 1 .. Len(nals) + 1 : off[k] \in Nat
         /\ Tx!buf_len = off[Len(nals) + 1] /\ pos \in Nat /\ pos <= Tx!buf_len
         /\ Mtu \in Nat /\ Mtu > 2 /\ picture \in Seq(Byte)
<1>1. Len(nals) \in Nat /\ off \in [1 .. Len(nals) + 1 -> Nat]
  BY DEF Laid, ProperPicture, Geometry
<1>2. Tx!buf_len = off[Len(nals) + 1] /\ picture \in Seq(Byte)
  BY DEF Laid, Geometry, Tx!buf_len
<1>3. pos \in 0 .. Tx!buf_len /\ Tx!buf_len \in Nat
  BY <1>2 DEF Laid, Tx!buf_len
<1> QED
  BY <1>1, <1>2, <1>3, MtuAssumption

(* Straddled, in the terms used here.                                      *)
LEMMA NotStraddled ==
  ASSUME NEW off, Laid(off), NoneStraddled, NEW n \in 1 .. Len(nals), n < Len(nals)
  PROVE  /\ NalLen(nals, n) # Mtu - 1
         /\ ~ (NalLen(nals, n) = Mtu - 2 /\ CodeLen(nals, n+1) = 4)
         /\ ~ (NalLen(nals, n) >= Mtu /\ (NalLen(nals, n) - Mtu) % (Mtu - 2) = 0
               /\ CodeLen(nals, n+1) = 3)
         /\ ~ (NalLen(nals, n) >= Mtu /\ (NalLen(nals, n) - Mtu) % (Mtu - 2) = Mtu - 3
               /\ CodeLen(nals, n+1) = 4)
<1>1. Len(nals) \in Nat /\ Mtu \in Nat /\ Mtu > 2
  BY LaidTypes
<1>2. n \in 1 .. Len(nals) - 1
  BY <1>1
<1>3. ~ Tx!Straddled(n)
  BY <1>2 DEF NoneStraddled
<1>4. (Mtu - 3) + 1 = Mtu - 2
  BY <1>1
<1> QED
  BY <1>3, <1>4 DEF Tx!Straddled, NalLen, CodeLen, Tx!HEADER_SIZE_FU_A

(* A call at the beginning of NAL unit n.                                  *)
LEMMA CallAtUnit ==
  ASSUME NEW off, Laid(off), NoneStraddled, NEW n \in 1 .. Len(nals), pos = off[n]
  PROVE  /\ Tx!has_octet
         /\ Tx!nal_start = off[n] + CodeLen(nals, n)
         /\ Tx!nal_end \in Nat /\ Tx!nal_end <= off[Len(nals) + 1]
         /\ ~ Tx!too_small
         /\ \/ ~ Tx!fragmenting /\ Tx!nal_end = off[n+1]
            \/ /\ Tx!fragmenting /\ NalLen(nals, n) >= Mtu
               /\ Tx!nal_end >= Tx!nal_start + Mtu + 1
<1> DEFINE N     == Len(nals)
           L     == off[N+1]
           start == Tx!nal_start
           c     == CodeLen(nals, n)
           len   == NalLen(nals, n)
           next  == CodeLen(nals, n+1)
<1>1. /\ N \in Nat /\ L \in Nat /\ off[n] \in Nat /\ off[n+1] \in Nat
      /\ Tx!buf_len = L /\ pos \in Nat /\ Mtu \in Nat /\ Mtu > 2
  <2>1. n \in 1 .. N + 1 /\ n + 1 \in 1 .. N + 1 /\ N + 1 \in 1 .. N + 1
    BY LaidTypes
  <2> QED BY <2>1, LaidTypes
<1>2. /\ c \in {3, 4} /\ len \in Nat /\ len >= 1 /\ off[n+1] = off[n] + c + len
      /\ n < N => next \in {3, 4} /\ off[n+1] + next < L
      /\ n = N => off[n+1] = L
  <2>1. c \in {3, 4} /\ len \in Nat /\ len >= 1
    BY UnitTypes DEF Laid
  <2>2. off[n+1] = off[n] + c + len
    BY Places DEF Laid
  <2>3. ASSUME n < N PROVE next \in {3, 4} /\ off[n+1] + next < L
    <3>1. n + 1 \in 1 .. N /\ N + 1 \in 1 .. N + 1 /\ n + 1 < N + 1
      BY <1>1, <2>3
    <3>2. next \in {3, 4} /\ NalLen(nals, n+1) \in Nat /\ NalLen(nals, n+1) >= 1
      BY <3>1, UnitTypes DEF Laid
    <3>3. off[n+1] + next + NalLen(nals, n+1) <= L
      BY <3>1, Places DEF Laid
    <3> QED BY <1>1, <3>2, <3>3
  <2> QED BY <2>1, <2>2, <2>3
<1>3. Agrees(buf, nals, off[n])
  BY DEF Laid
<1>4. Tx!start_code = off[n] /\ Tx!PastCode(buf, off[n]) = off[n] + c
  <2>1. /\ off[n] + 4 <= L
        /\ Tx!find_next_nal_unit(buf, off[n], off[n] + 4) = off[n]
        /\ Tx!PastCode(buf, off[n]) = off[n] + c
    BY <1>3, FindStart DEF Laid
  <2>2. Tx!buf_len - pos >= 4
    BY <1>1, <2>1
  <2> QED BY <2>1, <2>2 DEF Tx!start_code
<1>5. Tx!has_octet /\ start = off[n] + c
  <2>1. off[n] # Tx!NULL
    BY <1>1 DEF Tx!NULL
  <2>2. Tx!has_octet
    BY <1>4, <2>1 DEF Tx!has_octet
  <2> QED BY <1>4, <2>2 DEF Tx!nal_start
<1> HIDE DEF N, L, start, c, len, next
<1>6. /\ Tx!window = IF start + Mtu + 1 > L THEN L ELSE start + Mtu + 1
      /\ Tx!too_small = FALSE
      /\ Tx!fragmenting <=> Tx!nal_end - start > Mtu
  BY <1>1, <1>5 DEF Tx!window, Tx!SINGLE_NAL, Tx!too_small, Tx!fragmenting, start
<1>7. start \in Nat /\ start < off[n+1] /\ off[n+1] = start + len /\ off[n+1] <= L
  <2>0. c \in Nat
    BY <1>2
  <2>1. start \in Nat
    BY <1>1, <1>5, <2>0
  <2>2. off[n+1] = start + len
    BY <1>2, <1>5, Zenon
  <2>3. start < off[n+1]
    BY <1>2, <2>1, <2>2
  <2>4. n < N \/ n = N
    BY <1>1 DEF N
  <2>5. off[n+1] <= L
    BY <1>1, <1>2, <2>4
  <2> QED BY <2>1, <2>2, <2>3, <2>5
<1>8. Tx!window \in Nat /\ Tx!window <= L /\ Tx!window <= start + Mtu + 1
  BY <1>1, <1>6, <1>7
<1>9. /\ n < N /\ off[n+1] + next <= Tx!window => Tx!nal_end = off[n+1]
      /\ ~ (n < N /\ off[n+1] + next <= Tx!window) => Tx!nal_end = Tx!window
  <2>1. Agrees(buf, nals, start)
    <3>1. pos <= start
      BY <1>1, <1>2, <1>5
    <3> QED BY <1>1, <1>7, <3>1 DEF Laid, Agrees, Geometry, N, L
  <2>2. /\ n < N /\ off[n+1] + next <= Tx!window =>
             Tx!find_next_nal_unit(buf, start, Tx!window) = off[n+1]
        /\ ~ (n < N /\ off[n+1] + next <= Tx!window) =>
             Tx!find_next_nal_unit(buf, start, Tx!window) = Tx!NULL
    <3>1. off[n] + CodeLen(nals, n) <= start /\ Tx!window <= off[Len(nals) + 1]
      BY <1>5, <1>7, <1>8 DEF c, L, N
    <3> QED BY <1>7, <1>8, <2>1, <3>1, FindEnd DEF Laid, N, next
  <2>3. off[n+1] # Tx!NULL
    BY <1>1 DEF Tx!NULL
  <2> QED BY <2>2, <2>3 DEF Tx!nal_end, start
<1>10. CASE n < N /\ off[n+1] + next <= Tx!window
  <2>0. next \in {3, 4} /\ (start + len) + next <= start + Mtu + 1
    <3>1. (start + len) + next <= Tx!window /\ next \in {3, 4}
      BY <1>2, <1>7, <1>10, Zenon
    <3> QED BY <1>1, <1>2, <1>7, <1>8, <3>1
  <2>1. len <= Mtu
    BY <1>1, <1>2, <1>7, <2>0
  <2>2. ~ Tx!fragmenting
    BY <1>1, <1>2, <1>6, <1>7, <1>9, <1>10, <2>1
  <2> QED
    BY <1>1, <1>5, <1>6, <1>7, <1>9, <1>10, <2>2 DEF start, c, L, N
<1>11. CASE n < N /\ ~ (off[n+1] + next <= Tx!window)
  <2>1. Tx!nal_end = Tx!window
    BY <1>9, <1>11
  <2>0. next \in {3, 4} /\ off[n+1] + next < L /\ ~ (off[n+1] + next <= Tx!window)
    BY <1>2, <1>11
  <2>2. Tx!window = start + Mtu + 1
    BY <1>1, <1>6, <1>7, <2>0
  <2>3. len + next > Mtu + 1
    <3>1. ~ ((start + len) + next <= start + Mtu + 1)
      BY <1>7, <2>0, <2>2, Zenon
    <3> QED BY <1>1, <1>2, <1>7, <2>0, <3>1
  <2>4. len # Mtu - 1 /\ ~ (len = Mtu - 2 /\ next = 4)
    BY <1>11, NotStraddled DEF len, next, N
  <2>5. len >= Mtu
    BY <1>1, <1>2, <1>11, <2>3, <2>4, SMTT(30)
  <2>6. Tx!fragmenting
    BY <1>1, <1>6, <1>7, <2>1, <2>2
  <2> QED
    BY <1>1, <1>5, <1>6, <1>7, <1>8, <2>1, <2>2, <2>5, <2>6 DEF start, c, L, N, len
<1>12. CASE n = N
  <2>1. Tx!nal_end = Tx!window /\ off[n+1] = L
    BY <1>2, <1>9, <1>12
  <2>2. CASE start + Mtu + 1 > L
    <3>1. Tx!nal_end = L /\ len <= Mtu
      BY <1>1, <1>2, <1>6, <1>7, <2>1, <2>2
    <3>2. ~ Tx!fragmenting
      BY <1>1, <1>2, <1>6, <1>7, <2>1, <3>1
    <3> QED
      BY <1>1, <1>5, <1>6, <1>7, <2>1, <3>1, <3>2 DEF start, c, L, N
  <2>3. CASE ~ (start + Mtu + 1 > L)
    <3>1. Tx!nal_end = start + Mtu + 1 /\ len >= Mtu
      BY <1>1, <1>2, <1>6, <1>7, <2>1, <2>3
    <3>2. Tx!fragmenting
      BY <1>1, <1>2, <1>6, <1>7, <2>1, <3>1
    <3> QED
      BY <1>1, <1>5, <1>6, <1>7, <1>8, <2>1, <3>1, <3>2 DEF start, c, L, N, len
  <2> QED
    BY <2>2, <2>3
<1>13. n < N \/ n = N
  BY <1>1 DEF N
<1> QED
  BY <1>10, <1>11, <1>12, <1>13

(* A call inside NAL unit n, when t octets of it have been sent.           *)
LEMMA CallWithin ==
  ASSUME NEW off, Laid(off), NoneStraddled, NEW n \in 1 .. Len(nals), NEW t \in Nat,
         pos = off[n] + CodeLen(nals, n) + t, t < NalLen(nals, n), t >= Mtu - 1,
         (NalLen(nals, n) - t - 1) % (Mtu - 2) = (NalLen(nals, n) - Mtu) % (Mtu - 2)
  PROVE  /\ ~ Tx!has_octet
         /\ Tx!nal_start = pos
         /\ Tx!nal_end \in Nat /\ Tx!nal_end <= off[Len(nals) + 1]
         /\ ~ Tx!too_small
         /\ Tx!fragmenting
         /\ Tx!previous = pos - Mtu /\ Tx!previous_found
         /\ \/ NalLen(nals, n) - t <= Mtu - 2 /\ Tx!nal_end = off[n+1]
            \/ NalLen(nals, n) - t > Mtu - 2 /\ Tx!nal_end > pos + Mtu - 2
<1> DEFINE N     == Len(nals)
           L     == off[N+1]
           c     == CodeLen(nals, n)
           len   == NalLen(nals, n)
           next  == CodeLen(nals, n+1)
           e     == off[n+1]
           r     == len - t
<1>1. /\ N \in Nat /\ L \in Nat /\ off[n] \in Nat /\ e \in Nat
      /\ Tx!buf_len = L /\ pos \in Nat /\ Mtu \in Nat /\ Mtu > 2
  <2>1. n \in 1 .. N + 1 /\ n + 1 \in 1 .. N + 1 /\ N + 1 \in 1 .. N + 1
    BY LaidTypes
  <2> QED BY <2>1, LaidTypes
<1>2. /\ c \in {3, 4} /\ len \in Nat /\ e = off[n] + c + len
      /\ n < N => next \in {3, 4} /\ e + next < L
      /\ n = N => e = L
  <2>1. c \in {3, 4} /\ len \in Nat
    BY UnitTypes DEF Laid
  <2>2. e = off[n] + c + len
    BY Places DEF Laid
  <2>3. ASSUME n < N PROVE next \in {3, 4} /\ e + next < L
    <3>1. n + 1 \in 1 .. N /\ N + 1 \in 1 .. N + 1 /\ n + 1 < N + 1
      BY <1>1, <2>3
    <3>2. next \in {3, 4} /\ NalLen(nals, n+1) \in Nat /\ NalLen(nals, n+1) >= 1
      BY <3>1, UnitTypes DEF Laid
    <3>3. e + next + NalLen(nals, n+1) <= L
      BY <3>1, Places DEF Laid
    <3> QED BY <1>1, <3>2, <3>3, SMTT(30)
  <2> QED BY <2>1, <2>2, <2>3
<1>3. off[n] + CodeLen(nals, n) <= pos
  <2>1. CodeLen(nals, n) \in Nat
    BY <1>2
  <2> QED BY <1>1, <2>1
<1>4. r \in Nat /\ r >= 1 /\ e = pos + r
  <2>1. c \in Nat /\ len \in Nat
    BY <1>2
  <2>2. r \in Nat /\ r >= 1
    BY <2>1
  <2>3. \A x, y \in Nat : x + y + len = (x + y + t) + (len - t)
    BY <2>1
  <2>4. off[n] + c + len = (off[n] + c + t) + r
    BY <1>1, <2>1, <2>3
  <2> QED BY <1>2, <2>2, <2>4
<1>5. pos < e /\ pos >= Mtu /\ e <= L
  <2>1. pos < e
    BY <1>1, <1>4, SMTT(30)
  <2>2. pos >= Mtu
    <3>1. c \in Nat /\ c >= 1
      BY <1>2
    <3> QED BY <1>1, <3>1 DEF c
  <2>3. n < N \/ n = N
    BY <1>1
  <2>4. e <= L
    <3>1. n < N => e <= L
      <4> SUFFICES ASSUME n < N PROVE e <= L
        OBVIOUS
      <4>1. next \in Nat /\ e + next < L
        BY <1>2
      <4> HIDE DEF e, L, next
      <4> QED BY <1>1, <4>1
    <3>2. n = N => e <= L
      <4> HIDE DEF e, L, next
      <4> QED BY <1>1, <1>2
    <3> QED BY <2>3, <3>1, <3>2
  <2> QED BY <2>1, <2>2, <2>4
<1>6. n < N => /\ ~ (r = 1 /\ next = 3)
               /\ ~ (r = Mtu - 2 /\ next = 4)
  <2> SUFFICES ASSUME n < N PROVE /\ ~ (r = 1 /\ next = 3)
                                  /\ ~ (r = Mtu - 2 /\ next = 4)
    OBVIOUS
  <2>1. len >= Mtu
    BY <1>1, <1>2
  <2>2. /\ ~ (len >= Mtu /\ (len - Mtu) % (Mtu - 2) = 0 /\ next = 3)
        /\ ~ (len >= Mtu /\ (len - Mtu) % (Mtu - 2) = Mtu - 3 /\ next = 4)
    BY NotStraddled
  <2>3. (len - t - 1) = r - 1
    OBVIOUS
  <2>4. (r - 1) % (Mtu - 2) = (len - Mtu) % (Mtu - 2)
    BY <2>3
  <2>5. \A d \in Nat \ {0} : 0 % d = 0 /\ (d - 1) % d = d - 1
    OBVIOUS
  <2>6. Mtu - 2 \in Nat \ {0} /\ (Mtu - 2) - 1 = Mtu - 3
    BY <1>1
  <2>7. 0 % (Mtu - 2) = 0 /\ (Mtu - 3) % (Mtu - 2) = Mtu - 3
    BY <2>5, <2>6
  <2> HIDE DEF r, len, next
  <2>8. r = 1 => r - 1 = 0
    OBVIOUS
  <2>9. r = Mtu - 2 => r - 1 = Mtu - 3
    BY <2>6
  <2> QED BY <2>1, <2>2, <2>4, <2>7, <2>8, <2>9
<1> HIDE DEF r, L, N, e, c, len, next
<1> DEFINE p == pos
           w == Tx!window
<1>p. p \in Nat /\ e = p + r
  BY <1>1, <1>4
<1> HIDE DEF p, w
<1>7. \A end \in Nat : end <= L =>
        /\ n < N /\ e + next <= end => Tx!find_next_nal_unit(buf, pos, end) = e
        /\ ~ (n < N /\ e + next <= end) => Tx!find_next_nal_unit(buf, pos, end) = Tx!NULL
  <2>1. Agrees(buf, nals, pos) /\ ProperPicture(nals) /\ Geometry(nals, off)
    BY DEF Laid
  <2>2. pos < off[n+1] /\ pos \in Nat
    BY <1>1, <1>5 DEF e
  <2> QED BY <1>3, <2>1, <2>2, FindEnd DEF N, L, e, next
<1>8. ~ Tx!has_octet
  <2>1. CASE Tx!buf_len - pos >= 4
    <3>1. pos + 4 \in Nat /\ pos + 4 <= L
      BY <1>1, <2>1
    <3>2. ~ (n < N /\ e + next <= pos + 4)
      <4> SUFFICES ASSUME n < N, e + next <= pos + 4 PROVE FALSE
        OBVIOUS
      <4>1. next \in {3, 4} /\ p + r + next <= p + 4
        BY <1>2, <1>p DEF p
      <4>2. r = 1 /\ next = 3
        BY <1>4, <1>p, <4>1
      <4> QED BY <1>6, <4>2
    <3>3. Tx!find_next_nal_unit(buf, pos, pos + 4) = Tx!NULL
      BY <1>7, <3>1, <3>2
    <3> QED BY <2>1, <3>3 DEF Tx!has_octet, Tx!start_code
  <2>2. CASE ~ (Tx!buf_len - pos >= 4)
    BY <2>2 DEF Tx!has_octet, Tx!start_code
  <2> QED BY <2>1, <2>2
<1>9. Tx!nal_start = pos
  BY <1>8 DEF Tx!nal_start
<1>10. /\ ~ Tx!too_small /\ Tx!fragmenting
       /\ Tx!window = IF pos + Mtu + 1 > L THEN L ELSE pos + Mtu + 1
       /\ Tx!previous = pos - Mtu /\ Tx!previous_found
  <2>1. Tx!previous = pos - Mtu
    BY <1>9 DEF Tx!previous
  <2>2. Tx!previous_found
    BY <1>1, <1>5, <2>1 DEF Tx!previous_found
  <2>3. Tx!fragmenting /\ ~ Tx!too_small
    BY <1>8 DEF Tx!fragmenting, Tx!SINGLE_NAL, Tx!too_small
  <2>4. Tx!window = IF pos + Mtu + 1 > L THEN L ELSE pos + Mtu + 1
    BY <1>1, <1>9 DEF Tx!window, Tx!SINGLE_NAL
  <2> QED BY <2>1, <2>2, <2>3, <2>4
<1>w. w = IF p + Mtu + 1 > L THEN L ELSE p + Mtu + 1
  BY <1>10 DEF p, w
<1>11. w \in Nat /\ w <= L /\ w <= p + Mtu + 1
  BY <1>1, <1>p, <1>w
<1>12. /\ n < N /\ e + next <= w => Tx!nal_end = e
       /\ ~ (n < N /\ e + next <= w) => Tx!nal_end = w
  <2>1. e # Tx!NULL
    BY <1>1 DEF Tx!NULL
  <2> QED BY <1>7, <1>9, <1>11, <2>1 DEF Tx!nal_end, w
<1>13. Tx!nal_end \in Nat /\ Tx!nal_end <= L
  BY <1>1, <1>5, <1>11, <1>12
<1>14. \/ r <= Mtu - 2 /\ Tx!nal_end = e
       \/ r > Mtu - 2 /\ Tx!nal_end > p + Mtu - 2
  <2>1. CASE n < N
    <3>0. next \in {3, 4} /\ p + r + next < L
      BY <1>2, <1>4, <1>p, <2>1
    <3>1. CASE r <= Mtu - 2
      <4>1. r + next <= Mtu + 1
        <5>1. ~ (r = Mtu - 2 /\ next = 4)
          BY <1>6, <2>1
        <5> QED BY <1>1, <1>4, <1>p, <3>0, <3>1, <5>1
      <4>2. p + r + next <= w
        BY <1>1, <1>4, <1>p, <1>w, <3>0, <4>1
      <4> QED BY <1>4, <1>p, <1>12, <2>1, <3>1, <4>2
    <3>2. CASE r > Mtu - 2
      <4>1. ~ (p + r + next <= w)
        BY <1>1, <1>4, <1>p, <1>11, <3>0, <3>2
      <4>2. Tx!nal_end = w
        BY <1>4, <1>p, <1>12, <4>1
      <4>3. w > p + Mtu - 2
        BY <1>1, <1>4, <1>p, <1>w, <3>0, <3>2
      <4> QED BY <3>2, <4>2, <4>3
    <3> QED BY <1>1, <1>4, <1>p, <3>1, <3>2
  <2>2. CASE ~ (n < N)
    <3>1. Tx!nal_end = w /\ e = L
      <4>1. n = N
        BY <1>1, <2>2 DEF N
      <4> QED BY <1>2, <1>12, <2>2, <4>1
    <3>2. CASE r <= Mtu - 2
      <4>1. p + Mtu + 1 > L
        BY <1>1, <1>4, <1>p, <3>1, <3>2
      <4> QED BY <1>w, <3>1, <3>2, <4>1
    <3>3. CASE r > Mtu - 2
      <4>1. w > p + Mtu - 2
        BY <1>1, <1>4, <1>p, <1>w, <3>1, <3>3
      <4> QED BY <3>1, <3>3, <4>1
    <3> QED BY <1>1, <1>4, <1>p, <3>2, <3>3
  <2> QED BY <2>1, <2>2
<1> QED
  BY <1>8, <1>9, <1>10, <1>13, <1>14 DEF r, len, e, L, N, p
-----------------------------------------------------------------------------
(* The FU indicator and header are bytes and hold the NRI and the type.    *)
LEMMA OctetsOf ==
  ASSUME NEW nri, NEW type, NEW S, NEW E, NEW ind, NEW hdr,
         FuOctets(ind, hdr, nri, type, S, E)
  PROVE  ind \in Byte /\ hdr \in Byte /\ Tx!Nri(ind) = nri /\ Tx!Type(hdr) = type
<1> USE DEF FuOctets
<1>1. (S = 0 \/ S = 1) /\ (E = 0 \/ E = 1)
  OBVIOUS
<1>2. ind \in Byte /\ (ind \div 32) % 4 = nri
  BY DEF Byte
<1>3. hdr \in Byte /\ hdr % 32 = type
  BY <1>1 DEF Byte
<1> QED
  BY <1>2, <1>3 DEF Tx!Nri, Tx!Type

(* The payload copied from load on, behind two octets written there.       *)
Overwritten(b, load, m, ind, hdr, L, s, a) ==
  LET written == [b EXCEPT ![load] = ind, ![load + 1] = hdr]
      payload == Tx!Copy(written, load, load + (m + 2))
  IN  /\ written \in [0 .. L - 1 -> Byte]
      /\ written[load] = ind /\ written[load + 1] = hdr
      /\ \A i \in load + 2 .. L - 1 : written[i] = b[i]
      /\ payload \in Seq(Byte) /\ Len(payload) = m + 2
      /\ payload[1] = ind /\ payload[2] = hdr
      /\ SubSeq(payload, 3, Len(payload)) = SubSeq(s, a + 1, a + m)

(* From element d + 1 on t holds what s holds from a + 1 on, m of them.    *)
SameElements(t, d, s, a, m) == \A i \in 1 .. m : t[d + i] = s[a + i]
SameParts(t, d, s, a, m)    == SubSeq(t, d + 1, d + m) = SubSeq(s, a + 1, a + m)

(* Sequences with the same elements have the same subsequence there.       *)
LEMMA SubSeqSame ==
  ASSUME NEW S, NEW s \in Seq(S), NEW t \in Seq(S), NEW a \in Nat, NEW d \in Nat, NEW m \in Nat,
         a + m <= Len(s), d + m <= Len(t), SameElements(t, d, s, a, m)
  PROVE  SameParts(t, d, s, a, m)
<1>1. SubSeq(s, a + 1, a + m) = [i \in 1 .. m |-> s[a + i]]
  BY SubSeqIs
<1>2. SubSeq(t, d + 1, d + m) = [i \in 1 .. m |-> t[d + i]]
  BY SubSeqIs
<1> QED
  BY <1>1, <1>2 DEF SameElements, SameParts

(* What the two octets in front of a fragment do to buffer and payload.    *)
LEMMA Overwrite ==
  ASSUME NEW L \in Nat, NEW b \in [0 .. L - 1 -> Byte], NEW load \in Nat,
         NEW m \in Nat, m >= 1, load + 2 + m <= L,
         NEW ind \in Byte, NEW hdr \in Byte,
         NEW s \in Seq(Byte), NEW a \in Nat, a + m <= Len(s),
         SameBytes(b, load + 2, s, a, m)
  PROVE  Overwritten(b, load, m, ind, hdr, L, s, a)
<1> DEFINE written == [b EXCEPT ![load] = ind, ![load + 1] = hdr]
           payload == Tx!Copy(written, load, load + (m + 2))
<1>1. load \in 0 .. L - 1 /\ load + 1 \in 0 .. L - 1 /\ load # load + 1
  OBVIOUS
<1>2. written[load] = ind /\ written[load + 1] = hdr
  BY <1>1
<1>3. written \in [0 .. L - 1 -> Byte]
  BY <1>1
<1>4. \A i \in load + 2 .. L - 1 : written[i] = b[i]
  <2>1. \A i \in load + 2 .. L - 1 : i \in 0 .. L - 1 /\ i # load /\ i # load + 1
    OBVIOUS
  <2> QED BY <2>1
<1> HIDE DEF written
<1>5. payload = [i \in 1 .. m + 2 |-> written[load + i - 1]]
  <2>1. load + (m + 2) - load = m + 2
    OBVIOUS
  <2> QED BY <2>1 DEF Tx!Copy
<1>6. \A i \in 1 .. m + 2 : load + i - 1 \in 0 .. L - 1
  OBVIOUS
<1>7. payload \in Seq(Byte) /\ Len(payload) = m + 2
  <2>1. payload \in [1 .. m + 2 -> Byte]
    BY <1>3, <1>5, <1>6
  <2> HIDE DEF payload
  <2>2. m + 2 \in Nat
    OBVIOUS
  <2> QED BY <2>1, <2>2
<1>8. payload[1] = ind /\ payload[2] = hdr
  <2>1. 1 \in 1 .. m + 2 /\ 2 \in 1 .. m + 2 /\ load + 1 - 1 = load /\ load + 2 - 1 = load + 1
    OBVIOUS
  <2> QED BY <1>2, <1>5, <2>1
<1>9. \A i \in 1 .. m : payload[2 + i] = s[a + i]
  <2> TAKE i \in 1 .. m
  <2>1. 2 + i \in 1 .. m + 2 /\ load + (2 + i) - 1 = load + 2 + i - 1
        /\ load + 2 + i - 1 \in load + 2 .. L - 1
    OBVIOUS
  <2>2. payload[2 + i] = b[load + 2 + i - 1]
    BY <1>4, <1>5, <2>1
  <2>3. b[load + 2 + i - 1] = s[a + i]
    BY DEF SameBytes
  <2> QED BY <2>2, <2>3
<1> HIDE DEF payload
<1>10. SubSeq(payload, 3, Len(payload)) = SubSeq(s, a + 1, a + m)
  <2>1. 2 \in Nat /\ 2 + m <= Len(payload)
    BY <1>7
  <2>e. SameElements(payload, 2, s, a, m)
    BY <1>9 DEF SameElements
  <2>2. SameParts(payload, 2, s, a, m)
    BY <1>7, <2>1, <2>e, SubSeqSame, Zenon
  <2>3. 2 + 1 = 3 /\ 2 + m = m + 2
    OBVIOUS
  <2> QED BY <1>7, <2>2, <2>3 DEF SameParts
<1> QED
  BY <1>2, <1>3, <1>4, <1>7, <1>8, <1>10 DEF written, payload, Overwritten

(* Where octet a + 1 of NAL unit n lies in the bitstream. *)
DataAt(off, n, a) == off[n] + CodeLen(nals, n) + a

(* The data of a fragment lies where the sender takes it from.             *)
LEMMA DataPlace ==
  ASSUME NEW off, Laid(off), NEW n \in 1 .. Len(nals), NEW a \in Nat, NEW m \in Nat,
         a + m <= NalLen(nals, n), pos <= DataAt(off, n, a)
  PROVE  /\ DataAt(off, n, a) \in Nat
         /\ DataAt(off, n, a) + m <= Len(picture)
         /\ SameBytes(buf, DataAt(off, n, a), nals[n].nal, a, m)
<1> DEFINE L == Len(picture)
           c == CodeLen(nals, n)
           len == NalLen(nals, n)
           o == off[n]
<1>1. n \in 1 .. Len(nals) + 1 /\ Len(nals) + 1 \in 1 .. Len(nals) + 1 /\ n < Len(nals) + 1
  BY LaidTypes
<1>2. o \in Nat /\ L = off[Len(nals) + 1] /\ L \in Nat /\ pos \in Nat
  BY <1>1, LaidTypes DEF Tx!buf_len
<1>3. c \in Nat /\ len \in Nat
  <2>1. c \in {3, 4} /\ len \in Nat
    BY UnitTypes DEF Laid
  <2> QED BY <2>1
<1>4. o + c + len <= L
  BY <1>1, <1>2, Places DEF Laid
<1>5. a + m <= len
  OBVIOUS
<1> DEFINE from == DataAt(off, n, a)
<1>6. from = o + c + a
  BY DEF DataAt
<1>7. Len(Tx!Layout(nals)) = L
  BY DEF Laid
<1> HIDE DEF o, c, L, len, from
<1>8. o + c + a \in Nat /\ o + c + a + m <= L
  BY <1>2, <1>3, <1>4, <1>5
<1>9. from \in Nat /\ from + m <= L
  BY <1>6, <1>8
<1>10. Agrees(buf, nals, from)
  <2>1. pos <= from
    BY DEF from
  <2>2. \A i \in from .. L - 1 : i \in pos .. L - 1
    BY <1>2, <1>9, <2>1
  <2> QED BY <1>6, <1>7, <2>2 DEF Agrees, Laid
<1>11. SameBytes(buf, from, nals[n].nal, a, m)
  <2>1. Agrees(buf, nals, off[n] + CodeLen(nals, n) + a)
    BY <1>10 DEF from, DataAt
  <2>2. ProperPicture(nals) /\ Geometry(nals, off)
    BY DEF Laid
  <2>3. SameBytes(buf, off[n] + CodeLen(nals, n) + a, nals[n].nal, a, m)
    BY <2>1, <2>2, Bytes
  <2> QED BY <2>3 DEF from, DataAt
<1> QED
  BY <1>6, <1>9, <1>11 DEF from, L

(* A fragment of NAL unit n that carries m of its octets, from a + 1 on.   *)
Emitted(n, a, m, load, octet, S, E) ==
  LET payload == payloads'[Len(payloads) + 1]
  IN  /\ payloads' = Append(payloads, payload)
      /\ payload \in Seq(Byte)
      /\ Read(payload) = [kind |-> "FU_A", octet |-> octet, S |-> S = 1, E |-> E = 1,
                          data |-> SubSeq(nals[n].nal, a + 1, a + m)]
      /\ pos' = load + 2 + m
      /\ buf' \in [0 .. Len(picture) - 1 -> Byte]
      /\ \A i \in load + 2 .. Len(picture) - 1 : buf'[i] = buf[i]
      /\ Tx!Nri(buf'[load]) * 32 + Tx!Type(buf'[load + 1]) = octet
      /\ picture' = picture /\ nals' = nals

(* The call that emits it.                                                 *)
Emits(off, n, a, m, load, nri, type, S, E) ==
  /\ n \in 1 .. Len(nals) /\ a \in Nat /\ m \in Nat /\ m >= 1
  /\ a + m <= NalLen(nals, n)
  /\ load \in Nat /\ load + 2 = DataAt(off, n, a) /\ pos <= load + 2
  /\ Tx!fu_payload_len(load + 2) = m + 2
  /\ nri \in 0 .. 3 /\ type \in 1 .. 23 /\ S \in 0 .. 1 /\ E \in 0 .. 1
  /\ E = 1 <=> Tx!WholeLen(load + 2) <= Mtu
  /\ Tx!EmitFragment(load + 2, nri, type, S)

(* What EmitFragment does.                                                 *)
LEMMA EmitIs ==
  ASSUME NEW off, Laid(off), payloads \in Seq(Seq(Byte)),
         NEW n, NEW a, NEW m, NEW load, NEW nri, NEW type, NEW S, NEW E,
         Emits(off, n, a, m, load, nri, type, S, E)
  PROVE  Emitted(n, a, m, load, nri * 32 + type, S, E)
<1> DEFINE L == Len(picture)
           nal == nals[n].nal
           ind == nri * 32 + 28
           hdr == S * 128 + E * 64 + type
           written == [buf EXCEPT ![load] = ind, ![load + 1] = hdr]
           payload == Tx!Copy(written, load, load + (m + 2))
<1>1. L \in Nat /\ buf \in [0 .. L - 1 -> Byte]
  <2>1. picture \in Seq(Byte)
    BY LaidTypes
  <2> QED BY <2>1 DEF Laid
<1>t. /\ n \in 1 .. Len(nals) /\ a \in Nat /\ m \in Nat /\ m >= 1 /\ load \in Nat
      /\ a + m <= NalLen(nals, n)
  BY DEF Emits
<1>2. load + 2 + m <= L /\ SameBytes(buf, load + 2, nal, a, m)
  <2>1. load + 2 = DataAt(off, n, a) /\ pos <= DataAt(off, n, a)
    BY DEF Emits
  <2>2. /\ DataAt(off, n, a) + m <= Len(picture)
        /\ SameBytes(buf, DataAt(off, n, a), nals[n].nal, a, m)
    BY <1>t, <2>1, DataPlace
  <2> QED BY <2>1, <2>2
<1>n. nal \in Seq(Byte) /\ a + m <= Len(nal)
  BY <1>t, UnitTypes DEF Laid, NalLen
<1>o. FuOctets(ind, hdr, nri, type, S, E)
  BY DEF FuOctets, Emits
<1>e. E \in 0 .. 1 /\ (E = 1 <=> Tx!WholeLen(load + 2) <= Mtu)
  BY DEF Emits
<1>4. Tx!fu_header(load + 2, type, S) = hdr
  <2>1. CASE Tx!WholeLen(load + 2) <= Mtu
    <3>1. E * 64 = 64
      BY <1>e, <2>1
    <3> QED BY <2>1, <3>1 DEF Tx!fu_header
  <2>2. CASE ~ (Tx!WholeLen(load + 2) <= Mtu)
    <3>1. E * 64 = 0
      BY <1>e, <2>2
    <3> QED BY <2>2, <3>1 DEF Tx!fu_header
  <2> QED BY <2>1, <2>2
<1>5. /\ buf' = written
      /\ payloads' = Append(payloads, payload)
      /\ pos' = load + (m + 2)
      /\ picture' = picture /\ nals' = nals
  <2>1. (load + 2) - 2 = load
    BY <1>t
  <2>2. Tx!EmitFragment(load + 2, nri, type, S) /\ Tx!fu_payload_len(load + 2) = m + 2
    BY DEF Emits
  <2> HIDE DEF hdr
  <2> QED BY <1>4, <2>1, <2>2 DEF Tx!EmitFragment, Tx!HEADER_SIZE_FU_A, Tx!NAL_TYPE_FU_A
<1> HIDE DEF ind, hdr, L, nal
<1>3. /\ ind \in Byte /\ hdr \in Byte
      /\ Tx!Nri(ind) = nri /\ Tx!Type(hdr) = type
  BY <1>o, OctetsOf
<1>6. Overwritten(buf, load, m, ind, hdr, L, nal, a)
  BY <1>1, <1>2, <1>t, <1>n, <1>3, Overwrite, Zenon
<1>7. /\ written \in [0 .. L - 1 -> Byte]
      /\ written[load] = ind /\ written[load + 1] = hdr
      /\ \A i \in load + 2 .. L - 1 : written[i] = buf[i]
      /\ payload \in Seq(Byte) /\ Len(payload) = m + 2
      /\ payload[1] = ind /\ payload[2] = hdr
      /\ SubSeq(payload, 3, Len(payload)) = SubSeq(nal, a + 1, a + m)
  BY <1>6, Zenon DEF Overwritten
<1> HIDE DEF written, payload
<1>8. Read(payload) = [kind |-> "FU_A", octet |-> nri * 32 + type, S |-> S = 1, E |-> E = 1,
                       data |-> SubSeq(payload, 3, Len(payload))]
  <2>1. Len(payload) >= 2 /\ Len(payload) \in Nat
    BY <1>t, <1>7
  <2>2. FuOctets(payload[1], payload[2], nri, type, S, E)
    BY <1>o, <1>7, Zenon
  <2>3. FuRead(payload, nri * 32 + type, S, E)
    BY <2>1, <2>2, ReadFragment
  <2> QED BY <2>3 DEF FuRead
<1>9. Read(payload) = [kind |-> "FU_A", octet |-> nri * 32 + type, S |-> S = 1, E |-> E = 1,
                       data |-> SubSeq(nals[n].nal, a + 1, a + m)]
  BY <1>7, <1>8 DEF nal
<1>10. payloads'[Len(payloads) + 1] = payload
  BY <1>5, <1>7
<1>11. load + (m + 2) = load + 2 + m
  BY <1>t
<1>12. Tx!Nri(buf'[load]) * 32 + Tx!Type(buf'[load + 1]) = nri * 32 + type
  BY <1>3, <1>5, <1>7
<1>13. payloads' = Append(payloads, payloads'[Len(payloads) + 1])
  BY <1>5, <1>10
<1>14. pos' = load + 2 + m
  BY <1>5, <1>11
<1>15. /\ buf' \in [0 .. L - 1 -> Byte]
       /\ \A i \in load + 2 .. L - 1 : buf'[i] = buf[i]
  BY <1>5, <1>7
<1> QED
  BY <1>5, <1>7, <1>9, <1>10, <1>12, <1>13, <1>14, <1>15 DEF Emitted, L
-----------------------------------------------------------------------------
(* segs[k] is what payload k carries.  The segments are in order: each goes *)
(* on where the one before it ended, or begins the next NAL unit when that  *)
(* one is whole.                                                            *)
Ordered(segs) ==
  \A k \in 1 .. Len(segs) : \A j \in 1 .. k - 1 :
    /\ segs[j].unit <= segs[k].unit
    /\ segs[k].from = 0 => segs[j].unit < segs[k].unit
    /\ segs[j].unit = segs[k].unit => segs[j].to <= segs[k].from

(* Segment s may follow segment r. *)
Follows(pic, r, s) ==
  IF Whole(pic, r) THEN s.from = 0 /\ s.unit = r.unit + 1
  ELSE s.unit = r.unit /\ s.from = r.to

(* A payload too short to be read as anything else is the whole NAL unit. *)
ShortIsWhole(pic, s, payload) == Len(payload) < 2 => payload = pic[s.unit].nal

Sent(pic, pls, segs) ==
  /\ ProperPicture(pic) /\ pls \in Seq(Seq(Byte))
  /\ segs \in Seq(Segment(pic)) /\ Len(segs) = Len(pls)
  /\ \A k \in 1 .. Len(segs) : Reads(pic, segs[k], Read(pls[k]))
  /\ \A k \in 1 .. Len(segs) : ShortIsWhole(pic, segs[k], pls[k])
  /\ Ordered(segs)
  /\ segs # <<>> => segs[1].from = 0 /\ segs[1].unit = 1
  /\ \A k \in 1 .. Len(segs) - 1 : Follows(pic, segs[k], segs[k+1])

(* Segment s may be the next one. *)
NextSegment(pic, segs, s) ==
  IF segs = <<>> THEN s.from = 0 /\ s.unit = 1
  ELSE Follows(pic, segs[Len(segs)], s)

(* A payload that carries the next segment may be sent.                    *)
LEMMA AddSegment ==
  ASSUME NEW pic, NEW pls, NEW segs, Sent(pic, pls, segs),
         NEW payload \in Seq(Byte), NEW s, Reads(pic, s, Read(payload)),
         ShortIsWhole(pic, s, payload), NextSegment(pic, segs, s)
  PROVE  Sent(pic, Append(pls, payload), Append(segs, s))
<1> DEFINE N == Len(segs)
           more == Append(segs, s)
           mine == Append(pls, payload)
<1>1. /\ ProperPicture(pic) /\ pls \in Seq(Seq(Byte))
      /\ segs \in Seq(Segment(pic)) /\ N = Len(pls) /\ N \in Nat
      /\ s \in Segment(pic)
  BY DEF Sent, Reads
<1>2. /\ more \in Seq(Segment(pic)) /\ Len(more) = N + 1
      /\ \A k \in 1 .. N : more[k] = segs[k]
      /\ more[N+1] = s /\ more # <<>>
  <2>1. /\ more \in Seq(Segment(pic)) /\ Len(more) = N + 1
        /\ \A k \in 1 .. N : more[k] = segs[k]
        /\ more[N+1] = s
    BY <1>1, AppendProperties
  <2>2. N + 1 # 0
    BY <1>1
  <2> QED BY <2>1, <2>2
<1>3. /\ mine \in Seq(Seq(Byte)) /\ Len(mine) = N + 1
      /\ \A k \in 1 .. N : mine[k] = pls[k]
      /\ mine[N+1] = payload
  BY <1>1
<1>4. \A k \in 1 .. N : Reads(pic, segs[k], Read(pls[k]))
  BY DEF Sent
<1>w. \A k \in 1 .. N : ShortIsWhole(pic, segs[k], pls[k])
  BY DEF Sent
<1>5. \A k \in 1 .. N - 1 : Follows(pic, segs[k], segs[k+1])
  BY DEF Sent
<1>6. /\ Ordered(segs)
      /\ segs # <<>> => segs[1].from = 0 /\ segs[1].unit = 1
  BY DEF Sent
<1>7. \A k \in 1 .. N : segs[k].unit \in Nat /\ segs[k].to \in Nat /\ segs[k].from \in Nat
                        /\ segs[k].from < segs[k].to
  <2> TAKE k \in 1 .. N
  <2>1. segs[k] \in Segment(pic) /\ segs[k].from < segs[k].to
    BY <1>4 DEF Reads
  <2> QED BY <2>1 DEF Segment
<1>8. s.unit \in Nat
  BY <1>1 DEF Segment
<1>z. \A k \in 1 .. N + 1 : k \in 1 .. N \/ k = N + 1
  BY <1>1
<1> HIDE DEF more, mine, N
<1>9. \A k \in 1 .. N + 1 : Reads(pic, more[k], Read(mine[k]))
  <2> TAKE k \in 1 .. N + 1
  <2> QED BY <1>2, <1>3, <1>4, <1>z
<1>v. \A k \in 1 .. N + 1 : ShortIsWhole(pic, more[k], mine[k])
  BY <1>2, <1>3, <1>w, <1>z
<1>10. more[1].from = 0 /\ more[1].unit = 1
  <2>1. CASE N = 0
    <3>1. segs = <<>> /\ N + 1 = 1
      BY <1>1, <2>1 DEF N
    <3> QED BY <1>2, <3>1 DEF NextSegment
  <2>2. CASE N # 0
    <3>1. segs # <<>> /\ 1 \in 1 .. N
      BY <1>1, <2>2 DEF N
    <3> QED BY <1>2, <1>6, <3>1
  <2> QED BY <2>1, <2>2
<1>11. \A k \in 1 .. (N + 1) - 1 : Follows(pic, more[k], more[k+1])
  <2> TAKE k \in 1 .. (N + 1) - 1
  <2>1. k \in 1 .. N
    BY <1>1
  <2>2. CASE k = N
    <3>1. segs # <<>> /\ N \in 1 .. N
      BY <1>1, <2>1 DEF N
    <3>2. Follows(pic, segs[N], s)
      BY <3>1 DEF NextSegment, N
    <3> QED BY <1>2, <2>2, <3>1, <3>2
  <2>3. CASE k # N
    <3>1. k \in 1 .. N - 1 /\ k + 1 \in 1 .. N
      BY <1>1, <2>1, <2>3
    <3> QED BY <1>2, <1>5, <2>1, <3>1
  <2> QED BY <2>2, <2>3
<1>12. Ordered(more)
  <2> SUFFICES ASSUME NEW k \in 1 .. N + 1, NEW j \in 1 .. k - 1
               PROVE  /\ more[j].unit <= more[k].unit
                      /\ more[k].from = 0 => more[j].unit < more[k].unit
                      /\ more[j].unit = more[k].unit => more[j].to <= more[k].from
    BY <1>2 DEF Ordered
  <2>1. CASE k \in 1 .. N
    <3>1. j \in 1 .. N
      BY <1>1, <2>1
    <3>2. /\ segs[j].unit <= segs[k].unit
          /\ segs[k].from = 0 => segs[j].unit < segs[k].unit
          /\ segs[j].unit = segs[k].unit => segs[j].to <= segs[k].from
      BY <1>6, <2>1 DEF Ordered, N
    <3> QED BY <1>2, <2>1, <3>1, <3>2
  <2>2. CASE k = N + 1
    <3>1. j \in 1 .. N /\ N \in 1 .. N /\ segs # <<>>
      BY <1>1, <2>2 DEF N
    <3>2. segs[j].unit <= segs[N].unit /\ (segs[j].unit = segs[N].unit => segs[j].to <= segs[N].to)
      <4>1. CASE j = N
        BY <1>7, <3>1, <4>1
      <4>2. CASE j # N
        <5>1. j \in 1 .. N - 1
          BY <1>1, <3>1, <4>2
        <5>2. /\ segs[j].unit <= segs[N].unit
              /\ segs[j].unit = segs[N].unit => segs[j].to <= segs[N].from
          BY <1>6, <3>1, <5>1 DEF Ordered, N
        <5>3. /\ segs[j].to \in Nat /\ segs[N].from \in Nat /\ segs[N].to \in Nat
              /\ segs[N].from < segs[N].to
          BY <1>7, <3>1
        <5> QED BY <5>2, <5>3
      <4> QED BY <4>1, <4>2
    <3>3. Follows(pic, segs[N], s)
      BY <3>1 DEF NextSegment, N
    <3>4. segs[j].unit \in Nat /\ segs[N].unit \in Nat /\ segs[N].to \in Nat
          /\ segs[N].from \in Nat /\ segs[N].from < segs[N].to
      BY <1>7, <3>1
    <3>5. more[j] = segs[j] /\ more[k] = s
      BY <1>2, <2>2, <3>1
    <3>6. CASE Whole(pic, segs[N])
      <4>1. s.unit = segs[N].unit + 1
        BY <3>3, <3>6 DEF Follows
      <4>2. segs[j].unit < s.unit
        BY <1>8, <3>2, <3>4, <4>1
      <4> QED BY <1>8, <3>4, <3>5, <4>2
    <3>7. CASE ~ Whole(pic, segs[N])
      <4>1. s.unit = segs[N].unit /\ s.from = segs[N].to
        BY <3>3, <3>7 DEF Follows
      <4>2. s.from # 0
        BY <3>4, <4>1
      <4> QED BY <3>2, <3>5, <4>1, <4>2
    <3> QED BY <3>6, <3>7
  <2> QED BY <1>z, <2>1, <2>2
<1> QED
  BY <1>1, <1>2, <1>3, <1>9, <1>10, <1>11, <1>12, <1>v DEF Sent, more, mine

(* Every NAL unit is longer than its first octet.                          *)
LongUnits(pic) == \A n \in 1 .. Len(pic) : NalLen(pic, n) >= 2

(* What the payload format makes of a payload that carries segment s.      *)
Carries(pic, s, payload) ==
  LET nal == pic[s.unit].nal IN
  IF Tx!IsFragment(payload)
  THEN /\ Tx!StartBit(payload) <=> s.from = 0
       /\ Tx!EndBit(payload) <=> Whole(pic, s)
       /\ Tx!UnitOf(payload)[1] * 32 + Tx!UnitOf(payload)[2] = nal[1]
       /\ Tx!Data(payload) = SubSeq(nal, IF s.from = 0 THEN 2 ELSE s.from + 1, s.to)
  ELSE s.from = 0 /\ Whole(pic, s) /\ payload = nal

(* The payload format and the repository's receiver agree on a payload.    *)
LEMMA PayloadIs ==
  ASSUME NEW pic, NEW pls, NEW segs, Sent(pic, pls, segs), NEW k \in 1 .. Len(segs)
  PROVE  Carries(pic, segs[k], pls[k])
<1>p. PICK p, s, r : p = pls[k] /\ s = segs[k] /\ r = Read(p)
  OBVIOUS
<1>1. Reads(pic, s, r) /\ ShortIsWhole(pic, s, p) /\ p \in Seq(Byte) /\ ProperPicture(pic)
  <2>1. /\ Reads(pic, s, r) /\ ShortIsWhole(pic, s, p) /\ ProperPicture(pic)
        /\ pls \in Seq(Seq(Byte)) /\ Len(segs) = Len(pls)
    BY <1>p DEF Sent
  <2> QED BY <1>p, <2>1
<1>2. PICK nal : nal = pic[s.unit].nal
  OBVIOUS
<1>3. /\ r.kind \in {"SHORT", "SINGLE", "FU_A"}
      /\ r.kind = "SINGLE" => r.nal = nal
      /\ r.kind \in {"SHORT", "SINGLE"} => s.from = 0 /\ Whole(pic, s)
      /\ r.kind = "FU_A" =>
           /\ r.octet = nal[1]
           /\ r.S <=> s.from = 0
           /\ r.E <=> Whole(pic, s)
           /\ r.data = SubSeq(nal, IF s.from = 0 THEN 2 ELSE s.from + 1, s.to)
  BY <1>1, <1>2 DEF Reads
<1>4. nal[1] % 32 \in 1 .. 23
  <2>1. s.unit \in DOMAIN pic
    <3>1. s.unit \in 1 .. Len(pic) /\ pic \in Seq(Unit)
      BY <1>1 DEF Reads, Segment, ProperPicture
    <3> QED BY <3>1
  <2> QED BY <1>1, <1>2, <2>1 DEF ProperPicture, ProperUnit
<1>5. /\ Rx!Type(p[1]) \in Rx!NAL_TYPE_SINGLE_NAL_MIN .. Rx!NAL_TYPE_SINGLE_NAL_MAX
           <=> p[1] % 32 \in 1 .. 23
      /\ Rx!Type(p[1]) = Rx!NAL_TYPE_FU_A <=> Tx!IsFragment(p)
      /\ 28 \notin 1 .. 23
  BY DEF Rx!Type, Rx!NAL_TYPE_SINGLE_NAL_MIN, Rx!NAL_TYPE_SINGLE_NAL_MAX, Rx!NAL_TYPE_FU_A,
         Tx!IsFragment
<1>6. p[1] % 32 \in 1 .. 23 => ~ Tx!IsFragment(p)
  BY <1>5 DEF Tx!IsFragment
<1>7. CASE Len(p) < 2
  <2>1. r.kind = "SHORT"
    BY <1>7, <1>p DEF Read
  <2>2. p = nal
    BY <1>1, <1>2, <1>7 DEF ShortIsWhole
  <2> QED BY <1>2, <1>3, <1>4, <1>6, <1>p, <2>1, <2>2 DEF Carries
<1>8. CASE Len(p) >= 2 /\ p[1] % 32 \in 1 .. 23
  <2>1. r = [kind |-> "SINGLE", nal |-> p]
    <3>1. ~ (Len(p) < 2) /\ ~ (Rx!Type(p[1]) = Rx!NAL_TYPE_FU_A)
      BY <1>1, <1>5, <1>6, <1>8
    <3> QED BY <1>5, <1>8, <1>p, <3>1 DEF Read
  <2> QED BY <1>2, <1>3, <1>6, <1>8, <1>p, <2>1 DEF Carries
<1>9. CASE Len(p) >= 2 /\ Tx!IsFragment(p)
  <2>1. r = [kind  |-> "FU_A",
             octet |-> Rx!Nri(p[1]) * 32 + Rx!Type(p[2]),
             S     |-> Rx!SBit(p[2]) = 1,
             E     |-> Rx!EBit(p[2]) = 1,
             data  |-> SubSeq(p, 3, Len(p))]
    <3>1. ~ (Len(p) < 2)
          /\ ~ (Rx!Type(p[1]) \in Rx!NAL_TYPE_SINGLE_NAL_MIN .. Rx!NAL_TYPE_SINGLE_NAL_MAX)
      BY <1>1, <1>5, <1>6, <1>9
    <3> QED BY <1>5, <1>9, <1>p, <3>1 DEF Read
  <2>2. /\ r.kind = "FU_A"
        /\ r.octet = Tx!UnitOf(p)[1] * 32 + Tx!UnitOf(p)[2]
        /\ r.S <=> Rx!SBit(p[2]) = 1
        /\ r.E <=> Rx!EBit(p[2]) = 1
        /\ r.data = Tx!Data(p)
    BY <2>1 DEF Rx!Nri, Rx!Type, Tx!UnitOf, Tx!Data
  <2>3. p[2] \in 0 .. 255
    <3>1. Len(p) \in Nat
      BY <1>1
    <3>2. 2 \in 1 .. Len(p)
      BY <1>9, <3>1
    <3>3. p[2] \in Byte
      BY <1>1, <3>2
    <3> QED BY <3>3 DEF Byte
  <2>4. (Rx!SBit(p[2]) = 1 <=> Tx!StartBit(p)) /\ (Rx!EBit(p[2]) = 1 <=> Tx!EndBit(p))
    <3>1. \A x \in 0 .. 255 : x \div 128 = 1 <=> x >= 128
      OBVIOUS
    <3>2. \A x \in 0 .. 255 : (x \div 64) % 2 = 1 <=> x % 128 >= 64
      OBVIOUS
    <3> QED BY <2>3, <3>1, <3>2 DEF Rx!SBit, Rx!EBit, Tx!StartBit, Tx!EndBit
  <2> QED BY <1>2, <1>3, <1>9, <1>p, <2>2, <2>4, Zenon DEF Carries
<1>10. CASE Len(p) >= 2 /\ ~ (p[1] % 32 \in 1 .. 23) /\ ~ Tx!IsFragment(p)
  <2>1. r.kind = "OTHER"
    <3>1. ~ (Len(p) < 2)
      BY <1>1, <1>10
    <3> QED BY <1>5, <1>10, <1>p, <3>1 DEF Read
  <2> QED BY <1>3, <2>1
<1>11. Len(p) < 2 \/ Len(p) >= 2
  BY <1>1
<1> QED
  BY <1>7, <1>8, <1>9, <1>10, <1>11

(* A payload starts a NAL unit where the segment that it carries does.     *)
LEMMA StartsUnitIs ==
  ASSUME NEW pls, NEW segs, Sent(nals, pls, segs), NEW k \in 1 .. Len(segs)
  PROVE  StartsUnit(pls[k]) <=> segs[k].from = 0
BY PayloadIs DEF Carries, StartsUnit, IsFragment, StartBit, Tx!IsFragment, Tx!StartBit

(* The NAL unit of a segment is the one before it, or the next.            *)
LEMMA UnitOfNext ==
  ASSUME NEW pic, NEW pls, NEW segs, Sent(pic, pls, segs), NEW k \in 1 .. Len(segs)
  PROVE  /\ segs[k].unit \in 1 .. Len(pic)
         /\ segs[k].from = 0 => segs[k].unit = IF k = 1 THEN 1 ELSE segs[k-1].unit + 1
         /\ segs[k].from # 0 => k # 1 /\ segs[k].unit = segs[k-1].unit /\ ~ Whole(pic, segs[k-1])
<1>1. Reads(pic, segs[k], Read(pls[k])) /\ Len(segs) \in Nat
  BY DEF Sent
<1>2. segs[k].unit \in 1 .. Len(pic)
  BY <1>1 DEF Reads, Segment
<1>3. CASE k = 1
  <2>1. segs # <<>>
    BY <1>1
  <2> QED BY <1>2, <1>3, <2>1 DEF Sent
<1>4. CASE k # 1
  <2>1. PICK j : j = k - 1
    OBVIOUS
  <2>2. j \in 1 .. Len(segs) - 1 /\ j + 1 = k /\ j \in 1 .. Len(segs)
    BY <1>1, <1>4, <2>1
  <2>3. Follows(pic, segs[j], segs[j+1])
    BY <2>2 DEF Sent
  <2>4. segs[j].to # 0
    <3>1. Reads(pic, segs[j], Read(pls[j]))
      BY <2>2 DEF Sent
    <3>2. segs[j].from \in Nat /\ segs[j].to \in Nat /\ segs[j].from < segs[j].to
      BY <3>1 DEF Reads, Segment
    <3> QED BY <3>2
  <2> QED BY <1>2, <1>4, <2>1, <2>2, <2>3, <2>4 DEF Follows
<1> QED
  BY <1>3, <1>4

(* UnitIndex counts what it should: the NAL unit that a payload carries.   *)
LEMMA UnitIndexIs ==
  ASSUME NEW segs, Sent(nals, payloads, segs)
  PROVE  \A k \in 1 .. Len(segs) : UnitIndex(k) = segs[k].unit
<1> DEFINE N == Len(segs)
           K(m) == {i \in 1 .. m : StartsUnit(payloads[i])}
           units(m) == IF m = 0 THEN 0 ELSE segs[m].unit
           I == {m \in Nat : m <= N => IsFiniteSet(K(m)) /\ Cardinality(K(m)) = units(m)}
<1>1. N \in Nat
  BY DEF Sent
<1>2. \A k \in 1 .. N : StartsUnit(payloads[k]) <=> segs[k].from = 0
  BY StartsUnitIs
<1>3. 0 \in I
  <2>1. K(0) = {}
    OBVIOUS
  <2>2. units(0) = 0
    OBVIOUS
  <2> HIDE DEF K, units
  <2> QED BY <2>1, <2>2, FS_EmptySet
<1>4. ASSUME NEW m \in Nat, m \in I PROVE m + 1 \in I
  <2> SUFFICES ASSUME m + 1 <= N
               PROVE  IsFiniteSet(K(m + 1)) /\ Cardinality(K(m + 1)) = units(m + 1)
    OBVIOUS
  <2>1. m + 1 \in 1 .. N /\ m <= N /\ (m + 1) - 1 = m /\ (m # 0 => m \in 1 .. N) /\ (m + 1 = 1 <=> m = 0)
    BY <1>1
  <2>2. IsFiniteSet(K(m)) /\ Cardinality(K(m)) = units(m)
    BY <1>4, <2>1
  <2>3. /\ segs[m + 1].from = 0 => segs[m + 1].unit = IF m = 0 THEN 1 ELSE segs[m].unit + 1
        /\ segs[m + 1].from # 0 => m # 0 /\ segs[m + 1].unit = segs[m].unit
    <3>1. /\ segs[m + 1].from = 0
             => segs[m + 1].unit = IF m + 1 = 1 THEN 1 ELSE segs[(m + 1) - 1].unit + 1
          /\ segs[m + 1].from # 0 => m + 1 # 1 /\ segs[m + 1].unit = segs[(m + 1) - 1].unit
      BY <2>1, UnitOfNext
    <3> QED BY <2>1, <3>1
  <2>4. units(m + 1) = segs[m + 1].unit
    OBVIOUS
  <2>5. CASE segs[m + 1].from = 0
    <3>1. K(m + 1) = K(m) \cup {m + 1}
      BY <1>2, <2>1, <2>5
    <3>2. m + 1 \notin K(m)
      OBVIOUS
    <3>3. units(m + 1) = units(m) + 1
      BY <2>3, <2>4, <2>5
    <3> HIDE DEF K, units
    <3> QED BY <2>2, <3>1, <3>2, <3>3, FS_AddElement
  <2>6. CASE segs[m + 1].from # 0
    <3>1. K(m + 1) = K(m)
      BY <1>2, <2>1, <2>6
    <3>2. units(m + 1) = units(m)
      BY <2>3, <2>4, <2>6
    <3> HIDE DEF K, units
    <3> QED BY <2>2, <3>1, <3>2
  <2> QED BY <2>5, <2>6
<1>5. Nat \subseteq I
  <2> HIDE DEF I
  <2> QED BY <1>3, <1>4, Lists!SetInduction
<1>6. ASSUME NEW k \in 1 .. N PROVE UnitIndex(k) = segs[k].unit
  <2>1. k \in Nat /\ k <= N /\ k # 0
    BY <1>1
  <2>2. Cardinality(K(k)) = units(k)
    BY <1>5, <2>1
  <2> QED BY <2>1, <2>2 DEF UnitIndex
<1> QED
  BY <1>6

(* A NAL unit in front of the one of segment k was sent to its end.        *)
LEMMA WholeInFront ==
  ASSUME NEW pic, NEW pls, NEW segs, Sent(pic, pls, segs)
  PROVE  \A k \in 1 .. Len(segs) : \A n \in 1 .. segs[k].unit - 1 :
           \E j \in 1 .. k : segs[j].unit = n /\ Whole(pic, segs[j])
<1> DEFINE N == Len(segs)
           Sooner(k) == \A n \in 1 .. segs[k].unit - 1 :
                          \E j \in 1 .. k : segs[j].unit = n /\ Whole(pic, segs[j])
           I == {m \in Nat : m + 1 <= N => Sooner(m + 1)}
<1>1. N \in Nat /\ \A k \in 1 .. N : segs[k].unit \in Nat
  <2>1. N \in Nat
    BY DEF Sent
  <2>2. ASSUME NEW k \in 1 .. N PROVE segs[k].unit \in Nat
    <3>1. segs[k].unit \in 1 .. Len(pic)
      BY UnitOfNext
    <3> QED BY <3>1
  <2> QED BY <2>1, <2>2
<1>2. 0 \in I
  <2> SUFFICES ASSUME 0 + 1 <= N PROVE Sooner(1)
    OBVIOUS
  <2>1. segs # <<>>
    BY <1>1
  <2>2. segs[1].unit = 1
    BY <2>1 DEF Sent
  <2>3. \A n \in 1 .. 1 - 1 : FALSE
    OBVIOUS
  <2> QED BY <2>2, <2>3
<1>3. ASSUME NEW m \in Nat, m \in I PROVE m + 1 \in I
  <2> SUFFICES ASSUME (m + 1) + 1 <= N PROVE Sooner((m + 1) + 1)
    OBVIOUS
  <2>1. PICK k : k = m + 1
    OBVIOUS
  <2>2. k \in 1 .. N - 1 /\ k \in 1 .. N /\ k + 1 \in 1 .. N /\ k + 1 = (m + 1) + 1 /\ m + 1 <= N
    BY <1>1, <2>1
  <2>3. Sooner(k)
    BY <1>3, <2>1, <2>2
  <2>4. Follows(pic, segs[k], segs[k+1])
    BY <2>2 DEF Sent
  <2>5. segs[k].unit \in Nat /\ segs[k+1].unit \in Nat
    BY <1>1, <2>2
  <2>6. \A j \in 1 .. k : j \in 1 .. k + 1
    BY <2>2
  <2>7. ASSUME NEW n \in 1 .. segs[k+1].unit - 1
        PROVE  \E j \in 1 .. k + 1 : segs[j].unit = n /\ Whole(pic, segs[j])
    <3>1. CASE n \in 1 .. segs[k].unit - 1
      <4>1. PICK j \in 1 .. k : segs[j].unit = n /\ Whole(pic, segs[j])
        BY <2>3, <3>1
      <4> QED BY <2>6, <4>1
    <3>2. CASE n \notin 1 .. segs[k].unit - 1
      <4>1. Whole(pic, segs[k]) /\ segs[k].unit = n
        <5>1. Whole(pic, segs[k])
          <6>1. segs[k+1].unit # segs[k].unit
            BY <3>2
          <6> QED BY <2>4, <6>1 DEF Follows
        <5>2. segs[k+1].unit = segs[k].unit + 1
          BY <2>4, <5>1 DEF Follows
        <5>3. n \in Nat /\ n >= 1 /\ n <= segs[k].unit /\ ~ (n <= segs[k].unit - 1)
          BY <2>5, <3>2, <5>2
        <5> QED BY <2>5, <5>1, <5>3
      <4>2. k \in 1 .. k + 1
        BY <2>2
      <4> QED BY <4>1, <4>2
    <3> QED BY <3>1, <3>2
  <2> QED BY <2>2, <2>7
<1>4. Nat \subseteq I
  <2> HIDE DEF I
  <2> QED BY <1>2, <1>3, Lists!SetInduction
<1>5. ASSUME NEW k \in 1 .. N PROVE Sooner(k)
  <2>1. PICK m : m = k - 1
    OBVIOUS
  <2>2. m \in Nat /\ m + 1 = k /\ m + 1 <= N
    BY <1>1, <2>1
  <2>3. m + 1 <= N => Sooner(m + 1)
    <3>1. m \in I
      BY <1>4, <2>2
    <3> HIDE DEF Sooner
    <3> QED BY <3>1
  <2> QED BY <2>2, <2>3
<1> QED
  BY <1>5

(* How the payload of a fragment reads.                                    *)
LEMMA EmittedReads ==
  ASSUME NEW off, Laid(off), NEW n \in 1 .. Len(nals), NEW a \in Nat, NEW m \in Nat, NEW load,
         NEW S, NEW E, Emitted(n, a, m, load, nals[n].nal[1], S, E),
         m >= 1, a >= 1, a + m <= NalLen(nals, n), S = 1 => a = 1,
         E = 1 <=> a + m = NalLen(nals, n)
  PROVE  LET s == [unit |-> n, from |-> IF S = 1 THEN 0 ELSE a, to |-> a + m]
         IN  Reads(nals, s, Read(payloads'[Len(payloads) + 1]))
<1> DEFINE s == [unit |-> n, from |-> IF S = 1 THEN 0 ELSE a, to |-> a + m]
           r == Read(payloads'[Len(payloads) + 1])
           nal == nals[n].nal
<1>1. r = [kind |-> "FU_A", octet |-> nal[1], S |-> S = 1, E |-> E = 1,
           data |-> SubSeq(nal, a + 1, a + m)]
  BY DEF Emitted
<1> HIDE DEF r
<1>2. /\ r.kind = "FU_A" /\ r.octet = nal[1] /\ r.data = SubSeq(nal, a + 1, a + m)
      /\ r.S <=> S = 1
      /\ r.E <=> E = 1
  BY <1>1
<1>3. /\ s.unit = n /\ s.to = a + m /\ s.from = IF S = 1 THEN 0 ELSE a
      /\ s \in Segment(nals) /\ s.from < s.to /\ s.to <= NalLen(nals, n)
  BY DEF Segment
<1>4. s.from = 0 <=> S = 1
  BY <1>3
<1>5. (IF s.from = 0 THEN 2 ELSE s.from + 1) = a + 1
  <2>1. CASE S = 1
    BY <1>4, <2>1
  <2>2. CASE S # 1
    <3>1. s.from # 0 /\ s.from = a
      BY <1>3, <1>4, <2>2
    <3> QED BY <3>1
  <2> QED BY <2>1, <2>2
<1>6. Whole(nals, s) <=> E = 1
  BY <1>3 DEF Whole
<1> HIDE DEF s
<1>7. Reads(nals, s, r)
  <2>1. "FU_A" # "SHORT" /\ "FU_A" # "SINGLE"
    OBVIOUS
  <2> QED BY <1>2, <1>3, <1>4, <1>5, <1>6, <2>1 DEF Reads
<1> QED
  BY <1>7 DEF s, r
-----------------------------------------------------------------------------
(* Before a call: at the beginning of NAL unit n, when the ones in front   *)
(* of it are sent, or inside it, behind octet t.                           *)
AtUnit(off, segs, n) ==
  /\ n \in 1 .. Len(nals) + 1 /\ pos = off[n]
  /\ IF segs = <<>> THEN n = 1
     ELSE Whole(nals, segs[Len(segs)]) /\ n = segs[Len(segs)].unit + 1

Within(off, segs, n, t) ==
  /\ n \in 1 .. Len(nals) /\ t \in Nat /\ t >= Mtu - 1 /\ t < NalLen(nals, n)
  /\ segs # <<>> /\ segs[Len(segs)].unit = n /\ segs[Len(segs)].to = t
  /\ pos = DataAt(off, n, t)
  /\ (NalLen(nals, n) - t - 1) % (Mtu - 2) = (NalLen(nals, n) - Mtu) % (Mtu - 2)
  /\ Tx!Nri(buf[pos - Mtu]) * 32 + Tx!Type(buf[pos - Mtu + 1]) = nals[n].nal[1]

Sending(off, segs) ==
  /\ Laid(off) /\ Sent(nals, payloads, segs)
  /\ \/ \E n : AtUnit(off, segs, n)
     \/ \E n, t : Within(off, segs, n, t)

(* A remainder does not change when the divisor is subtracted.             *)
LEMMA ModMinus ==
  ASSUME NEW d \in Nat, d > 0, NEW x \in Nat, x >= d
  PROVE  (x - d) % d = x % d
<1> DEFINE q == x \div d
           p == (x - d) \div d
           r == x % d
           s == (x - d) % d
<1>1. x = d * q + r /\ r \in 0 .. d-1 /\ q \in Nat
  OBVIOUS
<1>2. x - d = d * p + s /\ s \in 0 .. d-1 /\ p \in Nat
  OBVIOUS
<1> HIDE DEF q, p, r, s
<1>3. d * (q - 1 - p) = s - r
  BY <1>1, <1>2
<1>4. q - 1 - p \in Int /\ s - r < d /\ s - r > -d
  BY <1>1, <1>2
<1>5. \A k \in Int : k >= 1 => d * k >= d
  OBVIOUS
<1>6. \A k \in Int : k <= -1 => d * k <= -d
  OBVIOUS
<1>7. q - 1 - p = 0
  BY <1>3, <1>4, <1>5, <1>6
<1>8. s = r
  BY <1>1, <1>2, <1>3, <1>7
<1> QED BY <1>8 DEF r, s

(* The first octet of a NAL unit, taken apart and put together again.      *)
LEMMA FirstOctet ==
  ASSUME NEW pic, ProperPicture(pic), NEW n \in 1 .. Len(pic)
  PROVE  /\ pic[n].nal[1] \in Byte
         /\ Tx!Nri(pic[n].nal[1]) * 32 + Tx!Type(pic[n].nal[1]) = pic[n].nal[1]
         /\ \A i, h : /\ i \in Byte /\ h \in Byte
                      /\ Tx!Nri(i) * 32 + Tx!Type(h) = pic[n].nal[1]
                      => Tx!Nri(i) \in 0 .. 3 /\ Tx!Type(h) \in 1 .. 23
<1> DEFINE o == pic[n].nal[1]
<1>1. ProperUnit(pic[n]) /\ pic[n].nal \in Seq(Byte) /\ Len(pic[n].nal) >= 1 /\ Len(pic[n].nal) \in Nat
  BY UnitTypes DEF ProperPicture, NalLen
<1>2. o \in Byte /\ o < 128 /\ o % 32 \in 1 .. 23
  <2>1. o < 128 /\ o % 32 \in 1 .. 23
    BY <1>1 DEF ProperUnit
  <2>2. 1 \in 1 .. Len(pic[n].nal)
    BY <1>1
  <2> QED BY <1>1, <2>1, <2>2
<1> HIDE DEF o
<1>3. \A x \in 0 .. 255 : x < 128 => ((x \div 32) % 4) * 32 + (x % 32) = x
  OBVIOUS
<1>4. \A x \in 0 .. 255 : (x \div 32) % 4 \in 0 .. 3 /\ x % 32 \in 0 .. 31
  OBVIOUS
<1>5. \A x \in 0 .. 3, y \in 0 .. 31 : (x * 32 + y) % 32 = y
  OBVIOUS
<1>6. Tx!Nri(o) * 32 + Tx!Type(o) = o
  BY <1>2, <1>3 DEF Byte, Tx!Nri, Tx!Type
<1>7. ASSUME NEW i \in Byte, NEW h \in Byte, Tx!Nri(i) * 32 + Tx!Type(h) = o
      PROVE  Tx!Nri(i) \in 0 .. 3 /\ Tx!Type(h) \in 1 .. 23
  <2>1. Tx!Nri(i) \in 0 .. 3 /\ Tx!Type(h) \in 0 .. 31
    BY <1>4 DEF Byte, Tx!Nri, Tx!Type
  <2>2. (Tx!Nri(i) * 32 + Tx!Type(h)) % 32 = Tx!Type(h)
    BY <1>5, <2>1
  <2>3. Tx!Type(h) = o % 32
    BY <1>7, <2>2
  <2> QED BY <1>2, <2>1, <2>3
<1> QED
  BY <1>2, <1>6, <1>7 DEF o

(* A call changes nothing behind the position it ends at.                  *)
LEMMA LaidKept ==
  ASSUME NEW off, Laid(off), nals' = nals, picture' = picture,
         buf' \in [0 .. Len(picture) - 1 -> Byte],
         pos' \in 0 .. Len(picture), pos <= pos',
         \A i \in pos' .. Len(picture) - 1 : buf'[i] = buf[i]
  PROVE  Laid(off)'
<1>1. Len(Tx!Layout(nals)) = Len(picture) /\ Len(picture) \in Nat /\ pos \in Nat
  <2>1. Len(Tx!Layout(nals)) = Len(picture)
    BY DEF Laid
  <2> QED BY <2>1, LaidTypes
<1>2. \A i \in pos' .. Len(picture) - 1 : i \in pos .. Len(picture) - 1
  BY <1>1
<1>3. \A i \in pos .. Len(picture) - 1 : buf[i] = Tx!Layout(nals)[i+1]
  BY <1>1 DEF Laid, Agrees
<1>4. \A i \in pos' .. Len(picture) - 1 : buf'[i] = Tx!Layout(nals)[i+1]
  BY <1>2, <1>3
<1>5. Agrees(buf', nals, pos')
  BY <1>1, <1>4 DEF Agrees
<1>6. ProperPicture(nals) /\ Geometry(nals, off) /\ picture = Tx!Layout(nals)
  BY DEF Laid
<1> QED
  BY <1>5, <1>6 DEF Laid
(* What a call leaves behind.                                              *)
LEMMA SendsOne ==
  ASSUME NEW off, NEW segs, Laid(off), Sent(nals, payloads, segs),
         NEW payload \in Seq(Byte), NEW s, Reads(nals, s, Read(payload)),
         ShortIsWhole(nals, s, payload), NextSegment(nals, segs, s),
         payloads' = Append(payloads, payload), Laid(off)', nals' = nals,
         \/ \E n : AtUnit(off, Append(segs, s), n)'
         \/ \E n, t : Within(off, Append(segs, s), n, t)'
  PROVE  Sending(off, Append(segs, s))'
<1>1. Sent(nals, Append(payloads, payload), Append(segs, s))
  BY AddSegment
<1>2. Sent(nals', payloads', Append(segs, s))
  BY <1>1
<1> QED
  BY <1>2 DEF Sending

(* The last segment after one was appended.                                *)
LEMMA LastOf ==
  ASSUME NEW pic, NEW pls, NEW segs, Sent(pic, pls, segs), NEW s
  PROVE  /\ Append(segs, s) # <<>>
         /\ Append(segs, s)[Len(Append(segs, s))] = s
<1>1. segs \in Seq(Segment(pic)) /\ Len(segs) \in Nat
  BY DEF Sent
<1>2. Len(Append(segs, s)) = Len(segs) + 1 /\ Append(segs, s)[Len(segs) + 1] = s
  BY <1>1
<1> QED
  BY <1>1, <1>2

(* A NAL unit that fits is sent as one segment.                            *)
LEMMA SingleNalSends ==
  ASSUME NEW off, NEW segs, Laid(off), Sent(nals, payloads, segs), NoneStraddled,
         NEW n \in 1 .. Len(nals), AtUnit(off, segs, n), Tx!SingleNal
  PROVE  \E s : Sending(off, Append(segs, s))'
<1> DEFINE c == CodeLen(nals, n)
           len == NalLen(nals, n)
           nal == nals[n].nal
<1>s. PICK s : s = [unit |-> n, from |-> 0, to |-> NalLen(nals, n)]
  OBVIOUS
<1>1. pos = off[n] /\ Len(nals) \in Nat /\ off[n] \in Nat /\ off[n+1] \in Nat
      /\ IF segs = <<>> THEN n = 1
         ELSE Whole(nals, segs[Len(segs)]) /\ n = segs[Len(segs)].unit + 1
  <2>1. n \in 1 .. Len(nals) + 1 /\ n + 1 \in 1 .. Len(nals) + 1
    BY LaidTypes
  <2> QED BY <2>1, LaidTypes DEF AtUnit
<1>2. Tx!nal_start = off[n] + c /\ Tx!nal_end = off[n+1]
  <2>1. ~ Tx!fragmenting
    BY DEF Tx!SingleNal
  <2> QED BY <1>1, <2>1, CallAtUnit
<1>3. /\ nal \in Seq(Byte) /\ Len(nal) = len /\ len \in Nat /\ len >= 1 /\ c \in {3, 4}
      /\ off[n+1] = off[n] + c + len
  BY UnitTypes, Places DEF Laid, NalLen
<1>4. DataAt(off, n, 0) = off[n] + c /\ SameBytes(buf, DataAt(off, n, 0), nal, 0, len)
  <2>1. DataAt(off, n, 0) = off[n] + c
    BY <1>1, <1>3 DEF DataAt
  <2>2. pos <= DataAt(off, n, 0) /\ 0 + len <= NalLen(nals, n) /\ 0 \in Nat
    BY <1>1, <1>3, <2>1
  <2> QED BY <1>3, <2>1, <2>2, DataPlace
<1>5. payloads' = Append(payloads, Tx!Copy(buf, Tx!nal_start, Tx!nal_end))
      /\ pos' = off[n+1] /\ picture' = picture /\ nals' = nals /\ buf' = buf
  BY <1>2 DEF Tx!SingleNal
<1> HIDE DEF c, len, nal
<1>6. Tx!Copy(buf, Tx!nal_start, Tx!nal_end) = nal
  <2>1. off[n+1] - (off[n] + c) = len
    BY <1>1, <1>3
  <2>2. Tx!Copy(buf, Tx!nal_start, Tx!nal_end) = [i \in 1 .. len |-> buf[off[n] + c + i - 1]]
    BY <1>2, <2>1 DEF Tx!Copy
  <2>3. \A i \in 1 .. len : buf[off[n] + c + i - 1] = nal[i]
    <3> TAKE i \in 1 .. len
    <3>1. 0 + i = i
      OBVIOUS
    <3> QED BY <1>4, <3>1 DEF SameBytes
  <2>4. nal = [i \in 1 .. len |-> nal[i]]
    BY <1>3
  <2> QED BY <2>2, <2>3, <2>4
<1>7. payloads' = Append(payloads, nal)
  BY <1>5, <1>6
<1>8. Reads(nals, s, Read(nal))
  <2>1. nal # <<>> /\ nal[1] < 128 /\ nal[1] % 32 \in 1 .. 23
    <3>1. ProperUnit(nals[n])
      BY DEF Laid, ProperPicture
    <3> QED BY <3>1 DEF ProperUnit, nal
  <2>2. /\ Len(nal) = 1 => Read(nal) = [kind |-> "SHORT"]
        /\ Len(nal) >= 2 => Read(nal) = [kind |-> "SINGLE", nal |-> nal]
    BY <1>3, <2>1, ReadSingle
  <2>3. /\ s.unit = n /\ s.from = 0 /\ s.to = len /\ s \in Segment(nals)
    BY <1>3, <1>s DEF Segment, len
  <2>4. Whole(nals, s)
    BY <2>3 DEF Whole, len
  <2>5. "SHORT" # "FU_A" /\ "SINGLE" # "FU_A" /\ "SHORT" # "SINGLE"
    OBVIOUS
  <2>6. CASE Len(nal) = 1
    <3>1. Read(nal).kind = "SHORT" /\ s.to = 1
      BY <1>3, <2>2, <2>3, <2>6
    <3> QED BY <1>3, <2>3, <2>4, <2>5, <3>1 DEF Reads, len
  <2>7. CASE Len(nal) >= 2
    <3>1. Read(nal).kind = "SINGLE" /\ Read(nal).nal = nals[n].nal
      BY <2>2, <2>7 DEF nal
    <3> QED BY <1>3, <2>3, <2>4, <2>5, <3>1 DEF Reads, len
  <2> QED BY <1>3, <2>6, <2>7
<1>9. Whole(nals, s) /\ s.unit = n /\ s.from = 0
  BY <1>s DEF Whole
<1>10. NextSegment(nals, segs, s)
  BY <1>1, <1>9 DEF NextSegment, Follows
<1>11. Laid(off)'
  <2>1. off[n+1] <= Len(picture)
    <3>1. n \in 1 .. Len(nals) /\ Len(nals) + 1 \in 1 .. Len(nals) + 1 /\ n < Len(nals) + 1
      BY <1>1
    <3>2. off[n] + c + len <= off[Len(nals) + 1]
      BY <3>1, Places DEF Laid, c, len
    <3>3. off[Len(nals) + 1] = Len(picture)
      BY LaidTypes DEF Tx!buf_len
    <3> QED BY <1>3, <3>2, <3>3
  <2>2. pos' \in 0 .. Len(picture) /\ pos <= pos'
    <3>1. Len(picture) \in Nat
      <4>1. picture \in Seq(Byte)
        BY LaidTypes
      <4> QED BY <4>1
    <3> QED BY <1>1, <1>3, <1>5, <2>1, <3>1
  <2>3. buf \in [0 .. Len(picture) - 1 -> Byte]
    BY DEF Laid
  <2> QED BY <1>5, <2>2, <2>3, LaidKept
<1>12. AtUnit(off, Append(segs, s), n + 1)'
  <2>1. n + 1 \in 1 .. Len(nals) + 1
    BY <1>1
  <2>2. Append(segs, s) # <<>> /\ Append(segs, s)[Len(Append(segs, s))] = s
    BY LastOf
  <2>3. n + 1 \in 1 .. Len(nals') + 1 /\ pos' = off[n + 1]
    BY <1>5, <2>1
  <2>4. Whole(nals', s) /\ n + 1 = s.unit + 1
    BY <1>5, <1>9, <2>1
  <2> QED BY <2>2, <2>3, <2>4, Zenon DEF AtUnit
<1>13. \E k : AtUnit(off, Append(segs, s), k)'
  BY <1>12
<1>w. ShortIsWhole(nals, s, nal)
  BY <1>9 DEF ShortIsWhole, nal
<1>14. Sending(off, Append(segs, s))'
  BY <1>3, <1>5, <1>7, <1>8, <1>w, <1>10, <1>11, <1>13, SendsOne, Zenon
<1> QED
  BY <1>14

(* So does a call that emits a fragment, s being the segment it carries.   *)
Fragment(n, a, m, S) == [unit |-> n, from |-> IF S = 1 THEN 0 ELSE a, to |-> a + m]

LEMMA FragmentSends ==
  ASSUME NEW off, NEW segs, Laid(off), Sent(nals, payloads, segs),
         NEW n, NEW a, NEW m, NEW load, NEW nri, NEW type, NEW S, NEW E, NEW s,
         Emits(off, n, a, m, load, nri, type, S, E),
         nri * 32 + type = nals[n].nal[1],
         a >= 1, S = 1 => a = 1, E = 1 <=> a + m = NalLen(nals, n),
         s = Fragment(n, a, m, S), NextSegment(nals, segs, s),
         a + m < NalLen(nals, n) =>
           /\ m = Mtu - 2
           /\ (NalLen(nals, n) - (a + m) - 1) % (Mtu - 2) = (NalLen(nals, n) - Mtu) % (Mtu - 2)
  PROVE  Sending(off, Append(segs, s))'
<1> DEFINE c == CodeLen(nals, n)
           len == NalLen(nals, n)
           nal == nals[n].nal
<1>1. /\ n \in 1 .. Len(nals) /\ a \in Nat /\ m \in Nat /\ m >= 1 /\ a + m <= len
      /\ load \in Nat /\ load + 2 = DataAt(off, n, a) /\ pos <= load + 2
  BY DEF Emits
<1>2. payloads \in Seq(Seq(Byte))
  BY DEF Sent
<1>3. Emitted(n, a, m, load, nri * 32 + type, S, E)
  BY <1>2, EmitIs
<1>4. Emitted(n, a, m, load, nal[1], S, E)
  BY <1>3
<1>5. PICK payload : payload = payloads'[Len(payloads) + 1]
  OBVIOUS
<1>6. /\ payloads' = Append(payloads, payload) /\ payload \in Seq(Byte)
      /\ pos' = load + 2 + m
      /\ buf' \in [0 .. Len(picture) - 1 -> Byte]
      /\ \A i \in load + 2 .. Len(picture) - 1 : buf'[i] = buf[i]
      /\ Tx!Nri(buf'[load]) * 32 + Tx!Type(buf'[load + 1]) = nal[1]
      /\ picture' = picture /\ nals' = nals
  BY <1>4, <1>5 DEF Emitted
<1>7. Reads(nals, s, Read(payload))
  BY <1>1, <1>4, <1>5, EmittedReads DEF Fragment
<1>w. ShortIsWhole(nals, s, payload)
  <2>1. Read(payload).kind = "FU_A"
    BY <1>4, <1>5 DEF Emitted
  <2>2. Len(payload) < 2 => Read(payload).kind = "SHORT"
    BY DEF Read
  <2> QED BY <2>1, <2>2 DEF ShortIsWhole
<1> HIDE DEF c, len, nal
<1>8. /\ Len(nals) \in Nat /\ off[n] \in Nat /\ c \in {3, 4} /\ len \in Nat
      /\ off[n+1] = off[n] + c + len /\ off[n+1] <= Len(picture)
      /\ Len(picture) \in Nat /\ pos \in Nat /\ Mtu \in Nat /\ Mtu > 2
  <2>1. Len(nals) \in Nat /\ Mtu \in Nat /\ Mtu > 2 /\ pos \in Nat
    BY LaidTypes
  <2>2. n \in 1 .. Len(nals) + 1 /\ n < Len(nals) + 1 /\ Len(nals) + 1 \in 1 .. Len(nals) + 1
    BY <1>1, <2>1
  <2>3. off[n] \in Nat /\ Len(picture) = off[Len(nals) + 1] /\ Len(picture) \in Nat
    BY <2>2, LaidTypes DEF Tx!buf_len
  <2>4. c \in {3, 4} /\ len \in Nat
    BY <1>1, UnitTypes DEF Laid, c, len
  <2>5. off[n+1] = off[n] + c + len
    BY <1>1, Places DEF Laid, c, len
  <2>6. off[n] + c + len <= off[Len(nals) + 1]
    BY <1>1, <2>2, Places DEF Laid, c, len
  <2> QED BY <2>1, <2>3, <2>4, <2>5, <2>6
<1>9. pos' = off[n] + c + (a + m) /\ load + 2 = off[n] + c + a
  <2>1. load + 2 = off[n] + c + a
    BY <1>1 DEF DataAt, c
  <2>2. pos' = load + 2 + m
    BY <1>6
  <2>3. /\ off[n] \in Nat /\ c \in Nat /\ a \in Nat /\ m \in Nat /\ load \in Nat
    BY <1>1, <1>8
  <2>4. off[n] + c + a + m = off[n] + c + (a + m)
    BY <2>3
  <2> QED BY <2>1, <2>2, <2>4
<1>10. Laid(off)'
  <2>1. pos' \in 0 .. Len(picture) /\ pos <= pos' /\ load + 2 <= pos'
    <3>1. pos' = load + 2 + m
      BY <1>6
    <3>2. off[n] + c + (a + m) <= off[n] + c + len
      <4>1. a \in Nat /\ m \in Nat /\ a + m <= len
        BY <1>1
      <4>2. off[n] \in Nat /\ c \in Nat /\ len \in Nat
        BY <1>8
      <4> QED BY <4>1, <4>2
    <3>3. pos' <= Len(picture) /\ Len(picture) \in Nat
      <4>1. off[n] + c + len <= Len(picture) /\ off[n] + c + len \in Nat
        BY <1>8
      <4>2. off[n] + c + (a + m) \in Nat
        <5>1. a \in Nat /\ m \in Nat
          BY <1>1
        <5>2. off[n] \in Nat /\ c \in Nat
          BY <1>8
        <5> QED BY <5>1, <5>2
      <4> QED BY <1>8, <1>9, <3>2, <4>1, <4>2
    <3>4. load + 2 <= pos' /\ pos <= pos' /\ pos' \in Nat
      <4>1. pos \in Nat /\ load \in Nat /\ m \in Nat /\ pos <= load + 2
        BY <1>1, <1>8
      <4> QED BY <3>1, <4>1
    <3> QED BY <3>3, <3>4
  <2>2. \A i \in pos' .. Len(picture) - 1 : i \in load + 2 .. Len(picture) - 1
    BY <1>1, <1>6, <1>8
  <2>3. \A i \in pos' .. Len(picture) - 1 : buf'[i] = buf[i]
    BY <1>6, <2>2
  <2> QED BY <1>6, <2>1, <2>3, LaidKept
<1>11. s.unit = n /\ s.to = a + m
  BY DEF Fragment
<1>12. Append(segs, s) # <<>> /\ Append(segs, s)[Len(Append(segs, s))] = s
  BY LastOf
<1>13. CASE a + m = len
  <2>1. n + 1 \in 1 .. Len(nals) + 1 /\ pos' = off[n+1]
    <3>1. n \in Nat /\ n <= Len(nals)
      BY <1>1, <1>8
    <3>2. off[n] + c + (a + m) = off[n] + c + len
      BY <1>13
    <3> QED BY <1>8, <1>9, <3>1, <3>2
  <2>2. Whole(nals, s)
    BY <1>11, <1>13 DEF Whole, len
  <2>3. n + 1 \in 1 .. Len(nals') + 1 /\ Whole(nals', s) /\ n + 1 = s.unit + 1
    BY <1>6, <1>11, <2>1, <2>2
  <2>4. AtUnit(off, Append(segs, s), n + 1)'
    BY <1>12, <2>1, <2>3, Zenon DEF AtUnit
  <2>5. \E k : AtUnit(off, Append(segs, s), k)'
    BY <2>4
  <2> QED BY <1>6, <1>7, <1>w, <1>10, <2>5, SendsOne, Zenon
<1>14. CASE a + m < len
  <2>1. PICK t : t = a + m
    OBVIOUS
  <2>2. /\ m = Mtu - 2
        /\ (len - t - 1) % (Mtu - 2) = (len - Mtu) % (Mtu - 2)
    BY <1>14, <2>1 DEF len
  <2>3. t \in Nat /\ t >= Mtu - 1 /\ t < len
    BY <1>1, <1>8, <1>14, <2>1, <2>2
  <2>4. pos' - Mtu = load /\ pos' - Mtu + 1 = load + 1
    BY <1>1, <1>6, <1>8, <2>2
  <2>5. Tx!Nri(buf'[pos' - Mtu]) * 32 + Tx!Type(buf'[pos' - Mtu + 1]) = nals'[n].nal[1]
    BY <1>6, <2>4 DEF nal
  <2>6. pos' = DataAt(off, n, t)'
    BY <1>6, <1>9, <2>1 DEF DataAt, c
  <2>7. n \in 1 .. Len(nals') /\ NalLen(nals', n) = len
    BY <1>1, <1>6 DEF len
  <2>8. t < NalLen(nals', n)
        /\ (NalLen(nals', n) - t - 1) % (Mtu - 2) = (NalLen(nals', n) - Mtu) % (Mtu - 2)
    BY <2>2, <2>3, <2>7
  <2>9. Within(off, Append(segs, s), n, t)'
    BY <1>11, <1>12, <2>1, <2>3, <2>5, <2>6, <2>7, <2>8, Zenon DEF Within
  <2>10. \E k, u : Within(off, Append(segs, s), k, u)'
    BY <2>9
  <2> QED BY <1>6, <1>7, <1>w, <1>10, <2>10, SendsOne, Zenon
<1>15. a + m = len \/ a + m < len
  BY <1>1, <1>8
<1> QED
  BY <1>13, <1>14, <1>15

(* The first fragment carries the beginning of the NAL unit.               *)
LEMMA FirstFragmentSends ==
  ASSUME NEW off, NEW segs, Laid(off), Sent(nals, payloads, segs), NoneStraddled,
         NEW n \in 1 .. Len(nals), AtUnit(off, segs, n), Tx!FirstFragment
  PROVE  \E s : Sending(off, Append(segs, s))'
<1> DEFINE c == CodeLen(nals, n)
           len == NalLen(nals, n)
           nal == nals[n].nal
           start == Tx!nal_start
<1>1. pos = off[n] /\ off[n] \in Nat /\ Mtu \in Nat /\ Mtu > 2
      /\ IF segs = <<>> THEN n = 1
         ELSE Whole(nals, segs[Len(segs)]) /\ n = segs[Len(segs)].unit + 1
  <2>1. n \in 1 .. Len(nals) + 1
    BY LaidTypes
  <2> QED BY <2>1, LaidTypes DEF AtUnit
<1>2. start = off[n] + c /\ len >= Mtu /\ Tx!nal_end \in Nat /\ Tx!nal_end >= start + Mtu + 1
  <2>1. Tx!fragmenting
    BY DEF Tx!FirstFragment
  <2> QED BY <1>1, <2>1, CallAtUnit
<1>3. nal \in Seq(Byte) /\ Len(nal) = len /\ len \in Nat /\ len >= 1 /\ c \in Nat /\ c >= 3
  BY UnitTypes DEF Laid, NalLen
<1>4. buf[start] = nal[1]
  <2>1. DataAt(off, n, 0) = off[n] + c
    BY <1>1, <1>3 DEF DataAt
  <2>2. pos <= DataAt(off, n, 0) /\ 0 + 1 <= len /\ 0 \in Nat /\ 1 \in Nat
    BY <1>1, <1>3, <2>1
  <2>3. SameBytes(buf, DataAt(off, n, 0), nal, 0, 1)
    BY <2>2, DataPlace
  <2>4. DataAt(off, n, 0) + 1 - 1 = start /\ 0 + 1 = 1 /\ 1 \in 1 .. 1
    BY <1>1, <1>2, <1>3, <2>1
  <2> QED BY <2>3, <2>4 DEF SameBytes
<1>5. PICK nri, type : nri = Tx!Nri(buf[start]) /\ type = Tx!Type(buf[start])
  OBVIOUS
<1>6. nri \in 0 .. 3 /\ type \in 1 .. 23 /\ nri * 32 + type = nal[1]
  <2>1. /\ nal[1] \in Byte /\ Tx!Nri(nal[1]) * 32 + Tx!Type(nal[1]) = nal[1]
        /\ (nal[1] \in Byte /\ nal[1] \in Byte
            /\ Tx!Nri(nal[1]) * 32 + Tx!Type(nal[1]) = nal[1]
            => Tx!Nri(nal[1]) \in 0 .. 3 /\ Tx!Type(nal[1]) \in 1 .. 23)
    BY FirstOctet DEF Laid
  <2> QED BY <1>4, <1>5, <2>1
<1>7. PICK load : load = off[n] + c - 1
  OBVIOUS
<1>8. PICK m : m = Mtu - 2
  OBVIOUS
<1> HIDE DEF c, len, nal, start
<1>9. load \in Nat /\ load + 2 = start + 1 /\ m \in Nat /\ m >= 1 /\ 1 + m <= len /\ 1 + m < len
  <2>1. load \in Nat /\ load + 2 = start + 1
    <3>1. start = off[n] + c /\ load = off[n] + c - 1
      BY <1>2, <1>7
    <3>2. off[n] \in Nat /\ c \in Nat /\ c >= 3
      BY <1>1, <1>3
    <3> QED BY <3>1, <3>2, SMTT(30)
  <2>2. m \in Nat /\ m >= 1 /\ 1 + m <= len /\ 1 + m < len
    BY <1>1, <1>2, <1>3, <1>8
  <2> QED BY <2>1, <2>2
<1>10. Tx!WholeLen(load + 2) > Mtu /\ ~ (Tx!WholeLen(load + 2) <= Mtu)
  <2>1. Tx!WholeLen(load + 2) = Tx!nal_end - (load + 2) + 2
    BY DEF Tx!WholeLen, Tx!HEADER_SIZE_FU_A
  <2>2. start \in Nat
    BY <1>1, <1>2, <1>3
  <2> QED BY <1>1, <1>2, <1>9, <2>1, <2>2, SMTT(30)
<1>11. Tx!fu_payload_len(load + 2) = m + 2
  BY <1>1, <1>8, <1>10 DEF Tx!fu_payload_len
<1>12. Tx!EmitFragment(load + 2, nri, type, 1)
  <2>1. Tx!EmitFragment(start + 1, nri, type, 1)
    BY <1>5 DEF Tx!FirstFragment, start
  <2> QED BY <1>9, <2>1
<1>13. load + 2 = DataAt(off, n, 1) /\ pos <= load + 2
  BY <1>1, <1>3, <1>7 DEF DataAt, c
<1>14. Emits(off, n, 1, m, load, nri, type, 1, 0)
  <2>1. 1 \in Nat /\ 1 \in 0 .. 1 /\ 0 \in 0 .. 1 /\ 0 # 1
    OBVIOUS
  <2>2. 0 = 1 <=> Tx!WholeLen(load + 2) <= Mtu
    BY <1>10
  <2> QED BY <1>6, <1>9, <1>11, <1>12, <1>13, <2>1, <2>2, Zenon DEF Emits, len
<1>15. PICK s : s = Fragment(n, 1, m, 1)
  OBVIOUS
<1>16. NextSegment(nals, segs, s)
  <2>1. s.from = 0 /\ s.unit = n
    BY <1>15 DEF Fragment
  <2> QED BY <1>1, <2>1 DEF NextSegment, Follows
<1>17. /\ m = Mtu - 2
       /\ (len - (1 + m) - 1) % (Mtu - 2) = (len - Mtu) % (Mtu - 2)
  <2>1. len - (1 + m) - 1 = len - Mtu
    BY <1>1, <1>3, <1>8
  <2> QED BY <1>8, <2>1
<1>18. 1 >= 1 /\ (1 = 1 => 1 = 1) /\ (0 = 1 <=> 1 + m = NalLen(nals, n))
  <2>1. 1 + m # len
    BY <1>3, <1>9
  <2> QED BY <2>1 DEF len
<1>19. Sending(off, Append(segs, s))'
  BY <1>6, <1>14, <1>15, <1>16, <1>17, <1>18, FragmentSends, Zenon DEF len, nal
<1> QED
  BY <1>19

(* Every other fragment carries the segment behind the one before it.      *)
LEMMA NextFragmentSends ==
  ASSUME NEW off, NEW segs, Laid(off), Sent(nals, payloads, segs), NoneStraddled,
         NEW n, NEW t, Within(off, segs, n, t), Tx!NextFragment
  PROVE  \E s : Sending(off, Append(segs, s))'
<1> DEFINE c == CodeLen(nals, n)
           len == NalLen(nals, n)
           nal == nals[n].nal
           rest == len - t
<1>1. /\ n \in 1 .. Len(nals) /\ t \in Nat /\ t >= Mtu - 1 /\ t < len
      /\ segs # <<>> /\ segs[Len(segs)].unit = n /\ segs[Len(segs)].to = t
      /\ pos = DataAt(off, n, t)
      /\ (len - t - 1) % (Mtu - 2) = (len - Mtu) % (Mtu - 2)
      /\ Tx!Nri(buf[pos - Mtu]) * 32 + Tx!Type(buf[pos - Mtu + 1]) = nal[1]
  BY DEF Within
<1>2. /\ Len(nals) \in Nat /\ Mtu \in Nat /\ Mtu > 2 /\ pos \in Nat
      /\ off[n] \in Nat /\ off[n+1] \in Nat /\ Len(picture) = off[Len(nals) + 1]
      /\ Len(picture) \in Nat /\ pos <= Len(picture)
  <2>1. Len(nals) \in Nat /\ Mtu \in Nat /\ Mtu > 2 /\ pos \in Nat /\ pos <= Len(picture)
    BY LaidTypes DEF Tx!buf_len
  <2>2. n \in 1 .. Len(nals) + 1 /\ n + 1 \in 1 .. Len(nals) + 1 /\ Len(nals) + 1 \in 1 .. Len(nals) + 1
    BY <1>1, <2>1
  <2> QED BY <2>1, <2>2, LaidTypes DEF Tx!buf_len
<1>3. /\ nal \in Seq(Byte) /\ Len(nal) = len /\ len \in Nat /\ len >= 1 /\ c \in Nat /\ c >= 3
      /\ off[n+1] = off[n] + c + len
  <2>1. nal \in Seq(Byte) /\ Len(nal) = len /\ len \in Nat /\ len >= 1 /\ c \in {3, 4}
    BY <1>1, UnitTypes DEF Laid, NalLen
  <2>2. off[n+1] = off[n] + c + len
    BY <1>1, Places DEF Laid
  <2> QED BY <2>1, <2>2
<1>4. pos = off[n] + c + t
  BY <1>1 DEF DataAt
<1>t. pos >= Mtu
  <2>1. t \in Nat /\ t >= Mtu - 1 /\ Mtu \in Nat /\ Mtu > 2
    BY <1>1, <1>2
  <2>2. off[n] \in Nat /\ c \in Nat /\ c >= 3
    BY <1>2, <1>3
  <2> QED BY <1>4, <2>1, <2>2
<1>5. /\ Tx!nal_start = pos /\ Tx!nal_end \in Nat
      /\ Tx!previous = pos - Mtu /\ Tx!previous_found
      /\ \/ rest <= Mtu - 2 /\ Tx!nal_end = off[n+1]
         \/ rest > Mtu - 2 /\ Tx!nal_end > pos + Mtu - 2
  BY <1>1, <1>4, CallWithin
<1>6. PICK nri, type : nri = Tx!Nri(buf[pos - Mtu]) /\ type = Tx!Type(buf[pos - Mtu + 1])
  OBVIOUS
<1>7. nri \in 0 .. 3 /\ type \in 1 .. 23 /\ nri * 32 + type = nal[1]
  <2>1. buf \in [0 .. Len(picture) - 1 -> Byte]
    BY DEF Laid
  <2>2. pos - Mtu \in 0 .. Len(picture) - 1 /\ pos - Mtu + 1 \in 0 .. Len(picture) - 1
    <3> QED BY <1>2, <1>t
  <2>3. buf[pos - Mtu] \in Byte /\ buf[pos - Mtu + 1] \in Byte
    BY <2>1, <2>2
  <2>4. \A i, h : i \in Byte /\ h \in Byte /\ Tx!Nri(i) * 32 + Tx!Type(h) = nal[1]
                  => Tx!Nri(i) \in 0 .. 3 /\ Tx!Type(h) \in 1 .. 23
    BY <1>1, FirstOctet DEF Laid
  <2> QED BY <1>1, <1>6, <2>3, <2>4, Zenon
<1>8. PICK load : load = pos - 2
  OBVIOUS
<1>9. PICK m, E : /\ m = IF rest <= Mtu - 2 THEN rest ELSE Mtu - 2
                  /\ E = IF rest <= Mtu - 2 THEN 1 ELSE 0
  OBVIOUS
<1> HIDE DEF c, len, nal, rest
<1>10. rest \in Nat /\ rest >= 1 /\ rest = len - t
  BY <1>1, <1>3 DEF rest
<1>11. /\ m \in Nat /\ m >= 1 /\ t + m <= len
       /\ E \in 0 .. 1 /\ (E = 1 <=> t + m = len)
  <2>1. CASE rest <= Mtu - 2
    BY <1>1, <1>3, <1>9, <1>10, <2>1
  <2>2. CASE ~ (rest <= Mtu - 2)
    <3>1. m = Mtu - 2 /\ E = 0 /\ rest > m
      BY <1>2, <1>9, <1>10, <2>2
    <3> QED BY <1>1, <1>2, <1>3, <1>10, <3>1
  <2> QED BY <2>1, <2>2
<1>12. load \in Nat /\ load + 2 = pos
  <2> QED BY <1>2, <1>8, <1>t
<1>13. /\ Tx!fu_payload_len(load + 2) = m + 2
       /\ E = 1 <=> Tx!WholeLen(load + 2) <= Mtu
  <2>1. Tx!WholeLen(load + 2) = Tx!nal_end - pos + 2
    BY <1>12 DEF Tx!WholeLen, Tx!HEADER_SIZE_FU_A
  <2>2. CASE rest <= Mtu - 2
    <3>1. Tx!nal_end = off[n+1]
      BY <1>2, <1>5, <1>10, <2>2
    <3>2. Tx!WholeLen(load + 2) = rest + 2
      <4>1. off[n] \in Nat /\ c \in Nat /\ len \in Nat /\ t \in Nat
        BY <1>1, <1>2, <1>3
      <4>2. Tx!nal_end = off[n] + c + len /\ pos = off[n] + c + t
        BY <1>3, <1>4, <3>1
      <4>3. Tx!nal_end - pos = rest
        BY <1>10, <4>1, <4>2
      <4> QED BY <2>1, <4>3
    <3>3. Tx!WholeLen(load + 2) <= Mtu /\ ~ (Tx!WholeLen(load + 2) > Mtu)
      BY <1>2, <1>10, <2>2, <3>2
    <3> QED BY <1>9, <2>2, <3>2, <3>3 DEF Tx!fu_payload_len
  <2>3. CASE ~ (rest <= Mtu - 2)
    <3>1. Tx!nal_end > pos + Mtu - 2
      BY <1>5, <2>3
    <3>2. Tx!WholeLen(load + 2) > Mtu /\ ~ (Tx!WholeLen(load + 2) <= Mtu)
      BY <1>2, <1>5, <2>1, <3>1
    <3>3. m = Mtu - 2 /\ E = 0 /\ m + 2 = Mtu
      BY <1>2, <1>9, <2>3
    <3> QED BY <3>2, <3>3 DEF Tx!fu_payload_len
  <2> QED BY <2>2, <2>3
<1>14. Tx!EmitFragment(load + 2, nri, type, 0)
  BY <1>5, <1>6, <1>12 DEF Tx!NextFragment
<1>15. Emits(off, n, t, m, load, nri, type, 0, E)
  <2>1. 0 \in 0 .. 1 /\ load + 2 = DataAt(off, n, t)
    BY <1>1, <1>12
  <2>2. pos <= load + 2
    BY <1>2, <1>12
  <2> QED BY <1>1, <1>7, <1>11, <1>12, <1>13, <1>14, <2>1, <2>2, Zenon DEF Emits, len
<1>16. PICK s : s = Fragment(n, t, m, 0)
  OBVIOUS
<1>17. NextSegment(nals, segs, s)
  <2>1. s.from = t /\ s.unit = n
    BY <1>16 DEF Fragment
  <2>2. ~ Whole(nals, segs[Len(segs)])
    <3>1. t # len
      BY <1>1, <1>3
    <3> QED BY <1>1, <3>1 DEF Whole, len
  <2> QED BY <1>1, <2>1, <2>2 DEF NextSegment, Follows
<1>18. t + m < len =>
         /\ m = Mtu - 2
         /\ (len - (t + m) - 1) % (Mtu - 2) = (len - Mtu) % (Mtu - 2)
  <2> HAVE t + m < len
  <2>1. m = Mtu - 2 /\ rest > Mtu - 2
    <3>1. E # 1
      BY <1>1, <1>3, <1>11
    <3> QED BY <1>2, <1>9, <1>10, <3>1
  <2>2. PICK d, x : d = Mtu - 2 /\ x = len - t - 1
    OBVIOUS
  <2>3. d \in Nat /\ d > 0 /\ x \in Nat /\ x >= d /\ x - d = len - (t + m) - 1
    BY <1>1, <1>2, <1>3, <1>10, <2>1, <2>2
  <2>4. (x - d) % d = x % d
    BY <2>3, ModMinus
  <2> QED BY <1>1, <2>1, <2>2, <2>3, <2>4
<1>19. /\ t >= 1 /\ (0 = 1 => t = 1)
       /\ (E = 1 <=> t + m = NalLen(nals, n))
  <2>1. t >= 1
    BY <1>1, <1>2
  <2> QED BY <1>11, <2>1 DEF len
<1>20. Sending(off, Append(segs, s))'
  BY <1>7, <1>15, <1>16, <1>17, <1>18, <1>19, FragmentSends, Zenon DEF len, nal
<1> QED
  BY <1>20

(* Every call sends one segment more: none of them fails.                  *)
LEMMA PacketizeSends ==
  ASSUME NEW off, NEW segs, Sending(off, segs), NoneStraddled, Tx!Packetize
  PROVE  \E s : Sending(off, Append(segs, s))'
<1>1. Laid(off) /\ Sent(nals, payloads, segs)
  BY DEF Sending
<1>2. pos < Tx!buf_len
  BY DEF Tx!Packetize, Tx!TooSmall, Tx!Cancel, Tx!FirstFragment, Tx!NextFragment,
         Tx!SingleNal, Tx!NullOctet, Tx!Looping
<1>3. ASSUME NEW n, AtUnit(off, segs, n)
      PROVE  \E s : Sending(off, Append(segs, s))'
  <2>1. n \in 1 .. Len(nals)
    <3>1. Len(nals) \in Nat /\ Tx!buf_len = off[Len(nals) + 1] /\ pos = off[n] /\ n \in 1 .. Len(nals) + 1
      BY <1>1, <1>3, LaidTypes DEF AtUnit
    <3>2. n # Len(nals) + 1
      <4>1. n = Len(nals) + 1 => pos = Tx!buf_len
        BY <3>1
      <4>2. pos \in Nat
        BY <1>1, LaidTypes
      <4> QED BY <1>2, <4>1, <4>2
    <3> QED BY <3>1, <3>2
  <2>2. pos = off[n]
    BY <1>3 DEF AtUnit
  <2>3. Tx!has_octet /\ ~ Tx!too_small
    BY <1>1, <2>1, <2>2, CallAtUnit
  <2>4. Tx!FirstFragment \/ Tx!SingleNal
    BY <2>3 DEF Tx!Packetize, Tx!TooSmall, Tx!Cancel, Tx!NextFragment, Tx!NullOctet
  <2> QED BY <1>1, <1>3, <2>1, <2>4, FirstFragmentSends, SingleNalSends
<1>4. ASSUME NEW n, NEW t, Within(off, segs, n, t)
      PROVE  \E s : Sending(off, Append(segs, s))'
  <2>1. /\ n \in 1 .. Len(nals) /\ t \in Nat /\ t >= Mtu - 1 /\ t < NalLen(nals, n)
        /\ pos = off[n] + CodeLen(nals, n) + t
        /\ (NalLen(nals, n) - t - 1) % (Mtu - 2) = (NalLen(nals, n) - Mtu) % (Mtu - 2)
    BY <1>4 DEF Within, DataAt
  <2>2. ~ Tx!has_octet /\ ~ Tx!too_small /\ Tx!fragmenting /\ Tx!previous_found
    BY <1>1, <2>1, CallWithin
  <2>3. Tx!NextFragment
    BY <2>2 DEF Tx!Packetize, Tx!TooSmall, Tx!Cancel, Tx!FirstFragment, Tx!SingleNal, Tx!NullOctet
  <2> QED BY <1>1, <1>4, <2>3, NextFragmentSends
<1>5. (\E n : AtUnit(off, segs, n)) \/ (\E n, t : Within(off, segs, n, t))
  BY DEF Sending
<1> QED
  BY <1>3, <1>4, <1>5

(* When everything is sent, the last segment ends the picture.             *)
LEMMA SentToTheEnd ==
  ASSUME NEW off, NEW segs, Sending(off, segs), pos = Len(picture)
  PROVE  IF segs = <<>> THEN Len(nals) = 0
         ELSE segs[Len(segs)].unit = Len(nals) /\ Whole(nals, segs[Len(segs)])
<1>1. Laid(off) /\ Sent(nals, payloads, segs)
  BY DEF Sending
<1>2. /\ Len(nals) \in Nat /\ \A k \in 1 .. Len(nals) + 1 : off[k] \in Nat
      /\ pos = off[Len(nals) + 1]
  BY <1>1, LaidTypes DEF Tx!buf_len
<1>3. ASSUME NEW n \in 1 .. Len(nals)
      PROVE  /\ off[n] + CodeLen(nals, n) + NalLen(nals, n) <= pos
             /\ off[n] \in Nat /\ CodeLen(nals, n) \in {3, 4} /\ NalLen(nals, n) \in Nat
             /\ NalLen(nals, n) >= 1
  <2>1. n \in 1 .. Len(nals) + 1 /\ Len(nals) + 1 \in 1 .. Len(nals) + 1 /\ n < Len(nals) + 1
    BY <1>2
  <2>2. off[n] + CodeLen(nals, n) + NalLen(nals, n) <= off[Len(nals) + 1]
    BY <1>1, <2>1, Places DEF Laid
  <2>3. CodeLen(nals, n) \in {3, 4} /\ NalLen(nals, n) \in Nat /\ NalLen(nals, n) >= 1
    BY <1>1, UnitTypes DEF Laid
  <2> QED BY <1>2, <2>1, <2>2, <2>3
<1>4. ASSUME NEW n, NEW t, Within(off, segs, n, t) PROVE FALSE
  <2>1. n \in 1 .. Len(nals) /\ t \in Nat /\ t < NalLen(nals, n) /\ pos = off[n] + CodeLen(nals, n) + t
    BY <1>4 DEF Within, DataAt
  <2>2. PICK o, c, len : o = off[n] /\ c = CodeLen(nals, n) /\ len = NalLen(nals, n)
    OBVIOUS
  <2>3. o + c + len <= pos /\ o \in Nat /\ c \in {3, 4} /\ len \in Nat
    BY <1>3, <2>1, <2>2
  <2> QED BY <2>1, <2>2, <2>3
<1>5. PICK n : AtUnit(off, segs, n)
  BY <1>4 DEF Sending
<1>6. n = Len(nals) + 1
  <2>1. n \in 1 .. Len(nals) + 1 /\ pos = off[n]
    BY <1>5 DEF AtUnit
  <2> SUFFICES ASSUME n \in 1 .. Len(nals) PROVE FALSE
    BY <1>2, <2>1
  <2>2. PICK o, c, len : o = off[n] /\ c = CodeLen(nals, n) /\ len = NalLen(nals, n)
    OBVIOUS
  <2>3. o + c + len <= pos /\ o \in Nat /\ c \in {3, 4} /\ len \in Nat
    BY <1>3, <2>2
  <2> QED BY <2>1, <2>2, <2>3
<1>7. CASE segs = <<>>
  <2>1. n = 1
    BY <1>5, <1>7 DEF AtUnit
  <2> QED BY <1>2, <1>6, <1>7, <2>1
<1>8. CASE segs # <<>>
  <2>1. Whole(nals, segs[Len(segs)]) /\ n = segs[Len(segs)].unit + 1
    BY <1>5, <1>8 DEF AtUnit
  <2>2. Len(segs) \in 1 .. Len(segs)
    <3>1. segs \in Seq(Segment(nals))
      BY <1>1 DEF Sent
    <3> QED BY <1>8, <3>1
  <2>3. segs[Len(segs)].unit \in 1 .. Len(nals)
    BY <1>1, <2>2, UnitOfNext
  <2> QED BY <1>2, <1>6, <1>8, <2>1, <2>3
<1> QED
  BY <1>7, <1>8

(* Then every NAL unit is.                                                 *)
LEMMA AllSent ==
  ASSUME NEW off, NEW segs, Sending(off, segs), pos = Len(picture), NEW n \in 1 .. Len(nals)
  PROVE  \E k \in 1 .. Len(segs) : segs[k].unit = n /\ Whole(nals, segs[k])
<1>1. Laid(off) /\ Sent(nals, payloads, segs)
  BY DEF Sending
<1>2. PICK N : N = Len(segs)
  OBVIOUS
<1>3. Len(nals) \in Nat /\ N \in Nat
  BY <1>1, <1>2, LaidTypes DEF Sent
<1>4. segs # <<>>
  BY <1>3, SentToTheEnd
<1>5. N \in 1 .. N
  <2>1. segs \in Seq(Segment(nals))
    BY <1>1 DEF Sent
  <2> QED BY <1>2, <1>4, <2>1
<1>6. segs[N].unit = Len(nals) /\ Whole(nals, segs[N])
  BY <1>2, <1>4, SentToTheEnd
<1>7. CASE n = Len(nals)
  BY <1>2, <1>5, <1>6, <1>7
<1>8. CASE n # Len(nals)
  <2>1. n \in 1 .. segs[N].unit - 1
    BY <1>3, <1>6, <1>8
  <2>2. PICK j \in 1 .. N : segs[j].unit = n /\ Whole(nals, segs[j])
    BY <1>1, <1>2, <1>5, <2>1, WholeInFront
  <2> QED BY <1>2, <2>2
<1> QED
  BY <1>7, <1>8

(* The sender at the beginning of a picture.                               *)
Begins ==
  /\ ProperPicture(nals) /\ picture = Tx!Layout(nals)
  /\ buf = Tx!BufferOf(picture) /\ pos = 0 /\ payloads = <<>>

(* The sender's part of the invariant holds at the beginning of a picture. *)
LEMMA BeginsSending == Begins => \E off : Sending(off, <<>>)
<1> SUFFICES ASSUME Begins PROVE \E off : Sending(off, <<>>)
  OBVIOUS
<1>1. /\ ProperPicture(nals) /\ picture = Tx!Layout(nals)
      /\ buf = Tx!BufferOf(picture) /\ pos = 0 /\ payloads = <<>>
  BY DEF Begins
<1>2. PICK off : Geometry(nals, off)
  BY <1>1, GeometryExists DEF ProperPicture
<1>3. picture \in Seq(Byte) /\ Len(picture) \in Nat /\ off[1] = 0 /\ Len(nals) \in Nat
  BY <1>1, <1>2 DEF Geometry, ProperPicture
<1>4. buf = [i \in 0 .. Len(picture) - 1 |-> picture[i + 1]]
  BY <1>1 DEF Tx!BufferOf
<1>5. buf \in [0 .. Len(picture) - 1 -> Byte] /\ Agrees(buf, nals, 0)
  <2>1. \A i \in 0 .. Len(picture) - 1 : i + 1 \in 1 .. Len(picture)
    BY <1>3
  <2>2. \A i \in 0 .. Len(picture) - 1 : picture[i + 1] \in Byte
    BY <1>3, <2>1
  <2> QED BY <1>1, <1>4, <2>2 DEF Agrees
<1>6. Laid(off)
  BY <1>1, <1>2, <1>3, <1>5 DEF Laid
<1>7. Sent(nals, payloads, <<>>)
  <2>1. <<>> \in Seq(Seq(Byte)) /\ <<>> \in Seq(Segment(nals)) /\ Len(<<>>) = 0
    OBVIOUS
  <2>2. \A k \in 1 .. 0 : FALSE
    OBVIOUS
  <2>3. \A k \in 1 .. 0 - 1 : FALSE
    OBVIOUS
  <2> QED BY <1>1, <2>1, <2>2, <2>3 DEF Sent, Ordered
<1>8. AtUnit(off, <<>>, 1)
  <2>1. 1 \in 1 .. Len(nals) + 1
    BY <1>3
  <2> QED BY <1>1, <1>3, <2>1 DEF AtUnit
<1> QED
  BY <1>6, <1>7, <1>8 DEF Sending

(* h264_test puts the sender there.                                        *)
LEMMA PictureBegins ==
  ASSUME NEW pic \in Pictures, Tx!h264_test(pic) PROVE Begins'
<1>1. pic \in Seq(Unit) /\ \A k \in DOMAIN pic : ProperUnit(pic[k])
  BY PicturesAssumption DEF Unit, Byte
<1>2. ProperPicture(pic)
  BY <1>1 DEF ProperPicture
<1> QED
  BY <1>2 DEF Begins, Tx!h264_test

(* So does Init, with a picture of no NAL units.                           *)
LEMMA InitBegins == Tx!Init => Begins
<1> SUFFICES ASSUME Tx!Init PROVE Begins
  OBVIOUS
<1>1. /\ picture = <<>> /\ nals = <<>> /\ buf = Tx!BufferOf(<<>>) /\ pos = 0 /\ payloads = <<>>
  BY DEF Tx!Init
<1>2. ProperPicture(<<>>)
  BY DEF ProperPicture
<1>3. PICK off : Geometry(<<>>, off)
  <2>1. <<>> \in Seq(Unit)
    OBVIOUS
  <2> QED BY <2>1, GeometryExists
<1>4. Tx!Layout(<<>>) \in Seq(Byte) /\ Len(Tx!Layout(<<>>)) = 0
  <2>1. Len(<<>>) + 1 = 1
    OBVIOUS
  <2> QED BY <1>3, <2>1 DEF Geometry
<1>5. Tx!Layout(<<>>) = <<>>
  BY <1>4
<1> QED
  BY <1>1, <1>2, <1>5 DEF Begins
-----------------------------------------------------------------------------
Chunk == [start : BOOLEAN, data : Seq(Byte)]

(* units with the data of a piece at the end of its last element.          *)
Extended(joined, units, data) ==
  /\ Len(joined) = Len(units)
  /\ \A i \in 1 .. Len(units) - 1 : joined[i] = units[i]
  /\ joined[Len(units)] = units[Len(units)] \o data

Added(joined, units, data) ==
  /\ Len(joined) = Len(units) + 1
  /\ \A i \in 1 .. Len(units) : joined[i] = units[i]
  /\ joined[Len(units) + 1] = data

(* What Join does to the units.                                            *)
LEMMA JoinIs ==
  ASSUME NEW units \in Seq(Seq(Byte)), NEW p \in Chunk
  PROVE  /\ Join(units, p) \in Seq(Seq(Byte))
         /\ p.start \/ units = <<>> => Added(Join(units, p), units, p.data)
         /\ ~ (p.start \/ units = <<>>) => Extended(Join(units, p), units, p.data)
<1> DEFINE n == Len(units)
           J == Join(units, p)
<1>1. n \in Nat /\ p.start \in BOOLEAN /\ p.data \in Seq(Byte)
  BY DEF Chunk
<1>2. CASE p.start \/ units = <<>>
  <2>1. J = Append(units, p.data)
    BY <1>2 DEF Join
  <2>2. J \in Seq(Seq(Byte)) /\ Len(J) = n + 1 /\ J[n + 1] = p.data
        /\ \A i \in 1 .. n : J[i] = units[i]
    BY <1>1, <2>1
  <2>3. Added(J, units, p.data)
    BY <2>2, Zenon DEF Added
  <2> QED BY <1>2, <2>2, <2>3
<1>3. CASE ~ (p.start \/ units = <<>>)
  <2> DEFINE front == SubSeq(units, 1, n - 1)
             last == units[n] \o p.data
  <2>1. J = front \o <<last>>
    BY <1>3 DEF Join, Front, Last
  <2>2. n >= 1 /\ n \in 1 .. n /\ n - 1 \in Nat
    <3>1. n # 0
      BY <1>3
    <3> QED BY <1>1, <3>1
  <2>3. units[n] \in Seq(Byte)
    BY <2>2
  <2>4. last \in Seq(Byte)
    BY <1>1, <2>3
  <2>5. /\ front = [i \in 1 .. n - 1 |-> units[0 + i]] /\ front \in Seq(Seq(Byte))
        /\ Len(front) = n - 1
    <3>1. 0 \in Nat /\ 0 + (n - 1) <= n /\ 0 + 1 = 1 /\ 0 + (n - 1) = n - 1
      BY <2>2
    <3> QED BY <2>2, <3>1, SubSeqIs
  <2>6. \A i \in 1 .. n - 1 : front[i] = units[i]
    <3> TAKE i \in 1 .. n - 1
    <3>1. front[i] = units[0 + i] /\ 0 + i = i
      BY <2>2, <2>5
    <3> QED BY <3>1
  <2> HIDE DEF front, last
  <2>7. J \in Seq(Seq(Byte)) /\ Both(J, front, <<last>>)
    <3>1. <<last>> \in Seq(Seq(Byte))
      BY <2>4
    <3> QED BY <2>1, <2>5, <3>1, Concat
  <2>8. /\ J \in Seq(Seq(Byte)) /\ Len(J) = n /\ J[n] = last
        /\ \A i \in 1 .. n - 1 : J[i] = front[i]
    <3>1. Len(<<last>>) = 1 /\ <<last>>[1] = last /\ 1 \in 1 .. 1 /\ (n - 1) + 1 = n
      BY <1>1
    <3>2. Len(J) = n
      BY <2>5, <2>7, <3>1 DEF Both
    <3>3. J[n] = last
      <4>1. J[Len(front) + 1] = <<last>>[1]
        BY <2>7, <3>1, Zenon DEF Both
      <4> QED BY <2>5, <3>1, <4>1
    <3>4. \A i \in 1 .. n - 1 : J[i] = front[i]
      BY <2>5, <2>7, Zenon DEF Both
    <3> QED BY <2>7, <3>2, <3>3, <3>4
  <2>9. \A i \in 1 .. n - 1 : J[i] = units[i]
    BY <2>6, <2>8
  <2>10. Extended(J, units, p.data)
    BY <2>8, <2>9, Zenon DEF Extended, last
  <2> QED BY <1>3, <2>8, <2>10
<1> QED
  BY <1>2, <1>3

(* joins[k] is what the first k pieces join to.                            *)
JoinedUp(joins, pieces, n) ==
  /\ joins[0] = <<>>
  /\ \A k \in 0 .. n - 1 : joins[k+1] = Join(joins[k], pieces[k+1])

Joins(joins, pieces, n) ==
  joins \in [0 .. n -> Seq(Seq(Byte))] /\ JoinedUp(joins, pieces, n)

(* Every sequence of pieces joins to units.                                *)
LEMMA JoinsExist ==
  ASSUME NEW pieces \in Seq(Chunk)
  PROVE  \E joins : Joins(joins, pieces, Len(pieces))
<1> DEFINE n == Len(pieces)
           I == {m \in Nat : m <= n => \E joins : Joins(joins, pieces, m)}
<1>n. n \in Nat
  OBVIOUS
<1>1. 0 \in I
  <2> DEFINE none == [k \in 0 .. 0 |-> <<>>]
  <2>1. <<>> \in Seq(Seq(Byte)) /\ 0 \in 0 .. 0
    OBVIOUS
  <2>2. none \in [0 .. 0 -> Seq(Seq(Byte))] /\ none[0] = <<>>
    BY <2>1
  <2>3. \A k \in 0 .. 0 - 1 : FALSE
    OBVIOUS
  <2>4. Joins(none, pieces, 0)
    <3> HIDE DEF none
    <3> QED BY <2>2, <2>3 DEF Joins, JoinedUp
  <2> QED
    BY <2>4
<1>2. ASSUME NEW m \in Nat, m \in I PROVE m + 1 \in I
  <2> SUFFICES ASSUME m + 1 <= n PROVE \E joins : Joins(joins, pieces, m + 1)
    OBVIOUS
  <2>1. PICK joins : Joins(joins, pieces, m)
    BY <1>2, <1>n
  <2>2. joins[m] \in Seq(Seq(Byte)) /\ m \in 0 .. m
    BY <2>1 DEF Joins
  <2>3. pieces[m+1] \in Chunk
    BY <1>n
  <2> DEFINE new == Join(joins[m], pieces[m+1])
             more == [k \in 0 .. m + 1 |-> IF k <= m THEN joins[k] ELSE new]
  <2>4. new \in Seq(Seq(Byte))
    BY <2>2, <2>3, JoinIs
  <2>5. \A k \in 0 .. m : k \in 0 .. m + 1 /\ k <= m
    OBVIOUS
  <2>6. \A k \in 0 .. m : more[k] = joins[k]
    <3> HIDE DEF new
    <3> QED BY <2>5
  <2>7. more[m+1] = new
    <3>1. m + 1 \in 0 .. m + 1 /\ ~ (m + 1 <= m)
      OBVIOUS
    <3> HIDE DEF new
    <3> QED BY <3>1
  <2>8. more \in [0 .. m + 1 -> Seq(Seq(Byte))]
    <3>1. \A k \in 0 .. m : joins[k] \in Seq(Seq(Byte))
      BY <2>1 DEF Joins
    <3>2. \A k \in 0 .. m + 1 : k <= m => k \in 0 .. m
      OBVIOUS
    <3> HIDE DEF new
    <3> QED BY <2>4, <3>1, <3>2
  <2> HIDE DEF more
  <2>9. more[0] = <<>>
    <3>1. 0 \in 0 .. m /\ joins[0] = <<>>
      BY <2>1 DEF Joins, JoinedUp
    <3> QED BY <2>6, <3>1
  <2>10. \A k \in 0 .. (m + 1) - 1 : more[k+1] = Join(more[k], pieces[k+1])
    <3> TAKE k \in 0 .. (m + 1) - 1
    <3>1. k \in 0 .. m
      OBVIOUS
    <3>2. CASE k = m
      BY <2>6, <2>7, <3>1, <3>2
    <3>3. CASE k # m
      <4>1. k \in 0 .. m - 1 /\ k + 1 \in 0 .. m
        BY <3>3
      <4>2. joins[k+1] = Join(joins[k], pieces[k+1])
        BY <2>1, <4>1 DEF Joins, JoinedUp
      <4> QED BY <2>6, <3>1, <4>1, <4>2
    <3> QED BY <3>2, <3>3
  <2>11. Joins(more, pieces, m + 1)
    BY <2>8, <2>9, <2>10 DEF Joins, JoinedUp
  <2> QED
    BY <2>11
<1>3. Nat \subseteq I
  <2> HIDE DEF I
  <2> QED BY <1>1, <1>2, Lists!SetInduction
<1> QED
  BY <1>3, <1>n

(* Pieces that are the same join to the same units.                        *)
LEMMA JoinsAgree ==
  ASSUME NEW p, NEW q, NEW u, NEW v, NEW m \in Nat, NEW n \in Nat, m <= n,
         JoinedUp(u, p, m), JoinedUp(v, q, n), SameElements(p, 0, q, 0, m)
  PROVE  u[m] = v[m]
<1> DEFINE I == {k \in Nat : k <= m => u[k] = v[k]}
<1>0. /\ u[0] = v[0]
      /\ \A k \in 0 .. m - 1 : u[k+1] = Join(u[k], p[k+1])
      /\ \A k \in 0 .. n - 1 : v[k+1] = Join(v[k], q[k+1])
      /\ \A k \in 1 .. m : p[0 + k] = q[0 + k]
  BY DEF JoinedUp, SameElements
<1>1. 0 \in I
  BY <1>0
<1>2. ASSUME NEW k \in Nat, k \in I PROVE k + 1 \in I
  <2> SUFFICES ASSUME k + 1 <= m PROVE u[k+1] = v[k+1]
    OBVIOUS
  <2>1. k \in 0 .. m - 1 /\ k \in 0 .. n - 1 /\ k + 1 \in 1 .. m /\ k <= m
    OBVIOUS
  <2>2. u[k] = v[k]
    BY <1>2, <2>1
  <2>3. p[k+1] = q[k+1]
    <3>1. 0 + (k + 1) = k + 1
      OBVIOUS
    <3> QED BY <1>0, <2>1, <3>1
  <2> QED BY <1>0, <2>1, <2>2, <2>3
<1>3. Nat \subseteq I
  <2> HIDE DEF I
  <2> QED BY <1>1, <1>2, Lists!SetInduction
<1> QED
  BY <1>3

(* What the recursive function of Units computes.                          *)
LEMMA UnitsIs ==
  ASSUME NEW pieces \in Seq(Chunk), NEW joins, Joins(joins, pieces, Len(pieces))
  PROVE  Units(pieces) = joins[Len(pieces)]
<1> DEFINE n == Len(pieces)
           Step(up) == [k \in 0 .. n |-> IF k = 0 THEN <<>> ELSE Join(up[k-1], pieces[k])]
           upto == CHOOSE up : up = Step(up)
<1>n. n \in Nat
  OBVIOUS
<1>1. joins = Step(joins)
  <2>1. \A k \in 0 .. n : joins[k] = IF k = 0 THEN <<>> ELSE Join(joins[k-1], pieces[k])
    <3> TAKE k \in 0 .. n
    <3>1. CASE k = 0
      BY <3>1 DEF Joins, JoinedUp
    <3>2. CASE k # 0
      <4>1. k - 1 \in 0 .. n - 1 /\ (k - 1) + 1 = k
        BY <3>2
      <4>2. joins[(k - 1) + 1] = Join(joins[k - 1], pieces[(k - 1) + 1])
        BY <4>1 DEF Joins, JoinedUp
      <4> QED BY <3>2, <4>1, <4>2
    <3> QED BY <3>1, <3>2
  <2> QED
    BY <2>1 DEF Joins
<1>2. upto = Step(upto)
  <2> HIDE DEF Step
  <2> QED BY <1>1
<1>3. Units(pieces) = upto[n]
  BY DEF Units, upto
<1> HIDE DEF upto
<1>4. upto[0] = <<>>
  BY <1>2, <1>n
<1>5. \A k \in 0 .. n - 1 : upto[k+1] = Join(upto[k], pieces[k+1])
  <2> TAKE k \in 0 .. n - 1
  <2>1. k + 1 \in 0 .. n /\ k + 1 # 0 /\ (k + 1) - 1 = k
    BY <1>n
  <2> QED BY <1>2, <2>1
<1>6. JoinedUp(upto, pieces, n) /\ JoinedUp(joins, pieces, n)
  BY <1>4, <1>5 DEF Joins, JoinedUp
<1>7. SameElements(pieces, 0, pieces, 0, n) /\ n <= n
  BY <1>n DEF SameElements
<1>8. upto[n] = joins[n]
  BY <1>n, <1>6, <1>7, JoinsAgree
<1> QED
  BY <1>3, <1>8

(* The units of the first m pieces.                                        *)
LEMMA UnitsOfPrefix ==
  ASSUME NEW pieces \in Seq(Chunk), NEW joins, Joins(joins, pieces, Len(pieces)),
         NEW m \in 0 .. Len(pieces)
  PROVE  Units(SubSeq(pieces, 1, m)) = joins[m]
<1> DEFINE n == Len(pieces)
           s == SubSeq(pieces, 1, m)
<1>1. n \in Nat /\ m \in Nat /\ m <= n
  OBVIOUS
<1>2. /\ s = [i \in 1 .. m |-> pieces[0 + i]] /\ s \in Seq(Chunk) /\ Len(s) = m
  <2>1. 0 \in Nat /\ 0 + m <= n /\ 0 + 1 = 1 /\ 0 + m = m
    BY <1>1
  <2> QED BY <1>1, <2>1, SubSeqIs
<1>3. SameElements(s, 0, pieces, 0, m)
  <2>1. \A i \in 1 .. m : s[0 + i] = pieces[0 + i]
    <3> TAKE i \in 1 .. m
    <3>1. s[i] = pieces[0 + i] /\ 0 + i = i
      BY <1>2
    <3> QED BY <3>1
  <2> QED BY <2>1 DEF SameElements
<1> HIDE DEF s
<1>4. PICK mine : Joins(mine, s, m)
  BY <1>2, JoinsExist
<1>5. Units(s) = mine[m]
  BY <1>2, <1>4, UnitsIs
<1>6. JoinedUp(mine, s, m) /\ JoinedUp(joins, pieces, n)
  BY <1>4 DEF Joins
<1>7. mine[m] = joins[m]
  BY <1>1, <1>3, <1>6, JoinsAgree
<1> QED
  BY <1>5, <1>7 DEF s
-----------------------------------------------------------------------------
(* Piece p of the bitstream is segment s of its NAL unit.                  *)
Holds(pic, s, p) ==
  /\ s \in Segment(pic) /\ s.from < s.to /\ s.to <= NalLen(pic, s.unit)
  /\ p = [start |-> s.from = 0, data |-> SubSeq(pic[s.unit].nal, s.from + 1, s.to)]

(* A NAL unit begins behind the units in front of it, or goes on where the *)
(* piece before it stopped.                                                *)
Continues(pic, r, s) ==
  IF s.from = 0 THEN r.unit < s.unit
  ELSE s.unit = r.unit /\ s.from = r.to /\ ~ Whole(pic, r)

(* got[m] is the segment that piece m is.                                  *)
Holding(pic, got, pieces) ==
  /\ ProperPicture(pic) /\ pieces \in Seq(Chunk)
  /\ got \in Seq(Segment(pic)) /\ Len(got) = Len(pieces)
  /\ \A m \in 1 .. Len(got) : Holds(pic, got[m], pieces[m])
  /\ got # <<>> => got[1].from = 0
  /\ \A m \in 1 .. Len(got) - 1 : Continues(pic, got[m], got[m+1])

NextPiece(pic, got, s) ==
  IF got = <<>> THEN s.from = 0 ELSE Continues(pic, got[Len(got)], s)

(* Sequence s with one more element behind it. *)
OneMore(more, s, x, S) ==
  /\ more \in Seq(S) /\ Len(more) = Len(s) + 1 /\ more # <<>>
  /\ \A k \in 1 .. Len(s) : more[k] = s[k]
  /\ more[Len(s) + 1] = x

(* What Append does.                                                       *)
LEMMA AppendIs ==
  ASSUME NEW S, NEW s \in Seq(S), NEW x \in S
  PROVE  OneMore(Append(s, x), s, x, S)
<1>1. /\ Append(s, x) \in Seq(S) /\ Len(Append(s, x)) = Len(s) + 1
      /\ \A k \in 1 .. Len(s) : Append(s, x)[k] = s[k]
      /\ Append(s, x)[Len(s) + 1] = x
  OBVIOUS
<1>2. Append(s, x) # <<>>
  <2> SUFFICES ASSUME Append(s, x) = <<>> PROVE FALSE
    OBVIOUS
  <2>1. Len(Append(s, x)) = 0
    OBVIOUS
  <2>2. Len(s) \in Nat /\ Len(Append(s, x)) = Len(s) + 1
    BY <1>1
  <2> QED BY <2>1, <2>2
<1> QED
  BY <1>1, <1>2, Zenon DEF OneMore

(* The type of a piece.                                                    *)
LEMMA HoldsChunk ==
  ASSUME NEW pic, ProperPicture(pic), NEW s, NEW p, Holds(pic, s, p)
  PROVE  p \in Chunk
<1>1. /\ s.unit \in 1 .. Len(pic) /\ s.from \in Nat /\ s.to \in Nat
      /\ s.from < s.to /\ s.to <= NalLen(pic, s.unit)
      /\ p = [start |-> s.from = 0, data |-> SubSeq(pic[s.unit].nal, s.from + 1, s.to)]
  BY DEF Holds, Segment
<1>2. pic[s.unit].nal \in Seq(Byte) /\ Len(pic[s.unit].nal) = NalLen(pic, s.unit)
  BY <1>1, UnitTypes DEF NalLen
<1>3. PICK m : m = s.to - s.from
  OBVIOUS
<1>4. m \in Nat /\ s.from + m = s.to
  BY <1>1, <1>3
<1>5. SubSeq(pic[s.unit].nal, s.from + 1, s.from + m) \in Seq(Byte)
  BY <1>1, <1>2, <1>4, SubSeqIs
<1>6. (s.from = 0) \in BOOLEAN
  OBVIOUS
<1>7. p.start = (s.from = 0) /\ p.data \in Seq(Byte)
  BY <1>1, <1>4, <1>5
<1> QED
  BY <1>1, <1>4, <1>5, <1>6 DEF Chunk

(* The receiver may hold one piece more if it continues what it holds.     *)
LEMMA AddPiece ==
  ASSUME NEW pic, NEW got, NEW pieces, Holding(pic, got, pieces),
         NEW s, NEW p, Holds(pic, s, p), NextPiece(pic, got, s)
  PROVE  Holding(pic, Append(got, s), Append(pieces, p))
<1> DEFINE N == Len(got)
           more == Append(got, s)
           longer == Append(pieces, p)
<1>1. /\ ProperPicture(pic) /\ pieces \in Seq(Chunk)
      /\ got \in Seq(Segment(pic)) /\ N = Len(pieces) /\ N \in Nat
      /\ s \in Segment(pic) /\ p \in Chunk
  BY HoldsChunk DEF Holding, Holds
<1>2. OneMore(more, got, s, Segment(pic)) /\ OneMore(longer, pieces, p, Chunk)
  BY <1>1, AppendIs
<1>3. /\ more \in Seq(Segment(pic)) /\ Len(more) = N + 1 /\ more # <<>>
      /\ \A k \in 1 .. N : more[k] = got[k]
      /\ more[N + 1] = s
  BY <1>2 DEF OneMore
<1>4. /\ longer \in Seq(Chunk) /\ Len(longer) = N + 1
      /\ \A k \in 1 .. N : longer[k] = pieces[k]
      /\ longer[N + 1] = p
  BY <1>1, <1>2 DEF OneMore
<1> HIDE DEF more, longer, N
<1>5. \A m \in 1 .. N + 1 : m \in 1 .. N \/ m = N + 1
  BY <1>1
<1>6. \A m \in 1 .. N + 1 : Holds(pic, more[m], longer[m])
  <2> TAKE m \in 1 .. N + 1
  <2>1. CASE m \in 1 .. N
    <3>1. Holds(pic, got[m], pieces[m])
      BY <2>1 DEF Holding, N
    <3> QED BY <1>3, <1>4, <2>1, <3>1
  <2>2. CASE m = N + 1
    BY <1>3, <1>4, <2>2
  <2> QED BY <1>5, <2>1, <2>2
<1>7. more[1].from = 0
  <2>1. CASE N = 0
    <3>1. got = <<>>
      BY <1>1, <2>1 DEF N
    <3>2. s.from = 0 /\ N + 1 = 1
      BY <2>1, <3>1 DEF NextPiece
    <3> QED BY <1>3, <3>2
  <2>2. CASE N # 0
    <3>1. 1 \in 1 .. N /\ got # <<>>
      BY <1>1, <2>2 DEF N
    <3> QED BY <1>3, <3>1 DEF Holding
  <2> QED BY <2>1, <2>2
<1>8. \A m \in 1 .. (N + 1) - 1 : Continues(pic, more[m], more[m+1])
  <2> TAKE m \in 1 .. (N + 1) - 1
  <2>1. m \in 1 .. N /\ (m = N \/ (m \in 1 .. N - 1 /\ m + 1 \in 1 .. N))
    <3>1. N \in Nat
      BY <1>1
    <3>2. m \in Int /\ m >= 1 /\ m <= N
      BY <3>1
    <3>3. m # N => m \in 1 .. N - 1 /\ m + 1 \in 1 .. N
      BY <3>1, <3>2
    <3>4. m \in 1 .. N
      BY <3>1, <3>2
    <3> QED BY <3>3, <3>4, Zenon
  <2>2. CASE m = N
    <3>1. got # <<>>
      BY <1>1, <2>1 DEF N
    <3>2. Continues(pic, got[N], s)
      BY <3>1 DEF NextPiece, N
    <3> QED BY <1>3, <2>1, <2>2, <3>2
  <2>3. CASE m \in 1 .. N - 1 /\ m + 1 \in 1 .. N
    <3>1. Continues(pic, got[m], got[m+1])
      BY <2>3 DEF Holding, N
    <3> QED BY <1>3, <2>1, <2>3, <3>1
  <2> QED BY <2>1, <2>2, <2>3
<1>9. Holding(pic, more, longer)
  BY <1>1, <1>3, <1>4, <1>6, <1>7, <1>8, Zenon DEF Holding
<1> QED
  BY <1>9 DEF more, longer

(* The receiver may hold the first m pieces only.                          *)
LEMMA SomePieces ==
  ASSUME NEW pic, NEW got, NEW pieces, Holding(pic, got, pieces), NEW m \in 0 .. Len(got)
  PROVE  /\ Holding(pic, SubSeq(got, 1, m), SubSeq(pieces, 1, m))
         /\ SameElements(SubSeq(got, 1, m), 0, got, 0, m) /\ Len(SubSeq(got, 1, m)) = m
         /\ SameElements(SubSeq(pieces, 1, m), 0, pieces, 0, m) /\ Len(SubSeq(pieces, 1, m)) = m
<1> DEFINE less == SubSeq(got, 1, m)
           shorter == SubSeq(pieces, 1, m)
<1>1. /\ ProperPicture(pic) /\ pieces \in Seq(Chunk) /\ got \in Seq(Segment(pic))
      /\ Len(got) = Len(pieces) /\ Len(got) \in Nat /\ m \in Nat /\ m <= Len(got)
  BY DEF Holding
<1>2. 0 \in Nat /\ 0 + m <= Len(got) /\ 0 + 1 = 1 /\ 0 + m = m
  BY <1>1
<1>3. less = [i \in 1 .. m |-> got[0 + i]] /\ less \in Seq(Segment(pic)) /\ Len(less) = m
  BY <1>1, <1>2, SubSeqIs
<1>4. shorter = [i \in 1 .. m |-> pieces[0 + i]] /\ shorter \in Seq(Chunk) /\ Len(shorter) = m
  BY <1>1, <1>2, SubSeqIs
<1>5. \A i \in 1 .. m : 0 + i = i /\ i \in 1 .. Len(got)
  BY <1>1
<1>6. \A i \in 1 .. m : less[i] = got[i] /\ shorter[i] = pieces[i]
  BY <1>3, <1>4, <1>5
<1> HIDE DEF less, shorter
<1>7. SameElements(less, 0, got, 0, m) /\ SameElements(shorter, 0, pieces, 0, m)
  <2>1. \A i \in 1 .. m : less[0 + i] = got[0 + i] /\ shorter[0 + i] = pieces[0 + i]
    BY <1>5, <1>6
  <2> QED BY <2>1 DEF SameElements
<1>8. \A i \in 1 .. m : Holds(pic, less[i], shorter[i])
  <2> TAKE i \in 1 .. m
  <2>1. Holds(pic, got[i], pieces[i])
    BY <1>5 DEF Holding
  <2> QED BY <1>6, <2>1
<1>9. less # <<>> => less[1].from = 0
  <2> HAVE less # <<>>
  <2>1. 1 \in 1 .. m /\ got # <<>>
    <3>1. m # 0
      BY <1>3
    <3> QED BY <1>1, <3>1
  <2> QED BY <1>6, <2>1 DEF Holding
<1>10. \A i \in 1 .. m - 1 : Continues(pic, less[i], less[i+1])
  <2> TAKE i \in 1 .. m - 1
  <2>1. i \in 1 .. m /\ i + 1 \in 1 .. m /\ i \in 1 .. Len(got) - 1
    BY <1>1
  <2>2. Continues(pic, got[i], got[i+1])
    BY <2>1 DEF Holding
  <2> QED BY <1>6, <2>1, <2>2
<1>11. Holding(pic, less, shorter)
  BY <1>1, <1>3, <1>4, <1>8, <1>9, <1>10, Zenon DEF Holding
<1> QED
  BY <1>3, <1>4, <1>7, <1>11 DEF less, shorter

(* u is the beginning of a NAL unit that has come so far.                  *)
Beginning(u, nal) == \E x \in 1 .. Len(nal) : u = SubSeq(nal, 1, x)

(* place[i] is where in the picture the unit begins that units[i] is the   *)
(* beginning of; the last one reaches to the end of segment s.             *)
PlacedBy(pic, units, s, place) ==
  /\ units \in Seq(Seq(Byte)) /\ units # <<>>
  /\ place \in [1 .. Len(units) -> 1 .. Len(pic)]
  /\ \A i \in 1 .. Len(units) : \A j \in 1 .. Len(units) : i < j => place[i] < place[j]
  /\ \A i \in 1 .. Len(units) : Beginning(units[i], pic[place[i]].nal)
  /\ place[Len(units)] = s.unit
  /\ units[Len(units)] = SubSeq(pic[s.unit].nal, 1, s.to)

Placed(pic, units, s) == \E place : PlacedBy(pic, units, s, place)

(* The beginning of a sequence in two parts.                               *)
LEMMA SplitSeq ==
  ASSUME NEW S, NEW s \in Seq(S), NEW a \in Nat, NEW b \in Nat, a <= b, b <= Len(s)
  PROVE  SubSeq(s, 1, a) \o SubSeq(s, a + 1, b) = SubSeq(s, 1, b)
<1> DEFINE left == SubSeq(s, 1, a)
           right == SubSeq(s, a + 1, b)
           both == SubSeq(s, 1, b)
<1>1. PICK m : m = b - a
  OBVIOUS
<1>2. m \in Nat /\ a + m = b /\ 0 + a = a /\ 0 + b = b /\ 0 + 1 = 1 /\ 0 \in Nat /\ a <= Len(s)
      /\ Len(s) \in Nat
  BY <1>1
<1>3. left = [i \in 1 .. a |-> s[0 + i]] /\ left \in Seq(S) /\ Len(left) = a
  BY <1>2, SubSeqIs
<1>4. both = [i \in 1 .. b |-> s[0 + i]] /\ both \in Seq(S) /\ Len(both) = b
  BY <1>2, SubSeqIs
<1>5. right = [i \in 1 .. m |-> s[a + i]] /\ right \in Seq(S) /\ Len(right) = m
  BY <1>2, SubSeqIs
<1> HIDE DEF left, right, both
<1>6. left \o right \in Seq(S) /\ Both(left \o right, left, right)
  BY <1>3, <1>5, Concat
<1>7. Len(left \o right) = b
  BY <1>2, <1>3, <1>5, <1>6 DEF Both
<1>8. \A i \in 1 .. b : (left \o right)[i] = both[i]
  <2> TAKE i \in 1 .. b
  <2>0. both[i] = s[i]
    <3>1. 0 + i = i
      OBVIOUS
    <3> QED BY <1>4, <3>1
  <2>1. CASE i \in 1 .. a
    <3>1. (left \o right)[i] = left[i]
      BY <1>3, <1>6, <2>1 DEF Both
    <3>2. left[i] = s[0 + i] /\ 0 + i = i
      BY <1>3, <2>1
    <3> QED BY <2>0, <3>1, <3>2
  <2>2. CASE i \notin 1 .. a
    <3>1. PICK j : j = i - a
      OBVIOUS
    <3>2. j \in 1 .. m /\ a + j = i
      BY <1>2, <2>2, <3>1
    <3>3. (left \o right)[a + j] = right[j]
      BY <1>3, <1>5, <1>6, <3>2 DEF Both
    <3>4. right[j] = s[a + j]
      BY <1>5, <3>2
    <3> QED BY <2>0, <3>2, <3>3, <3>4
  <2> QED BY <2>1, <2>2
<1>9. left \o right = both
  <2>1. left \o right = [i \in 1 .. b |-> (left \o right)[i]]
    <3>1. \A w \in Seq(S) : w = [i \in 1 .. Len(w) |-> w[i]]
      OBVIOUS
    <3>2. left \o right \in Seq(S)
      BY <1>6
    <3> QED BY <1>7, <3>1, <3>2
  <2>2. both = [i \in 1 .. b |-> both[i]]
    BY <1>4
  <2> QED BY <1>8, <2>1, <2>2
<1> QED
  BY <1>9 DEF left, right, both

(* A piece that starts a NAL unit is placed behind the units so far.       *)
LEMMA PlaceFirst ==
  ASSUME NEW pic, ProperPicture(pic), NEW units \in Seq(Seq(Byte)),
         NEW s, NEW p, Holds(pic, s, p), s.from = 0,
         units # <<>> => \E r : Placed(pic, units, r) /\ r.unit < s.unit
  PROVE  Placed(pic, Join(units, p), s)
<1> DEFINE N == Len(units)
           J == Join(units, p)
           nal == pic[s.unit].nal
<1>1. /\ Len(pic) \in Nat /\ s.unit \in 1 .. Len(pic) /\ s.to \in Nat /\ s.to >= 1
      /\ s.to <= Len(nal)
      /\ p.start /\ p.data = SubSeq(nal, 1, s.to)
  <2>1. /\ s.unit \in 1 .. Len(pic) /\ s.to \in Nat /\ s.from < s.to /\ s.to <= Len(nal)
        /\ p.start = (s.from = 0) /\ p.data = SubSeq(nal, s.from + 1, s.to)
    BY DEF Holds, Segment, NalLen
  <2>2. s.from + 1 = 1
    OBVIOUS
  <2>3. Len(pic) \in Nat
    BY DEF ProperPicture
  <2>4. p.start /\ p.data = SubSeq(nal, 1, s.to)
    BY <2>1, <2>2
  <2>5. s.to >= 1
    BY <2>1
  <2> QED BY <2>1, <2>3, <2>4, <2>5
<1>2. p \in Chunk
  BY HoldsChunk
<1>3. J \in Seq(Seq(Byte)) /\ Added(J, units, p.data)
  BY <1>1, <1>2, JoinIs
<1>4. /\ N \in Nat /\ Len(J) = N + 1 /\ J[N + 1] = p.data
      /\ \A i \in 1 .. N : J[i] = units[i]
  BY <1>3 DEF Added
<1>5. \E before : /\ before \in [1 .. N -> 1 .. Len(pic)]
                  /\ \A i \in 1 .. N : before[i] < s.unit
                  /\ \A i \in 1 .. N : \A j \in 1 .. N : i < j => before[i] < before[j]
                  /\ \A i \in 1 .. N : Beginning(units[i], pic[before[i]].nal)
  <2>1. CASE N = 0
    <3>1. [i \in 1 .. 0 |-> 1] \in [1 .. N -> 1 .. Len(pic)]
      BY <2>1
    <3>2. \A i \in 1 .. N : FALSE
      BY <2>1
    <3> QED BY <3>1, <3>2, Zenon
  <2>2. CASE N # 0
    <3>1. units # <<>>
      BY <2>2
    <3>2. PICK r : Placed(pic, units, r) /\ r.unit < s.unit
      BY <3>1
    <3>3. PICK before : PlacedBy(pic, units, r, before)
      BY <3>2 DEF Placed
    <3>4. /\ before \in [1 .. N -> 1 .. Len(pic)] /\ before[N] = r.unit
          /\ \A i \in 1 .. N : \A j \in 1 .. N : i < j => before[i] < before[j]
          /\ \A i \in 1 .. N : Beginning(units[i], pic[before[i]].nal)
      BY <3>3 DEF PlacedBy
    <3>5. \A i \in 1 .. N : before[i] < s.unit
      <4> TAKE i \in 1 .. N
      <4>1. N \in 1 .. N /\ (i < N \/ i = N)
        BY <1>4, <2>2
      <4>2. before[i] \in Nat /\ before[N] \in Nat /\ s.unit \in Nat
        <5>1. before[i] \in 1 .. Len(pic) /\ before[N] \in 1 .. Len(pic)
          BY <3>4, <4>1
        <5> QED BY <1>1, <5>1
      <4>3. before[i] <= before[N]
        <5>1. CASE i < N
          <6>1. before[i] < before[N]
            BY <3>4, <4>1, <5>1
          <6> QED BY <4>2, <6>1
        <5>2. CASE i = N
          BY <4>2, <5>2
        <5> QED BY <4>1, <5>1, <5>2
      <4>4. before[N] < s.unit
        BY <3>2, <3>4
      <4> QED BY <4>2, <4>3, <4>4
    <3> QED BY <3>4, <3>5
  <2> QED BY <2>1, <2>2
<1>6. PICK before : /\ before \in [1 .. N -> 1 .. Len(pic)]
                    /\ \A i \in 1 .. N : before[i] < s.unit
                    /\ \A i \in 1 .. N : \A j \in 1 .. N : i < j => before[i] < before[j]
                    /\ \A i \in 1 .. N : Beginning(units[i], pic[before[i]].nal)
  BY <1>5
<1> DEFINE place == [i \in 1 .. N + 1 |-> IF i <= N THEN before[i] ELSE s.unit]
<1> HIDE DEF J, N
<1>7. \A i \in 1 .. N + 1 : (i \in 1 .. N /\ i <= N) \/ (i = N + 1 /\ ~ (i <= N))
  BY <1>4
<1>8. \A i \in 1 .. N : place[i] = before[i]
  <2>1. \A i \in 1 .. N : i \in 1 .. N + 1 /\ i <= N
    BY <1>4
  <2> QED BY <2>1
<1>9. place[N + 1] = s.unit
  <2>1. N + 1 \in 1 .. N + 1 /\ ~ (N + 1 <= N)
    BY <1>4
  <2> QED BY <2>1
<1>10. place \in [1 .. N + 1 -> 1 .. Len(pic)]
  BY <1>1, <1>6, <1>7
<1> HIDE DEF place
<1>11. \A i \in 1 .. N + 1 : \A j \in 1 .. N + 1 : i < j => place[i] < place[j]
  <2> TAKE i \in 1 .. N + 1
  <2> TAKE j \in 1 .. N + 1
  <2> HAVE i < j
  <2>1. i \in 1 .. N
    BY <1>4
  <2>2. CASE j \in 1 .. N
    BY <1>6, <1>8, <2>1, <2>2
  <2>3. CASE j = N + 1
    BY <1>6, <1>8, <1>9, <2>1, <2>3
  <2> QED BY <1>7, <2>2, <2>3
<1>12. \A i \in 1 .. N + 1 : Beginning(J[i], pic[place[i]].nal)
  <2> TAKE i \in 1 .. N + 1
  <2>1. CASE i \in 1 .. N
    BY <1>4, <1>6, <1>8, <2>1
  <2>2. CASE i = N + 1
    <3>1. J[i] = SubSeq(nal, 1, s.to) /\ pic[place[i]].nal = nal
      BY <1>1, <1>4, <1>9, <2>2
    <3>2. s.to \in 1 .. Len(nal)
      <4>1. Len(nal) \in Nat
        BY <1>1, UnitTypes DEF NalLen
      <4> QED BY <1>1, <4>1
    <3> QED BY <3>1, <3>2 DEF Beginning
  <2> QED BY <1>7, <2>1, <2>2
<1>13. J # <<>>
  <2> SUFFICES ASSUME J = <<>> PROVE FALSE
    OBVIOUS
  <2>1. Len(J) = 0
    OBVIOUS
  <2> QED BY <1>4, <2>1
<1>14. PlacedBy(pic, J, s, place)
  BY <1>1, <1>3, <1>4, <1>9, <1>10, <1>11, <1>12, <1>13, Zenon DEF PlacedBy, J
<1> QED
  BY <1>14 DEF Placed, J

(* A piece that continues the last unit makes it a longer beginning.       *)
LEMMA PlaceMore ==
  ASSUME NEW pic, ProperPicture(pic), NEW units \in Seq(Seq(Byte)), NEW r,
         Placed(pic, units, r), NEW s, NEW p, Holds(pic, s, p),
         s.from # 0, s.unit = r.unit, s.from = r.to
  PROVE  Placed(pic, Join(units, p), s)
<1> DEFINE N == Len(units)
           J == Join(units, p)
           nal == pic[s.unit].nal
<1>1. /\ s.unit \in 1 .. Len(pic) /\ s.from \in Nat /\ s.to \in Nat /\ s.from < s.to
      /\ s.to <= Len(nal) /\ p.start = (s.from = 0)
      /\ p.data = SubSeq(nal, s.from + 1, s.to)
  BY DEF Holds, Segment, NalLen
<1>2. p \in Chunk
  BY HoldsChunk
<1>3. PICK place : PlacedBy(pic, units, r, place)
  BY DEF Placed
<1>4. /\ units # <<>> /\ place \in [1 .. N -> 1 .. Len(pic)]
      /\ \A i \in 1 .. N : \A j \in 1 .. N : i < j => place[i] < place[j]
      /\ \A i \in 1 .. N : Beginning(units[i], pic[place[i]].nal)
      /\ place[N] = s.unit
      /\ units[N] = SubSeq(nal, 1, s.from)
  BY <1>3 DEF PlacedBy
<1>5. J \in Seq(Seq(Byte)) /\ Extended(J, units, p.data)
  <2>1. ~ (p.start \/ units = <<>>)
    BY <1>1, <1>4
  <2> QED BY <1>2, <2>1, JoinIs
<1>6. /\ N \in Nat /\ Len(J) = N /\ J[N] = units[N] \o p.data
      /\ \A i \in 1 .. N - 1 : J[i] = units[i]
  BY <1>5 DEF Extended
<1>7. nal \in Seq(Byte) /\ Len(nal) \in Nat
  BY <1>1, UnitTypes
<1>8. J[N] = SubSeq(nal, 1, s.to)
  <2>1. SubSeq(nal, 1, s.from) \o SubSeq(nal, s.from + 1, s.to) = SubSeq(nal, 1, s.to)
    <3>1. s.from <= s.to
      BY <1>1
    <3> QED BY <1>1, <1>7, <3>1, SplitSeq
  <2> QED BY <1>1, <1>4, <1>6, <2>1
<1> HIDE DEF J, N
<1>9. \A i \in 1 .. N : i = N \/ i \in 1 .. N - 1
  BY <1>6
<1>10. \A i \in 1 .. N : Beginning(J[i], pic[place[i]].nal)
  <2> TAKE i \in 1 .. N
  <2>1. CASE i \in 1 .. N - 1
    BY <1>4, <1>6, <2>1
  <2>2. CASE i = N
    <3>1. s.to \in 1 .. Len(nal)
      BY <1>1, <1>7
    <3> QED BY <1>4, <1>8, <2>2, <3>1 DEF Beginning
  <2> QED BY <1>9, <2>1, <2>2
<1>11. J # <<>>
  <2> SUFFICES ASSUME J = <<>> PROVE FALSE
    OBVIOUS
  <2>1. Len(J) = 0
    OBVIOUS
  <2>2. Len(units) = 0
    BY <1>6, <2>1 DEF N
  <2> QED BY <1>4, <2>2
<1>12. PlacedBy(pic, J, s, place)
  BY <1>4, <1>5, <1>6, <1>8, <1>10, <1>11, Zenon DEF PlacedBy, J
<1> QED
  BY <1>12 DEF Placed, J

(* The units of everything the receiver holds have their places.           *)
LEMMA AllPlaced ==
  ASSUME NEW pic, NEW got, NEW pieces, Holding(pic, got, pieces),
         NEW joins, Joins(joins, pieces, Len(pieces))
  PROVE  \A m \in 1 .. Len(got) : Placed(pic, joins[m], got[m])
<1> DEFINE n == Len(got)
           I == {m \in Nat : m + 1 <= n => Placed(pic, joins[m+1], got[m+1])}
<1>1. /\ ProperPicture(pic) /\ n \in Nat /\ n = Len(pieces)
      /\ \A m \in 1 .. n : Holds(pic, got[m], pieces[m])
      /\ got # <<>> => got[1].from = 0
      /\ \A m \in 1 .. n - 1 : Continues(pic, got[m], got[m+1])
  BY DEF Holding
<1>2. /\ joins[0] = <<>>
      /\ \A k \in 0 .. n : joins[k] \in Seq(Seq(Byte))
      /\ \A k \in 0 .. n - 1 : joins[k+1] = Join(joins[k], pieces[k+1])
  BY <1>1 DEF Joins, JoinedUp
<1>3. 0 \in I
  <2> SUFFICES ASSUME 0 + 1 <= n PROVE Placed(pic, joins[0 + 1], got[0 + 1])
    OBVIOUS
  <2>1. 0 + 1 = 1 /\ 1 \in 1 .. n /\ 0 \in 0 .. n - 1 /\ 0 \in 0 .. n
    BY <1>1
  <2>2. got # <<>>
    BY <2>1
  <2>3. got[1].from = 0 /\ Holds(pic, got[1], pieces[1])
    BY <1>1, <2>1, <2>2
  <2>4. joins[0] \in Seq(Seq(Byte)) /\ joins[0 + 1] = Join(joins[0], pieces[0 + 1])
    BY <1>2, <2>1
  <2>5. Placed(pic, Join(joins[0], pieces[1]), got[1])
    BY <1>1, <1>2, <2>3, <2>4, PlaceFirst
  <2> QED BY <2>1, <2>4, <2>5
<1>4. ASSUME NEW m \in Nat, m \in I PROVE m + 1 \in I
  <2> SUFFICES ASSUME (m + 1) + 1 <= n PROVE Placed(pic, joins[(m + 1) + 1], got[(m + 1) + 1])
    OBVIOUS
  <2>1. PICK k : k = m + 1
    OBVIOUS
  <2>2. k \in 1 .. n - 1 /\ k + 1 \in 1 .. n /\ k \in 0 .. n - 1 /\ k \in 0 .. n /\ m + 1 <= n
    BY <1>1, <2>1
  <2>3. Placed(pic, joins[k], got[k])
    BY <1>4, <2>1, <2>2
  <2>4. joins[k] \in Seq(Seq(Byte)) /\ joins[k+1] = Join(joins[k], pieces[k+1])
    BY <1>2, <2>2
  <2>5. Holds(pic, got[k+1], pieces[k+1]) /\ Continues(pic, got[k], got[k+1])
    BY <1>1, <2>2
  <2>6. CASE got[k+1].from = 0
    <3>1. got[k].unit < got[k+1].unit
      BY <2>5, <2>6 DEF Continues
    <3>2. \E r : Placed(pic, joins[k], r) /\ r.unit < got[k+1].unit
      BY <2>3, <3>1
    <3>3. Placed(pic, Join(joins[k], pieces[k+1]), got[k+1])
      BY <1>1, <2>4, <2>5, <2>6, <3>2, PlaceFirst
    <3> QED BY <2>1, <2>4, <3>3
  <2>7. CASE got[k+1].from # 0
    <3>1. got[k+1].unit = got[k].unit /\ got[k+1].from = got[k].to
      BY <2>5, <2>7 DEF Continues
    <3>2. Placed(pic, Join(joins[k], pieces[k+1]), got[k+1])
      BY <1>1, <2>3, <2>4, <2>5, <2>7, <3>1, PlaceMore
    <3> QED BY <2>1, <2>4, <3>2
  <2> QED BY <2>6, <2>7
<1>5. Nat \subseteq I
  <2> HIDE DEF I
  <2> QED BY <1>3, <1>4, Lists!SetInduction
<1>6. ASSUME NEW m \in 1 .. n PROVE Placed(pic, joins[m], got[m])
  <2>1. m - 1 \in Nat /\ (m - 1) + 1 = m /\ m <= n
    BY <1>1
  <2>2. m - 1 \in I
    BY <1>5, <2>1
  <2>3. (m - 1) + 1 <= n => Placed(pic, joins[(m - 1) + 1], got[(m - 1) + 1])
    BY <2>2
  <2> QED BY <2>1, <2>3
<1> QED
  BY <1>6

(* more begins with the elements of units and has others behind them.      *)
Grown(more, units) ==
  /\ Len(more) \in Nat /\ Len(units) < Len(more)
  /\ \A i \in 1 .. Len(units) : more[i] = units[i]

(* What lies in front of a whole unit is not touched by the pieces that    *)
(* come later.                                                             *)
LEMMA AllGrown ==
  ASSUME NEW pic, NEW got, NEW pieces, Holding(pic, got, pieces),
         NEW joins, Joins(joins, pieces, Len(pieces)),
         NEW y \in 0 .. Len(got), y # 0 => Whole(pic, got[y])
  PROVE  \A m \in y + 1 .. Len(got) : Grown(joins[m], joins[y])
<1> DEFINE n == Len(got)
           I == {d \in Nat : y + d + 1 <= n => Grown(joins[y + d + 1], joins[y])}
<1>1. /\ n \in Nat /\ n = Len(pieces) /\ y \in Nat /\ y <= n
      /\ \A m \in 1 .. n : Holds(pic, got[m], pieces[m])
      /\ got # <<>> => got[1].from = 0
      /\ \A m \in 1 .. n - 1 : Continues(pic, got[m], got[m+1])
      /\ \A m \in 1 .. n : pieces[m] \in Chunk
  BY DEF Holding
<1>2. /\ \A k \in 0 .. n : joins[k] \in Seq(Seq(Byte))
      /\ \A k \in 0 .. n - 1 : joins[k+1] = Join(joins[k], pieces[k+1])
  BY <1>1 DEF Joins, JoinedUp
<1>3. 0 \in I
  <2> SUFFICES ASSUME y + 0 + 1 <= n PROVE Grown(joins[y + 0 + 1], joins[y])
    OBVIOUS
  <2>1. y + 0 + 1 = y + 1 /\ y + 1 \in 1 .. n /\ y \in 0 .. n - 1 /\ y \in 0 .. n
    BY <1>1
  <2>2. got[y+1].from = 0
    <3>1. CASE y = 0
      <4>1. got # <<>> /\ y + 1 = 1
        BY <2>1, <3>1
      <4> QED BY <1>1, <4>1
    <3>2. CASE y # 0
      <4>1. y \in 1 .. n - 1
        BY <1>1, <2>1, <3>2
      <4>2. Continues(pic, got[y], got[y+1]) /\ Whole(pic, got[y])
        BY <1>1, <3>2, <4>1
      <4> QED BY <4>2 DEF Continues
    <3> QED BY <3>1, <3>2
  <2>3. pieces[y+1].start /\ pieces[y+1] \in Chunk
    <3>1. Holds(pic, got[y+1], pieces[y+1]) /\ pieces[y+1] \in Chunk
      BY <1>1, <2>1
    <3>2. pieces[y+1] = [start |-> got[y+1].from = 0,
                         data |-> SubSeq(pic[got[y+1].unit].nal, got[y+1].from + 1, got[y+1].to)]
      BY <3>1 DEF Holds
    <3>3. pieces[y+1].start = (got[y+1].from = 0)
      BY <3>2
    <3> QED BY <2>2, <3>1, <3>3
  <2>4. joins[y] \in Seq(Seq(Byte)) /\ joins[y+1] = Join(joins[y], pieces[y+1])
    BY <1>2, <2>1
  <2>5. Added(joins[y+1], joins[y], pieces[y+1].data)
    BY <2>3, <2>4, JoinIs
  <2>6. Len(joins[y]) \in Nat
    BY <2>4
  <2> QED BY <2>1, <2>5, <2>6 DEF Added, Grown
<1>4. ASSUME NEW d \in Nat, d \in I PROVE d + 1 \in I
  <2> SUFFICES ASSUME y + (d + 1) + 1 <= n PROVE Grown(joins[y + (d + 1) + 1], joins[y])
    OBVIOUS
  <2>1. PICK k : k = y + d + 1
    OBVIOUS
  <2>2. /\ k \in 0 .. n - 1 /\ k \in 0 .. n /\ k + 1 \in 1 .. n /\ y + d + 1 <= n
        /\ y + (d + 1) + 1 = k + 1
    BY <1>1, <2>1
  <2>3. Grown(joins[k], joins[y])
    BY <1>4, <2>1, <2>2
  <2>4. /\ joins[k] \in Seq(Seq(Byte)) /\ joins[k+1] = Join(joins[k], pieces[k+1])
        /\ pieces[k+1] \in Chunk
    BY <1>1, <1>2, <2>2
  <2>5. PICK u, v, w, x : u = joins[k] /\ v = joins[k+1] /\ w = joins[y] /\ x = pieces[k+1].data
    OBVIOUS
  <2>6. Len(u) \in Nat /\ Len(w) < Len(u) /\ \A i \in 1 .. Len(w) : u[i] = w[i]
    BY <2>3, <2>5 DEF Grown
  <2>7. Len(w) \in Nat
    <3>1. y \in 0 .. n
      BY <1>1
    <3> QED BY <1>2, <2>5, <3>1
  <2>8. Added(v, u, x) \/ Extended(v, u, x)
    BY <2>4, <2>5, JoinIs
  <2>9. Grown(v, w)
    <3>1. \A i \in 1 .. Len(w) : i \in 1 .. Len(u) /\ i \in 1 .. Len(u) - 1
      BY <2>6, <2>7
    <3>2. CASE Added(v, u, x)
      <4>1. Len(v) = Len(u) + 1 /\ \A i \in 1 .. Len(u) : v[i] = u[i]
        BY <3>2 DEF Added
      <4>2. Len(v) \in Nat /\ Len(w) < Len(v)
        BY <2>6, <2>7, <4>1
      <4> QED BY <2>6, <3>1, <4>1, <4>2 DEF Grown
    <3>3. CASE Extended(v, u, x)
      <4>1. Len(v) = Len(u) /\ \A i \in 1 .. Len(u) - 1 : v[i] = u[i]
        BY <3>3 DEF Extended
      <4> QED BY <2>6, <3>1, <4>1 DEF Grown
    <3> QED BY <2>8, <3>2, <3>3
  <2> QED BY <2>2, <2>5, <2>9
<1>5. Nat \subseteq I
  <2> HIDE DEF I
  <2> QED BY <1>3, <1>4, Lists!SetInduction
<1>6. ASSUME NEW m \in y + 1 .. n PROVE Grown(joins[m], joins[y])
  <2>1. PICK d : d = m - y - 1
    OBVIOUS
  <2>2. d \in Nat /\ y + d + 1 = m /\ m <= n
    BY <1>1, <2>1
  <2>3. d \in I
    BY <1>5, <2>2
  <2> QED BY <2>2, <2>3
<1> QED
  BY <1>6
-----------------------------------------------------------------------------
(* What was there is a prefix of what is there after an Append.            *)
LEMMA PrefixOfAppend ==
  ASSUME NEW S, NEW s \in Seq(S), NEW x \in S, NEW y \in 0 .. Len(s)
  PROVE  SubSeq(Append(s, x), 1, y) = SubSeq(s, 1, y)
<1> DEFINE more == Append(s, x)
<1>1. OneMore(more, s, x, S)
  BY AppendIs
<1> HIDE DEF more
<1>2. /\ more \in Seq(S) /\ Len(more) = Len(s) + 1 /\ Len(s) \in Nat /\ y \in Nat /\ y <= Len(s)
      /\ \A k \in 1 .. Len(s) : more[k] = s[k]
  BY <1>1 DEF OneMore
<1>3. 0 \in Nat /\ 0 + y <= Len(s) /\ 0 + y <= Len(more) /\ 0 + 1 = 1 /\ 0 + y = y
  BY <1>2
<1>4. SameElements(more, 0, s, 0, y)
  <2>1. \A i \in 1 .. y : 0 + i = i /\ i \in 1 .. Len(s)
    BY <1>2
  <2> QED BY <1>2, <2>1 DEF SameElements
<1>5. SameParts(more, 0, s, 0, y)
  BY <1>2, <1>3, <1>4, SubSeqSame
<1> QED
  BY <1>3, <1>5 DEF SameParts, more

(* The piece that a fragment, or a single NAL unit packet, adds.           *)
LEMMA FragmentPiece ==
  ASSUME NEW pic, ProperPicture(pic), NEW s, NEW r, Reads(pic, s, r), r.kind = "FU_A"
  PROVE  \E piece : Rx!FuPieces(r) = <<piece>> /\ Holds(pic, s, piece)
<1> DEFINE nal == pic[s.unit].nal
<1>1. /\ s \in Segment(pic) /\ s.unit \in 1 .. Len(pic) /\ s.from \in Nat /\ s.to \in Nat
      /\ s.from < s.to /\ s.to <= Len(nal) /\ s.to <= NalLen(pic, s.unit)
      /\ r.octet = nal[1] /\ (r.S <=> s.from = 0)
      /\ r.data = SubSeq(nal, IF s.from = 0 THEN 2 ELSE s.from + 1, s.to)
  BY DEF Reads, Segment, NalLen
<1>2. nal \in Seq(Byte)
  BY <1>1, UnitTypes
<1>3. CASE s.from = 0
  <2>1. r.data = SubSeq(nal, 1 + 1, s.to)
    BY <1>1, <1>3
  <2>2. SubSeq(nal, 1, 1) \o SubSeq(nal, 1 + 1, s.to) = SubSeq(nal, 1, s.to)
    <3>1. 1 \in Nat /\ 1 <= s.to
      BY <1>1
    <3> QED BY <1>1, <1>2, <3>1, SplitSeq
  <2>3. SubSeq(nal, 1, 1) = <<nal[1]>>
    <3>1. 0 \in Nat /\ 1 \in Nat /\ 0 + 1 <= Len(nal) /\ 0 + 1 = 1
      BY <1>1, <1>2
    <3>2. SubSeq(nal, 0 + 1, 0 + 1) = [i \in 1 .. 1 |-> nal[0 + i]]
      BY <1>2, <3>1, SubSeqIs
    <3>3. [i \in 1 .. 1 |-> nal[0 + i]] = <<nal[1]>>
      OBVIOUS
    <3> QED BY <3>1, <3>2, <3>3
  <2>4. PICK piece : piece = Rx!Start(<<r.octet>> \o r.data)
    OBVIOUS
  <2>5. Rx!FuPieces(r) = <<piece>>
    BY <1>1, <1>3, <2>4 DEF Rx!FuPieces
  <2>6. piece = [start |-> TRUE, data |-> SubSeq(nal, 1, s.to)]
    BY <1>1, <2>1, <2>2, <2>3, <2>4 DEF Rx!Start
  <2>7. piece = [start |-> s.from = 0, data |-> SubSeq(nal, s.from + 1, s.to)]
    <3>1. (s.from = 0) = TRUE /\ s.from + 1 = 1
      BY <1>3
    <3> QED BY <2>6, <3>1
  <2> QED BY <1>1, <2>5, <2>7 DEF Holds
<1>4. CASE s.from # 0
  <2>1. r.data = SubSeq(nal, s.from + 1, s.to) /\ ~ r.S
    BY <1>1, <1>4
  <2>2. r.data # <<>>
    <3>1. PICK m : m = s.to - s.from
      OBVIOUS
    <3>2. m \in Nat /\ m >= 1 /\ s.from + m = s.to
      BY <1>1, <3>1
    <3>3. Len(r.data) = m
      <4>1. s.from + m <= Len(nal)
        BY <1>1, <3>2
      <4>2. Len(SubSeq(nal, s.from + 1, s.from + m)) = m
        <5>1. PICK a, u : a = s.from /\ u = nal
          OBVIOUS
        <5>2. a \in Nat /\ u \in Seq(Byte) /\ a + m <= Len(u)
          BY <1>1, <1>2, <4>1, <5>1
        <5>3. Len(SubSeq(u, a + 1, a + m)) = m
          BY <3>2, <5>2, SubSeqIs
        <5> QED BY <5>1, <5>3
      <4> QED BY <2>1, <3>2, <4>2
    <3> QED BY <3>2, <3>3
  <2>3. PICK piece : piece = Rx!More(r.data)
    OBVIOUS
  <2>4. Rx!FuPieces(r) = <<piece>>
    BY <2>1, <2>2, <2>3 DEF Rx!FuPieces
  <2>5. piece = [start |-> FALSE, data |-> SubSeq(nal, s.from + 1, s.to)]
    BY <2>1, <2>3 DEF Rx!More
  <2>6. piece = [start |-> s.from = 0, data |-> SubSeq(nal, s.from + 1, s.to)]
    <3>1. (s.from = 0) = FALSE
      BY <1>4
    <3> QED BY <2>5, <3>1
  <2> QED BY <1>1, <2>4, <2>6 DEF Holds
<1> QED
  BY <1>3, <1>4

(* The piece that a single NAL unit packet adds.                           *)
LEMMA SinglePiece ==
  ASSUME NEW pic, ProperPicture(pic), NEW s, NEW r, Reads(pic, s, r), r.kind = "SINGLE"
  PROVE  Holds(pic, s, Rx!Start(r.nal)) /\ Whole(pic, s) /\ s.from = 0
<1> DEFINE nal == pic[s.unit].nal
<1>1. /\ s \in Segment(pic) /\ s.unit \in 1 .. Len(pic)
      /\ s.from < s.to /\ s.to <= NalLen(pic, s.unit)
      /\ r.nal = nal /\ s.from = 0 /\ Whole(pic, s)
  BY DEF Reads, Segment
<1>2. nal \in Seq(Byte) /\ s.to = Len(nal)
  BY <1>1, UnitTypes DEF Whole, NalLen
<1>3. SubSeq(nal, 1, s.to) = nal
  BY <1>2
<1>4. Rx!Start(r.nal) = [start |-> s.from = 0, data |-> SubSeq(nal, s.from + 1, s.to)]
  <2>1. (s.from = 0) = TRUE /\ s.from + 1 = 1
    BY <1>1
  <2> QED BY <1>1, <1>3, <2>1 DEF Rx!Start
<1> QED
  BY <1>1, <1>4 DEF Holds

(* The receiver: what it holds are segments that have been handed to it,   *)
(* the one at the sync point ends its NAL unit, and as long as prev_lost   *)
(* is not set the last of them is the one handed over last.                *)
Taking(segs, got) ==
  /\ handed \in Nat /\ handed <= Len(segs)
  /\ Holding(nals, got, bits)
  /\ \A m \in 1 .. Len(got) : \E k \in 1 .. handed : got[m] = segs[k]
  /\ Rx!sync_pos \in 0 .. Len(got)
  /\ Rx!sync_pos # 0 => Whole(nals, got[Rx!sync_pos])
  /\ Rx!Running /\ ~ prev_lost /\ handed # 0 => got # <<>> /\ got[Len(got)] = segs[handed]

(* Nothing is added to what is complete, or all that is there now is.      *)
Kept == Completed' = Completed

Synced(got) ==
  /\ Rx!sync_pos' = Len(got) /\ Rx!sync_pos < Len(got)
  /\ Rx!sync_pos # 0 => Whole(nals, got[Rx!sync_pos])
  /\ Whole(nals, got[Len(got)])
  /\ SubSeq(bits', 1, Rx!sync_pos) = SubSeq(bits, 1, Rx!sync_pos)

(* Another payload has left the channel, and nothing changed at the sender.*)
HandedOver == handed' = handed + 1 /\ handed < Len(payloads) /\ nals' = nals /\ payloads' = payloads

(* None of the payloads of its NAL unit, up to payload k, was lost.        *)
Unbroken(segs, k) == \A j \in 1 .. k : segs[j].unit = segs[k].unit => j \notin lost

(* prev_lost remembers a loss in the NAL unit of the last payload.         *)
Remembers(segs) ==
  prev_lost /\ handed # 0 => \E j \in 1 .. handed : j \in lost /\ segs[j].unit = segs[handed].unit

(* What ends an unbroken NAL unit lies in front of the sync point.         *)
Secures(segs, got) ==
  \A k \in 1 .. handed : Whole(nals, segs[k]) /\ Unbroken(segs, k) =>
    \E m \in 1 .. Rx!sync_pos : got[m] = segs[k]

(* When nothing is lost the receiver holds everything.                     *)
HoldsAll(segs, got) ==
  lost = {} => Len(got) = handed /\ \A m \in 1 .. handed : got[m] = segs[m]

(* What the receiver does not lose, as long as it runs: a payload of one   *)
(* octet makes it forget its prev_lost, so units are longer than that.     *)
Keeping(segs, got) ==
  Rx!Running /\ LongUnits(nals) => Remembers(segs) /\ Secures(segs, got) /\ HoldsAll(segs, got)

(* What the receiver makes of the next payload: it takes it, or goes back  *)
(* to the sync point, or never sees it.                                    *)
Took(got, g, s) ==
  /\ g = Append(got, s) /\ ~ prev_lost' /\ lost' = lost
  /\ Rx!sync_pos <= Rx!sync_pos'
  /\ Whole(nals, s) => Rx!sync_pos' = Len(g)

WentBack(got, g, s) ==
  /\ g = SubSeq(got, 1, Rx!sync_pos) /\ prev_lost /\ lost' = lost
  /\ Rx!sync_pos' = Rx!sync_pos
  /\ s.from # 0

Missed(got, g) ==
  g = got /\ lost' = lost \cup {handed + 1} /\ Rx!sync_pos' = Rx!sync_pos

Handles(segs, got, g) ==
  LongUnits(nals) /\ Rx!Running' =>
    Took(got, g, segs[handed + 1]) \/ WentBack(got, g, segs[handed + 1]) \/ Missed(got, g)

(* Whatever it makes of it, it keeps what it should.                       *)
LEMMA HandlesKeeps ==
  ASSUME NEW segs, NEW got, NEW g, Sent(nals, payloads, segs), Taking(segs, got), HandedOver,
         Taking(segs, g)', Rx!Running, Keeping(segs, got), Handles(segs, got, g)
  PROVE  Keeping(segs, g)'
<1> SUFFICES ASSUME Rx!Running', LongUnits(nals')
             PROVE  Remembers(segs)' /\ Secures(segs, g)' /\ HoldsAll(segs, g)'
  BY DEF Keeping
<1>p. PICK h, s, y, z, N : /\ h = handed /\ s = segs[handed + 1] /\ y = Rx!sync_pos
                           /\ z = Rx!sync_pos' /\ N = Len(got)
  OBVIOUS
<1>1. /\ nals' = nals /\ handed' = h + 1 /\ h \in Nat /\ h < Len(segs) /\ Len(segs) \in Nat
      /\ h + 1 \in 1 .. Len(segs) /\ s = segs[h + 1] /\ (h + 1) - 1 = h /\ (h + 1 = 1 <=> h = 0)
  <2>1. nals' = nals /\ handed' = h + 1 /\ h \in Nat /\ Len(segs) \in Nat /\ s = segs[h + 1]
    BY <1>p DEF HandedOver, Sent, Taking
  <2>2. h < Len(segs)
    BY <1>p DEF HandedOver, Sent
  <2> QED BY <2>1, <2>2
<1>2. Took(got, g, s) \/ WentBack(got, g, s) \/ Missed(got, g)
  BY <1>1, <1>p DEF Handles
<1>3. /\ Remembers(segs) /\ Secures(segs, got) /\ HoldsAll(segs, got)
  BY <1>1 DEF Keeping
<1>4. y \in 0 .. N /\ N \in Nat /\ got \in Seq(Segment(nals)) /\ s \in Segment(nals)
  <2>1. y \in 0 .. N /\ got \in Seq(Segment(nals))
    BY <1>p DEF Taking, Holding
  <2>2. N \in Nat
    BY <1>p, <2>1
  <2>3. Reads(nals, s, Read(payloads[h + 1]))
    BY <1>1 DEF Sent
  <2> QED BY <2>1, <2>2, <2>3 DEF Reads
<1>5. \A k \in 1 .. h + 1 : k \in 1 .. h \/ k = h + 1
  BY <1>1
<1>6. \A k \in 1 .. h : k \in 1 .. h + 1
  BY <1>1
<1>7. /\ prev_lost /\ h # 0 => \E j \in 1 .. h : j \in lost /\ segs[j].unit = segs[h].unit
      /\ \A k \in 1 .. h : Whole(nals, segs[k]) /\ Unbroken(segs, k) => \E m \in 1 .. y : got[m] = segs[k]
      /\ lost = {} => N = h /\ \A m \in 1 .. h : got[m] = segs[m]
  BY <1>3, <1>p DEF Remembers, Secures, HoldsAll
<1>8. lost \subseteq lost' /\ \A k : Unbroken(segs, k)' => Unbroken(segs, k)
  <2>1. lost \subseteq lost'
    BY <1>2 DEF Took, WentBack, Missed
  <2> QED BY <2>1 DEF Unbroken
<1>9. SUFFICES /\ prev_lost' => \E j \in 1 .. h + 1 : j \in lost' /\ segs[j].unit = s.unit
               /\ \A k \in 1 .. h + 1 : Whole(nals, segs[k]) /\ Unbroken(segs, k)'
                    => \E m \in 1 .. z : g[m] = segs[k]
               /\ lost' = {} => Len(g) = h + 1 /\ \A m \in 1 .. h + 1 : g[m] = segs[m]
  BY <1>1, <1>p DEF Remembers, Secures, HoldsAll
<1>10. ASSUME NEW k \in 1 .. h, Whole(nals, segs[k]), Unbroken(segs, k)',
              y <= z, z \in Int, \A m \in 1 .. y : g[m] = got[m]
       PROVE  \E m \in 1 .. z : g[m] = segs[k]
  <2>1. PICK m \in 1 .. y : got[m] = segs[k]
    BY <1>7, <1>8, <1>10
  <2>2. m \in 1 .. z
    BY <1>10, <1>4, <2>1
  <2> QED BY <1>10, <2>1, <2>2
<1>11. CASE Took(got, g, s)
  <2>1. g = Append(got, s) /\ ~ prev_lost' /\ lost' = lost /\ y <= z
        /\ (Whole(nals, s) => z = Len(g))
    BY <1>11, <1>p DEF Took
  <2>2. Len(g) = N + 1 /\ g[N + 1] = s /\ \A m \in 1 .. N : g[m] = got[m]
    BY <1>4, <1>p, <2>1, AppendIs DEF OneMore
  <2>3. z \in Int
    <3>1. z \in 0 .. Len(g)
      BY <1>p DEF Taking
    <3> QED BY <3>1
  <2>4. \A m \in 1 .. y : g[m] = got[m]
    BY <1>4, <2>2
  <2>5. ASSUME NEW k \in 1 .. h + 1, Whole(nals, segs[k]), Unbroken(segs, k)'
        PROVE  \E m \in 1 .. z : g[m] = segs[k]
    <3>1. CASE k \in 1 .. h
      BY <1>10, <2>1, <2>3, <2>4, <2>5, <3>1
    <3>2. CASE k = h + 1
      <4>1. z = N + 1 /\ N + 1 \in 1 .. z /\ segs[k] = s
        BY <1>1, <1>4, <2>1, <2>2, <2>5, <3>2
      <4> QED BY <2>2, <4>1
    <3> QED BY <1>5, <3>1, <3>2
  <2>6. ASSUME lost' = {} PROVE Len(g) = h + 1 /\ \A m \in 1 .. h + 1 : g[m] = segs[m]
    <3>1. N = h /\ \A m \in 1 .. h : got[m] = segs[m]
      BY <1>7, <2>1, <2>6
    <3> QED BY <1>1, <1>5, <2>2, <3>1
  <2> QED BY <2>1, <2>5, <2>6
<1>12. CASE WentBack(got, g, s)
  <2>1. g = SubSeq(got, 1, y) /\ prev_lost /\ lost' = lost /\ z = y /\ s.from # 0
    BY <1>12, <1>p DEF WentBack
  <2>2. \A m \in 1 .. y : g[m] = got[m]
    BY <1>4, <1>p, <2>1
  <2>3. h # 0 /\ s.unit = segs[h].unit
    BY <1>1, <2>1, UnitOfNext
  <2>4. PICK j \in 1 .. h : j \in lost /\ segs[j].unit = s.unit
    BY <1>7, <2>1, <2>3
  <2>5. ASSUME NEW k \in 1 .. h + 1, Whole(nals, segs[k]), Unbroken(segs, k)'
        PROVE  \E m \in 1 .. z : g[m] = segs[k]
    <3>1. CASE k \in 1 .. h
      <4>1. y <= z /\ z \in Int
        BY <1>4, <2>1
      <4> QED BY <1>10, <2>2, <2>5, <3>1, <4>1
    <3>2. CASE k = h + 1
      <4>1. Unbroken(segs, k) /\ segs[k] = s /\ j \in 1 .. k
        BY <1>1, <1>6, <1>8, <2>5, <3>2
      <4> QED BY <2>4, <4>1 DEF Unbroken
    <3> QED BY <1>5, <3>1, <3>2
  <2> QED BY <1>6, <2>1, <2>4, <2>5
<1>13. CASE Missed(got, g)
  <2>1. g = got /\ lost' = lost \cup {h + 1} /\ z = y
    BY <1>13, <1>p DEF Missed
  <2>2. h + 1 \in lost' /\ h + 1 \in 1 .. h + 1
    BY <1>1, <2>1
  <2>3. ASSUME NEW k \in 1 .. h + 1, Whole(nals, segs[k]), Unbroken(segs, k)'
        PROVE  \E m \in 1 .. z : g[m] = segs[k]
    <3>1. CASE k \in 1 .. h
      <4>1. y <= z /\ z \in Int
        BY <1>4, <2>1
      <4> QED BY <1>10, <2>1, <2>3, <3>1, <4>1
    <3>2. CASE k = h + 1
      <4>1. k \notin lost'
        BY <2>2, <2>3, <3>2 DEF Unbroken
      <4> QED BY <2>2, <3>2, <4>1
    <3> QED BY <1>5, <3>1, <3>2
  <2> QED BY <1>1, <2>2, <2>3
<1> QED
  BY <1>2, <1>11, <1>12, <1>13

(* The receiver appends the segment that was handed over.                  *)
LEMMA TakesOne ==
  ASSUME NEW segs, NEW got, Sent(nals, payloads, segs), Taking(segs, got), HandedOver,
         NEW s, s = segs[handed + 1], NEW piece, Holds(nals, s, piece), NextPiece(nals, got, s),
         bits' = Append(bits, piece), ~ prev_lost', lost' = lost,
         IF Whole(nals, s) THEN last_sync_pos' = Len(bits') ELSE last_sync_pos' = Rx!sync_pos
  PROVE  \E g : Taking(segs, g)' /\ (Kept \/ Synced(g)) /\ Handles(segs, got, g)
<1>g. PICK g : g = Append(got, s)
  OBVIOUS
<1> DEFINE N == Len(got)
<1>1. /\ ProperPicture(nals) /\ bits \in Seq(Chunk) /\ got \in Seq(Segment(nals))
      /\ N = Len(bits) /\ N \in Nat /\ s \in Segment(nals) /\ piece \in Chunk
  <2>1. /\ ProperPicture(nals) /\ bits \in Seq(Chunk) /\ got \in Seq(Segment(nals))
        /\ N = Len(bits)
    BY DEF Taking, Holding
  <2>2. N \in Nat
    BY <2>1
  <2>3. s \in Segment(nals)
    BY DEF Holds
  <2>4. piece \in Chunk
    BY <2>1, HoldsChunk
  <2> QED BY <2>1, <2>2, <2>3, <2>4
<1>2. OneMore(g, got, s, Segment(nals)) /\ OneMore(bits', bits, piece, Chunk)
  BY <1>1, <1>g, AppendIs
<1>3. /\ Len(g) = N + 1 /\ g # <<>> /\ g[N + 1] = s /\ \A k \in 1 .. N : g[k] = got[k]
      /\ Len(bits') = N + 1 /\ N + 1 # 0
  BY <1>1, <1>2 DEF OneMore
<1>4. Holding(nals, g, bits')
  BY <1>g, AddPiece DEF Taking
<1>5. /\ handed \in Nat /\ handed < Len(segs) /\ handed' = handed + 1 /\ nals' = nals
      /\ \A m \in 1 .. N : \E k \in 1 .. handed : got[m] = segs[k]
      /\ Rx!sync_pos \in 0 .. N
      /\ Rx!sync_pos # 0 => Whole(nals, got[Rx!sync_pos])
  BY DEF Taking, HandedOver, Sent
<1> HIDE DEF N
<1>6. \A m \in 1 .. Len(g) : \E k \in 1 .. handed' : g[m] = segs[k]
  <2> TAKE m \in 1 .. Len(g)
  <2>1. m \in 1 .. N \/ m = N + 1
    BY <1>1, <1>3
  <2>2. CASE m \in 1 .. N
    <3>1. PICK k \in 1 .. handed : got[m] = segs[k]
      BY <1>5, <2>2
    <3>2. k \in 1 .. handed' /\ g[m] = segs[k]
      BY <1>3, <1>5, <2>2, <3>1
    <3> QED BY <3>2
  <2>3. CASE m = N + 1
    <3>1. handed + 1 \in 1 .. handed'
      BY <1>5
    <3> QED BY <1>3, <2>3, <3>1
  <2> QED BY <2>1, <2>2, <2>3
<1>7. Rx!sync_pos' = last_sync_pos'
  BY <1>3 DEF Rx!sync_pos, Rx!bits_pos
<1>8. /\ Rx!sync_pos' \in 0 .. Len(g)
      /\ Rx!sync_pos' # 0 => Whole(nals, g[Rx!sync_pos'])
  <2>1. CASE last_sync_pos' = Len(bits') /\ Whole(nals, s)
    BY <1>1, <1>3, <1>7, <2>1
  <2>2. CASE last_sync_pos' = Rx!sync_pos
    <3>1. Rx!sync_pos' = Rx!sync_pos /\ Rx!sync_pos \in 0 .. Len(g)
      BY <1>1, <1>3, <1>5, <1>7, <2>2
    <3>2. Rx!sync_pos # 0 => Rx!sync_pos \in 1 .. N
      BY <1>1, <1>5
    <3> QED BY <1>3, <1>5, <3>1, <3>2
  <2> QED BY <2>1, <2>2
<1>9. handed' \in Nat /\ handed' <= Len(segs) /\ g[Len(g)] = segs[handed']
  <2>1. Len(segs) \in Nat
    BY DEF Sent
  <2> QED BY <1>3, <1>5, <2>1
<1>10. Taking(segs, g)'
  BY <1>3, <1>4, <1>5, <1>6, <1>8, <1>9 DEF Taking
<1>11. SubSeq(bits', 1, Rx!sync_pos) = SubSeq(bits, 1, Rx!sync_pos)
  <2>1. PICK y : y = Rx!sync_pos
    OBVIOUS
  <2>2. y \in 0 .. Len(bits)
    BY <1>1, <1>5, <2>1
  <2>3. SubSeq(Append(bits, piece), 1, y) = SubSeq(bits, 1, y)
    BY <1>1, <2>2, PrefixOfAppend
  <2> QED BY <2>1, <2>3
<1>t. Took(got, g, s)
  <2>1. Rx!sync_pos <= Rx!sync_pos' /\ (Whole(nals, s) => Rx!sync_pos' = Len(g))
    <3>1. CASE Whole(nals, s)
      BY <1>1, <1>3, <1>5, <1>7, <3>1
    <3>2. CASE ~ Whole(nals, s)
      <4>1. Rx!sync_pos' = Rx!sync_pos
        BY <1>7, <3>2
      <4> QED BY <1>1, <1>5, <3>2, <4>1
    <3> QED BY <3>1, <3>2
  <2> QED BY <1>g, <2>1 DEF Took
<1>h. Handles(segs, got, g)
  BY <1>t DEF Handles
<1>12. CASE last_sync_pos' = Len(bits') /\ Whole(nals, s)
  <2>1. Rx!sync_pos' = Len(g) /\ Rx!sync_pos < Len(g) /\ Whole(nals, g[Len(g)])
    BY <1>1, <1>3, <1>5, <1>7, <1>12
  <2>2. Rx!sync_pos # 0 => Whole(nals, g[Rx!sync_pos])
    <3>1. Rx!sync_pos # 0 => Rx!sync_pos \in 1 .. N
      BY <1>1, <1>5
    <3> QED BY <1>3, <1>5, <3>1
  <2>3. Synced(g)
    BY <1>11, <2>1, <2>2 DEF Synced
  <2> QED BY <1>10, <1>h, <2>3
<1>13. CASE last_sync_pos' = Rx!sync_pos
  <2>1. Rx!sync_pos' = Rx!sync_pos
    BY <1>7, <1>13
  <2>2. Completed' = Units(SubSeq(bits', 1, Rx!sync_pos'))
    BY DEF Completed, Units, Join
  <2>3. Kept
    BY <1>11, <2>1, <2>2 DEF Kept, Completed
  <2> QED BY <1>10, <1>h, <2>3
<1> QED
  BY <1>12, <1>13

(* It continues what the receiver holds, unless something was lost.        *)
LEMMA NextFits ==
  ASSUME NEW segs, NEW got, Sent(nals, payloads, segs), Taking(segs, got),
         handed < Len(segs), NEW s, s = segs[handed + 1],
         s.from # 0 => Rx!Running /\ ~ prev_lost
  PROVE  NextPiece(nals, got, s)
<1> DEFINE h == handed
<1>1. h \in Nat /\ Len(segs) \in Nat /\ h + 1 \in 1 .. Len(segs) /\ Len(got) \in Nat
  <2>1. Len(got) \in Nat
    BY DEF Taking, Holding
  <2> QED BY <2>1 DEF Taking, Sent
<1>2. CASE s.from = 0
  <2>1. CASE got = <<>>
    BY <1>2, <2>1 DEF NextPiece
  <2>2. CASE got # <<>>
    <3>1. Len(got) \in 1 .. Len(got)
      <4>1. got \in Seq(Segment(nals))
        BY DEF Taking, Holding
      <4>2. Len(got) # 0
        BY <2>2, <4>1
      <4> QED BY <1>1, <4>2
    <3>2. PICK k \in 1 .. h : got[Len(got)] = segs[k]
      BY <3>1 DEF Taking
    <3>3. k \in 1 .. (h + 1) - 1
      BY <1>1
    <3>4. segs[h + 1].from = 0 => segs[k].unit < segs[h + 1].unit
      BY <1>1, <3>3 DEF Sent, Ordered
    <3>5. Continues(nals, got[Len(got)], s)
      BY <1>2, <3>2, <3>4 DEF Continues
    <3> QED BY <2>2, <3>5 DEF NextPiece
  <2> QED BY <2>1, <2>2
<1>3. CASE s.from # 0
  <2>1. h # 0
    <3>1. segs # <<>>
      BY <1>1
    <3>2. segs[1].from = 0
      BY <3>1 DEF Sent
    <3>3. h = 0 => s = segs[1]
      OBVIOUS
    <3> QED BY <1>3, <3>2, <3>3
  <2>2. got # <<>> /\ got[Len(got)] = segs[h]
    BY <1>3, <2>1 DEF Taking
  <2>3. h \in 1 .. Len(segs) - 1
    BY <1>1, <2>1
  <2>4. Follows(nals, segs[h], segs[h + 1])
    BY <2>3 DEF Sent
  <2>5. ~ Whole(nals, segs[h]) /\ s.unit = segs[h].unit /\ s.from = segs[h].to
    BY <1>3, <2>4 DEF Follows
  <2>6. Continues(nals, got[Len(got)], s)
    BY <1>3, <2>2, <2>5 DEF Continues
  <2> QED BY <2>2, <2>6 DEF NextPiece
<1> QED
  BY <1>2, <1>3

(* The receiver leaves the bitstream alone: the loss is remembered.        *)
LEMMA StaysSame ==
  ASSUME NEW segs, NEW got, Sent(nals, payloads, segs), Taking(segs, got), HandedOver,
         bits' = bits, Rx!sync_pos' = Rx!sync_pos, prev_lost' \/ ~ Rx!Running'
  PROVE  Taking(segs, got)' /\ Kept
<1>1. /\ handed \in Nat /\ handed < Len(segs) /\ Len(segs) \in Nat
      /\ handed' = handed + 1 /\ nals' = nals
  BY DEF Sent, Taking, HandedOver
<1>2. \A m \in 1 .. Len(got) : \E k \in 1 .. handed' : got[m] = segs[k]
  <2> TAKE m \in 1 .. Len(got)
  <2>1. PICK k \in 1 .. handed : got[m] = segs[k]
    BY DEF Taking
  <2>2. k \in 1 .. handed'
    BY <1>1
  <2> QED BY <2>1, <2>2
<1>3. handed' \in Nat /\ handed' <= Len(segs)
  BY <1>1
<1>4. Taking(segs, got)'
  BY <1>1, <1>2, <1>3 DEF Taking
<1>5. Completed' = Units(SubSeq(bits', 1, Rx!sync_pos'))
  BY DEF Completed, Units, Join
<1> QED
  BY <1>4, <1>5 DEF Kept, Completed

(* The receiver goes back to the sync point.                               *)
LEMMA GoesBack ==
  ASSUME NEW segs, NEW got, Sent(nals, payloads, segs), Taking(segs, got), HandedOver,
         bits' = Rx!reverted, last_sync_pos' = Rx!sync_pos, prev_lost', prev_lost, lost' = lost,
         segs[handed + 1].from # 0
  PROVE  \E g : Taking(segs, g)' /\ Kept /\ Handles(segs, got, g)
<1>y. PICK y : y = Rx!sync_pos
  OBVIOUS
<1>g. PICK g : g = SubSeq(got, 1, y)
  OBVIOUS
<1>1. /\ handed \in Nat /\ handed < Len(segs) /\ Len(segs) \in Nat
      /\ handed' = handed + 1 /\ nals' = nals
  BY DEF Sent, Taking, HandedOver
<1>2. /\ Holding(nals, got, bits) /\ y \in 0 .. Len(got) /\ (y # 0 => Whole(nals, got[y]))
  BY <1>y DEF Taking
<1>3. bits' = SubSeq(bits, 1, y)
  BY <1>y DEF Rx!reverted
<1>4. /\ Holding(nals, g, bits') /\ SameElements(g, 0, got, 0, y) /\ Len(g) = y
      /\ Len(bits') = y
  BY <1>2, <1>3, <1>g, SomePieces
<1>5. \A i \in 1 .. y : g[i] = got[i]
  <2> TAKE i \in 1 .. y
  <2>1. g[0 + i] = got[0 + i] /\ 0 + i = i
    BY <1>4 DEF SameElements
  <2> QED BY <2>1
<1>6. y \in Nat /\ y <= Len(got) /\ Len(got) \in Nat
  BY <1>2 DEF Holding
<1>7. \A m \in 1 .. Len(g) : \E k \in 1 .. handed' : g[m] = segs[k]
  <2> TAKE m \in 1 .. Len(g)
  <2>0. m \in 1 .. y /\ m \in 1 .. Len(got)
    BY <1>4, <1>6
  <2>1. PICK k \in 1 .. handed : got[m] = segs[k]
    BY <2>0 DEF Taking
  <2>2. k \in 1 .. handed'
    BY <1>1
  <2> QED BY <1>5, <2>0, <2>1, <2>2
<1>8. Rx!sync_pos' = y
  BY <1>4, <1>y DEF Rx!sync_pos, Rx!bits_pos
<1>9. y # 0 => Whole(nals, g[y])
  <2>1. y # 0 => y \in 1 .. y
    BY <1>6
  <2> QED BY <1>2, <1>5, <2>1
<1>10. handed' \in Nat /\ handed' <= Len(segs) /\ y \in 0 .. Len(g)
  BY <1>1, <1>4, <1>6
<1>11. Taking(segs, g)'
  BY <1>1, <1>4, <1>7, <1>8, <1>9, <1>10 DEF Taking
<1>12. SubSeq(bits', 1, y) = SubSeq(bits, 1, y)
  <2>1. bits' \in Seq(Chunk)
    BY <1>4 DEF Holding
  <2>2. SubSeq(bits', 1, y) = bits'
    BY <1>4, <2>1
  <2> QED BY <1>3, <2>2
<1>13. Completed' = Units(SubSeq(bits', 1, Rx!sync_pos'))
  BY DEF Completed, Units, Join
<1>14. Kept
  BY <1>8, <1>12, <1>13, <1>y DEF Kept, Completed
<1>15. Handles(segs, got, g)
  BY <1>8, <1>g, <1>y DEF Handles, WentBack
<1> QED
  BY <1>11, <1>14, <1>15

(* What a delivered payload does to the receiver's bitstream.              *)
LEMMA DeliverTakes ==
  ASSUME NEW segs, NEW got, Sent(nals, payloads, segs), Taking(segs, got), Deliver
  PROVE  \E g : Taking(segs, g)' /\ (Kept \/ Synced(g)) /\ Handles(segs, got, g)
<1>s. PICK s, r : s = segs[handed + 1] /\ r = Read(payloads[handed + 1])
  OBVIOUS
<1>1. HandedOver /\ Rx!Unpacketize(r) /\ lost' = lost
  BY <1>s DEF Deliver, HandedOver, sender
<1>2. /\ ProperPicture(nals) /\ handed \in Nat /\ Len(segs) \in Nat /\ Len(segs) = Len(payloads)
      /\ handed < Len(segs) /\ handed + 1 \in 1 .. Len(segs)
      /\ Holding(nals, got, bits) /\ bits \in Seq(Chunk) /\ Len(got) = Len(bits)
      /\ Rx!sync_pos \in 0 .. Len(got)
  <2>1. /\ ProperPicture(nals) /\ handed \in Nat /\ Len(segs) = Len(payloads)
        /\ Holding(nals, got, bits) /\ bits \in Seq(Chunk) /\ Len(got) = Len(bits)
        /\ Rx!sync_pos \in 0 .. Len(got)
    BY DEF Sent, Taking, Holding
  <2>2. Len(segs) \in Nat
    BY DEF Sent
  <2>3. handed < Len(segs)
    BY <1>1, <2>1 DEF HandedOver
  <2> QED BY <2>1, <2>2, <2>3
<1>3. Reads(nals, s, r)
  BY <1>2, <1>s DEF Sent
<1>4. Rx!Running /\ (Rx!Short(r) \/ Rx!SingleNal(r) \/ Rx!FuA(r))
  <2>1. r.kind \in {"SHORT", "SINGLE", "FU_A"}
    BY <1>3 DEF Reads
  <2>2. r.kind # "STAP_A" /\ r.kind # "OTHER"
    BY <2>1
  <2> QED BY <1>1, <2>2 DEF Rx!Unpacketize, Rx!StapA, Rx!NotSupported
<1>5. ASSUME bits' = bits, last_sync_pos' = Rx!sync_pos \/ last_sync_pos' = last_sync_pos
      PROVE  Rx!sync_pos' = Rx!sync_pos
  BY <1>5 DEF Rx!sync_pos, Rx!bits_pos
<1>6. ASSUME NEW why, why \in {"NO_ROOM", "SYNC_AHEAD"}, Rx!Abort(why)
      PROVE  \E g : Taking(segs, g)' /\ (Kept \/ Synced(g)) /\ Handles(segs, got, g)
  <2>1. /\ bits' = bits /\ Rx!sync_pos' = Rx!sync_pos /\ ~ Rx!Running'
    BY <1>5, <1>6 DEF Rx!Abort, Rx!Running
  <2>2. Taking(segs, got)' /\ Kept
    BY <1>1, <2>1, StaysSame
  <2>3. Handles(segs, got, got)
    BY <2>1 DEF Handles
  <2> QED BY <2>2, <2>3
<1>7. CASE Rx!Short(r)
  <2>1. bits' = bits /\ Rx!sync_pos' = Rx!sync_pos /\ prev_lost'
    BY <1>5, <1>7 DEF Rx!Short
  <2>2. Taking(segs, got)' /\ Kept
    BY <1>1, <2>1, StaysSame
  <2>3. s.unit \in 1 .. Len(nals) /\ NalLen(nals, s.unit) = 1
    <3>1. s.to = 1 /\ Whole(nals, s) /\ s \in Segment(nals)
      BY <1>3, <1>7 DEF Reads, Rx!Short
    <3> QED BY <3>1 DEF Segment, Whole
  <2>4. ~ LongUnits(nals)
    BY <2>3 DEF LongUnits
  <2>5. Handles(segs, got, got)
    BY <2>4 DEF Handles
  <2> QED BY <2>2, <2>5
<1>8. CASE Rx!SingleNal(r)
  <2>1. CASE Rx!Abort("NO_ROOM")
    BY <1>6, <2>1
  <2>2. CASE bits' = Append(bits, Rx!Start(r.nal)) /\ last_sync_pos' = Len(bits') /\ ~ prev_lost'
    <3>1. PICK piece : piece = Rx!Start(r.nal)
      OBVIOUS
    <3>2. Holds(nals, s, piece) /\ Whole(nals, s) /\ s.from = 0
      BY <1>2, <1>3, <1>8, <3>1, SinglePiece DEF Rx!SingleNal
    <3>3. NextPiece(nals, got, s)
      BY <1>2, <1>s, <3>2, NextFits
    <3> QED BY <1>1, <1>s, <2>2, <3>1, <3>2, <3>3, TakesOne
  <2> QED BY <1>8, <2>1, <2>2 DEF Rx!SingleNal
<1>9. CASE Rx!FuA(r)
  <2>0. r.kind = "FU_A"
    BY <1>9 DEF Rx!FuA
  <2>1. CASE Rx!FuNoRoom(r)
    BY <1>6, <2>1 DEF Rx!FuNoRoom
  <2>2. CASE Rx!FuAppend(r)
    <3>1. PICK piece : Rx!FuPieces(r) = <<piece>> /\ Holds(nals, s, piece)
      BY <1>2, <1>3, <2>0, FragmentPiece
    <3>2. (r.S <=> s.from = 0) /\ (r.E <=> Whole(nals, s))
      BY <1>3, <2>0 DEF Reads
    <3>3. piece \in Chunk
      BY <1>2, <3>1, HoldsChunk
    <3>4. bits' = bits \o <<piece>> /\ (r.S \/ ~ prev_lost) /\ ~ prev_lost'
      BY <2>2, <3>1 DEF Rx!FuAppend, Rx!FuUsable
    <3>5. bits' = Append(bits, piece)
      BY <1>2, <3>3, <3>4
    <3>6. IF Whole(nals, s) THEN last_sync_pos' = Len(bits') ELSE last_sync_pos' = Rx!sync_pos
      BY <2>2, <3>2 DEF Rx!FuAppend
    <3>7. NextPiece(nals, got, s)
      <4>1. s.from # 0 => Rx!Running /\ ~ prev_lost
        BY <1>4, <3>2, <3>4
      <4> QED BY <1>2, <1>s, <4>1, NextFits
    <3> QED BY <1>1, <1>s, <3>1, <3>4, <3>5, <3>6, <3>7, TakesOne
  <2>3. CASE Rx!FuRevert(r)
    <3>1. CASE Rx!Abort("SYNC_AHEAD")
      BY <1>6, <3>1
    <3>2. CASE ~ Rx!Abort("SYNC_AHEAD")
      <4>1. /\ bits' = Rx!reverted /\ last_sync_pos' = Rx!sync_pos /\ prev_lost' /\ prev_lost
            /\ ~ r.S
        BY <2>3, <3>2 DEF Rx!FuRevert, Rx!FuUsable
      <4>2. s.from # 0
        BY <1>3, <2>0, <4>1 DEF Reads
      <4>3. \E g : Taking(segs, g)' /\ Kept /\ Handles(segs, got, g)
        BY <1>1, <1>s, <4>1, <4>2, GoesBack
      <4> QED BY <4>3
    <3> QED BY <3>1, <3>2
  <2> QED BY <1>9, <2>1, <2>2, <2>3 DEF Rx!FuA
<1> QED
  BY <1>4, <1>7, <1>8, <1>9

(* What a lost one does.                                                   *)
LEMMA LoseTakes ==
  ASSUME NEW segs, NEW got, Sent(nals, payloads, segs), Taking(segs, got), Lose
  PROVE  Taking(segs, got)' /\ Kept /\ Handles(segs, got, got)
<1>1. HandedOver /\ bits' = bits /\ prev_lost' /\ last_sync_pos' = last_sync_pos
  BY DEF Lose, HandedOver, sender, Rx!Lost
<1>2. Rx!sync_pos' = Rx!sync_pos
  BY <1>1 DEF Rx!sync_pos, Rx!bits_pos
<1>3. Handles(segs, got, got)
  <2>1. lost' = lost \cup {handed + 1}
    BY DEF Lose
  <2> QED BY <1>2, <2>1 DEF Handles, Missed
<1> QED
  BY <1>1, <1>2, <1>3, StaysSame
-----------------------------------------------------------------------------
(***************************************************************************)
(* The inductive invariant: as long as no NAL unit of the picture is       *)
(* straddled, there is a layout of it in the bitstream, a list of the      *)
(* segments that the payloads carry, and a list of those that the receiver *)
(* holds.                                                                  *)
(***************************************************************************)
Under(off, segs, got) == Sending(off, segs) /\ Taking(segs, got) /\ Keeping(segs, got)

Inv == NoneStraddled => \E off, segs, got : Under(off, segs, got)

(* The receiver's part of the invariant at the beginning of a picture.     *)
LEMMA BeginsTaking == Begins /\ handed = 0 /\ bits = <<>> => Taking(<<>>, <<>>)
<1> SUFFICES ASSUME Begins, handed = 0, bits = <<>> PROVE Taking(<<>>, <<>>)
  OBVIOUS
<1>1. ProperPicture(nals) /\ <<>> \in Seq(Chunk) /\ <<>> \in Seq(Segment(nals)) /\ Len(<<>>) = 0
  BY DEF Begins
<1>2. (\A m \in 1 .. 0 : FALSE) /\ (\A m \in 1 .. 0 - 1 : FALSE)
  OBVIOUS
<1>3. Holding(nals, <<>>, bits)
  BY <1>1, <1>2 DEF Holding
<1>4. Rx!sync_pos = 0
  BY <1>1 DEF Rx!sync_pos, Rx!bits_pos
<1> QED
  BY <1>1, <1>2, <1>3, <1>4 DEF Taking

(* The invariant holds there.                                              *)
LEMMA BeginsInv == Begins /\ handed = 0 /\ bits = <<>> => Inv
<1> SUFFICES ASSUME Begins, handed = 0, bits = <<>> PROVE Inv
  OBVIOUS
<1>1. PICK off : Sending(off, <<>>)
  BY BeginsSending
<1>2. Keeping(<<>>, <<>>)
  <2>1. Len(<<>>) = 0 /\ (\A k \in 1 .. 0 : FALSE)
    OBVIOUS
  <2> QED BY <2>1 DEF Keeping, Remembers, Secures, HoldsAll
<1>3. Under(off, <<>>, <<>>)
  BY <1>1, <1>2, BeginsTaking DEF Under
<1> QED
  BY <1>3 DEF Inv

(* Whether a NAL unit is straddled does not change within a picture.       *)
LEMMA SameNals ==
  ASSUME nals' = nals PROVE NoneStraddled' = NoneStraddled
BY DEF NoneStraddled, Tx!Straddled

(* Nothing is forgotten when the list of the segments grows, or stays.     *)
LEMMA KeepingLonger ==
  ASSUME NEW segs, NEW more, NEW got, Keeping(segs, got), handed \in Nat,
         nals' = nals, handed' = handed, prev_lost' = prev_lost, lost' = lost,
         Rx!sync_pos' = Rx!sync_pos, Rx!Running' = Rx!Running,
         \A k \in 1 .. handed : more[k] = segs[k]
  PROVE  Keeping(more, got)'
<1> SUFFICES ASSUME Rx!Running', LongUnits(nals')
             PROVE  Remembers(more)' /\ Secures(more, got)' /\ HoldsAll(more, got)'
  BY DEF Keeping
<1>1. Remembers(segs) /\ Secures(segs, got) /\ HoldsAll(segs, got)
  BY DEF Keeping
<1>2. Remembers(more)'
  <2>1. handed # 0 => handed \in 1 .. handed
    OBVIOUS
  <2> QED BY <1>1, <2>1 DEF Remembers
<1>3. \A k \in 1 .. handed : Unbroken(more, k)' => Unbroken(segs, k)
  <2> TAKE k \in 1 .. handed
  <2>1. \A j \in 1 .. k : j \in 1 .. handed
    OBVIOUS
  <2> QED BY <2>1 DEF Unbroken
<1>4. Secures(more, got)'
  BY <1>1, <1>3 DEF Secures
<1>5. HoldsAll(more, got)'
  BY <1>1 DEF HoldsAll
<1> QED
  BY <1>2, <1>4, <1>5

(* A call of the packetizer keeps the invariant.                           *)
LEMMA SendKeeps ==
  ASSUME NEW off, NEW segs, NEW got, Under(off, segs, got), NoneStraddled, Send
  PROVE  nals' = nals /\ \E s : Under(off, Append(segs, s), got)'
<1>1. /\ Tx!Packetize /\ handed' = handed /\ bits' = bits /\ prev_lost' = prev_lost
      /\ last_sync_pos' = last_sync_pos /\ received_status' = received_status /\ lost' = lost
  BY DEF Send, receiver
<1>2. nals' = nals
  BY <1>1 DEF Tx!Packetize, Tx!TooSmall, Tx!Cancel, Tx!FirstFragment, Tx!NextFragment,
              Tx!SingleNal, Tx!NullOctet, Tx!Fail, Tx!EmitFragment
<1>3. PICK s : Sending(off, Append(segs, s))'
  BY <1>1, PacketizeSends DEF Under
<1>4. PICK more : more = Append(segs, s)
  OBVIOUS
<1>5. segs \in Seq(Segment(nals)) /\ more \in Seq(Segment(nals)) /\ Len(segs) \in Nat
  <2>1. segs \in Seq(Segment(nals))
    BY DEF Under, Sending, Sent
  <2>2. more \in Seq(Segment(nals'))
    BY <1>3, <1>4 DEF Sending, Sent
  <2> QED BY <1>2, <2>1, <2>2
<1>6. Len(more) = Len(segs) + 1 /\ \A k \in 1 .. Len(segs) : more[k] = segs[k]
  BY <1>4, <1>5
<1>7. /\ handed \in Nat /\ handed <= Len(segs)
      /\ \A m \in 1 .. Len(got) : \E k \in 1 .. handed : got[m] = segs[k]
      /\ (Rx!Running /\ ~ prev_lost /\ handed # 0 => got # <<>> /\ got[Len(got)] = segs[handed])
      /\ Holding(nals, got, bits)
      /\ Rx!sync_pos \in 0 .. Len(got)
      /\ (Rx!sync_pos # 0 => Whole(nals, got[Rx!sync_pos]))
  BY DEF Under, Taking
<1>8. \A k \in 1 .. handed : more[k] = segs[k]
  BY <1>5, <1>6, <1>7
<1>9. handed # 0 => handed \in 1 .. handed
  BY <1>7
<1>10. Rx!sync_pos' = Rx!sync_pos /\ Rx!Running' = Rx!Running
  BY <1>1 DEF Rx!sync_pos, Rx!bits_pos, Rx!Running
<1>11. \A m \in 1 .. Len(got) : \E k \in 1 .. handed' : got[m] = more[k]
  BY <1>1, <1>7, <1>8
<1>12. /\ handed' \in Nat /\ handed' <= Len(more)
       /\ Rx!Running' /\ ~ prev_lost' /\ handed' # 0 => got # <<>> /\ got[Len(got)] = more[handed']
  BY <1>1, <1>5, <1>6, <1>7, <1>8, <1>9, <1>10
<1>13. Taking(more, got)'
  BY <1>1, <1>2, <1>7, <1>10, <1>11, <1>12 DEF Taking
<1>14. Keeping(more, got)'
  BY <1>1, <1>2, <1>7, <1>8, <1>10, KeepingLonger DEF Under
<1> QED
  BY <1>2, <1>3, <1>4, <1>13, <1>14 DEF Under

(* The sender's part holds as long as the sender does nothing.             *)
LEMMA SenderRests ==
  ASSUME NEW off, NEW segs, UNCHANGED sender, Sending(off, segs)
  PROVE  Sending(off, segs)'
BY DEF sender, Sending, Laid, AtUnit, Within, DataAt

(* Every step keeps the invariant.                                         *)
LEMMA InvStep == Inv /\ [Next]_vars => Inv'
<1> SUFFICES ASSUME Inv, [Next]_vars PROVE Inv'
  OBVIOUS
<1>1. CASE Send
  <2> SUFFICES ASSUME NoneStraddled' PROVE \E off, segs, got : Under(off, segs, got)'
    BY DEF Inv
  <2>0. nals' = nals
    BY <1>1 DEF Send, Tx!Packetize, Tx!TooSmall, Tx!Cancel, Tx!FirstFragment, Tx!NextFragment,
                Tx!SingleNal, Tx!NullOctet, Tx!Fail, Tx!EmitFragment
  <2>1. NoneStraddled
    BY <2>0, SameNals
  <2>2. PICK off, segs, got : Under(off, segs, got)
    BY <2>1 DEF Inv
  <2> QED BY <1>1, <2>1, <2>2, SendKeeps
<1>2. CASE Deliver
  <2> SUFFICES ASSUME NoneStraddled' PROVE \E off, segs, got : Under(off, segs, got)'
    BY DEF Inv
  <2>1. UNCHANGED sender /\ nals' = nals
    BY <1>2 DEF Deliver, sender
  <2>2. NoneStraddled
    BY <2>1, SameNals
  <2>3. PICK off, segs, got : Under(off, segs, got)
    BY <2>2 DEF Inv
  <2>4. /\ Sent(nals, payloads, segs) /\ Taking(segs, got) /\ Sending(off, segs)
        /\ Keeping(segs, got)
    BY <2>3 DEF Under, Sending
  <2>5. PICK g : Taking(segs, g)' /\ Handles(segs, got, g)
    BY <1>2, <2>4, DeliverTakes
  <2>6. Sending(off, segs)'
    BY <2>1, <2>4, SenderRests
  <2>7. Keeping(segs, g)'
    <3>1. HandedOver /\ Rx!Running
      BY <1>2 DEF Deliver, HandedOver, sender, Rx!Unpacketize
    <3> QED BY <2>4, <2>5, <3>1, HandlesKeeps
  <2> QED BY <2>5, <2>6, <2>7 DEF Under
<1>3. CASE Lose
  <2> SUFFICES ASSUME NoneStraddled' PROVE \E off, segs, got : Under(off, segs, got)'
    BY DEF Inv
  <2>1. UNCHANGED sender /\ nals' = nals
    BY <1>3 DEF Lose, sender
  <2>2. NoneStraddled
    BY <2>1, SameNals
  <2>3. PICK off, segs, got : Under(off, segs, got)
    BY <2>2 DEF Inv
  <2>4. /\ Sent(nals, payloads, segs) /\ Taking(segs, got) /\ Sending(off, segs)
        /\ Keeping(segs, got)
    BY <2>3 DEF Under, Sending
  <2>5. Taking(segs, got)' /\ Handles(segs, got, got)
    BY <1>3, <2>4, LoseTakes
  <2>6. Sending(off, segs)'
    BY <2>1, <2>4, SenderRests
  <2>7. Keeping(segs, got)'
    <3>1. HandedOver /\ Rx!Running
      BY <1>3 DEF Lose, HandedOver, sender, Rx!Lost
    <3> QED BY <2>4, <2>5, <3>1, HandlesKeeps
  <2> QED BY <2>5, <2>6, <2>7 DEF Under
<1>4. ASSUME NEW pic \in Pictures, NextPicture(pic) PROVE Inv'
  <2>1. Begins' /\ handed' = 0 /\ bits' = <<>>
    BY <1>4, PictureBegins DEF NextPicture, Rx!NextPicture
  <2>2. (Begins /\ handed = 0 /\ bits = <<>>)' => Inv'
    BY BeginsInv, PTL
  <2> QED BY <2>1, <2>2
<1>5. CASE UNCHANGED vars
  <2> SUFFICES ASSUME NoneStraddled' PROVE \E off, segs, got : Under(off, segs, got)'
    BY DEF Inv
  <2>1. /\ UNCHANGED sender /\ nals' = nals /\ handed' = handed /\ bits' = bits
        /\ prev_lost' = prev_lost /\ last_sync_pos' = last_sync_pos
        /\ received_status' = received_status /\ lost' = lost
    BY <1>5 DEF vars, sender, receiver
  <2>2. NoneStraddled
    BY <2>1, SameNals
  <2>3. PICK off, segs, got : Under(off, segs, got)
    BY <2>2 DEF Inv
  <2>4. Sending(off, segs)'
    BY <2>1, <2>3, SenderRests DEF Under
  <2>5. Taking(segs, got)'
    <3>1. Taking(segs, got)
      BY <2>3 DEF Under
    <3> QED BY <2>1, <3>1 DEF Taking, Rx!sync_pos, Rx!bits_pos, Rx!Running
  <2>6. Keeping(segs, got)'
    <3>1. Keeping(segs, got) /\ handed \in Nat
      BY <2>3 DEF Under, Taking
    <3>2. Rx!sync_pos' = Rx!sync_pos /\ Rx!Running' = Rx!Running
      BY <2>1 DEF Rx!sync_pos, Rx!bits_pos, Rx!Running
    <3> QED BY <2>1, <3>1, <3>2, KeepingLonger
  <2> QED BY <2>4, <2>5, <2>6 DEF Under
<1> QED
  BY <1>1, <1>2, <1>3, <1>4, <1>5 DEF Next

(* The invariant holds in every reachable state.                           *)
LEMMA Invariance == Spec => []Inv
<1>1. Init => Inv
  <2> SUFFICES ASSUME Init PROVE Inv
    OBVIOUS
  <2>1. Begins /\ handed = 0 /\ bits = <<>>
    BY InitBegins DEF Init, Rx!Init
  <2> QED BY <2>1, BeginsInv
<1> QED
  BY <1>1, InvStep, PTL DEF Spec

-----------------------------------------------------------------------------
(* The beginning of a NAL unit is a prefix of it.                          *)
LEMMA BeginningIsPrefix ==
  ASSUME NEW S, NEW nal \in Seq(S), NEW u, Beginning(u, nal)
  PROVE  IsPrefix(u, nal) /\ u # <<>>
<1>1. PICK x \in 1 .. Len(nal) : u = SubSeq(nal, 1, x)
  BY DEF Beginning
<1>2. 0 \in Nat /\ x \in Nat /\ x >= 1 /\ 0 + x <= Len(nal) /\ 0 + 1 = 1 /\ 0 + x = x
  BY <1>1
<1>3. u \in Seq(S) /\ Len(u) = x
  BY <1>1, <1>2, SubSeqIs
<1>4. SubSeq(u, 1, Len(u)) = u
  BY <1>3
<1>5. Len(u) <= Len(nal) /\ SubSeq(nal, 1, Len(u)) = u
  BY <1>1, <1>2, <1>3
<1>6. u # <<>>
  BY <1>2, <1>3
<1> QED
  BY <1>4, <1>5, <1>6 DEF IsPrefix

(***************************************************************************)
(* No NAL unit is put together around a hole: whatever is lost, each unit  *)
(* in the receiver's bitstream is one of the picture's or the beginning of *)
(* one, if no NAL unit of the picture is straddled                         *)
(* (pjmedia_h264_unpacketize, h264_packetizer.c:590).                      *)
(***************************************************************************)
THEOREM NoUnitIsSpliced == Spec => []NoSplice
<1>1. Inv => NoSplice
  <2> SUFFICES ASSUME Inv, NoneStraddled, NEW unit \in ToSet(Received)
               PROVE  \E n \in DOMAIN nals : IsPrefix(unit, nals[n].nal)
    BY DEF NoSplice
  <2>1. PICK off, segs, got : Under(off, segs, got)
    BY DEF Inv
  <2>2. Holding(nals, got, bits)
    BY <2>1 DEF Under, Taking
  <2>3. /\ bits \in Seq(Chunk) /\ Len(bits) \in Nat /\ Len(got) = Len(bits) /\ ProperPicture(nals)
        /\ Len(nals) \in Nat /\ DOMAIN nals = 1 .. Len(nals)
    BY <2>2 DEF Holding, ProperPicture
  <2>4. PICK joins : Joins(joins, bits, Len(bits))
    BY <2>3, JoinsExist
  <2>5. Received = joins[Len(bits)]
    BY <2>3, <2>4, UnitsIs DEF Received
  <2>6. CASE Len(bits) = 0
    <3>1. Received = <<>>
      BY <2>4, <2>5, <2>6 DEF Joins, JoinedUp
    <3> QED BY <3>1 DEF ToSet
  <2>7. CASE Len(bits) # 0
    <3>1. Len(bits) \in 1 .. Len(got)
      BY <2>3, <2>7
    <3>2. PICK place : PlacedBy(nals, Received, got[Len(bits)], place)
      BY <2>2, <2>4, <2>5, <3>1, AllPlaced DEF Placed
    <3>3. /\ Received \in Seq(Seq(Byte)) /\ place \in [1 .. Len(Received) -> 1 .. Len(nals)]
          /\ \A i \in 1 .. Len(Received) : Beginning(Received[i], nals[place[i]].nal)
      BY <3>2 DEF PlacedBy
    <3>4. PICK i \in 1 .. Len(Received) : unit = Received[i]
      BY <3>3 DEF ToSet
    <3>5. place[i] \in 1 .. Len(nals) /\ Beginning(unit, nals[place[i]].nal)
      BY <3>3, <3>4
    <3>6. nals[place[i]].nal \in Seq(Byte)
      BY <2>3, <3>5, UnitTypes
    <3>7. IsPrefix(unit, nals[place[i]].nal)
      BY <3>5, <3>6, BeginningIsPrefix
    <3> QED BY <2>3, <3>5, <3>7
  <2> QED BY <2>6, <2>7
<1> QED
  BY <1>1, Invariance, PTL
-----------------------------------------------------------------------------
NalsOf(pic) == [k \in DOMAIN pic |-> pic[k].nal]

(* An empty bitstream has no units.                                        *)
LEMMA UnitsEmpty == Units(<<>>) = <<>>
<1>1. <<>> \in Seq(Chunk) /\ Len(<<>>) = 0
  OBVIOUS
<1>2. PICK joins : Joins(joins, <<>>, Len(<<>>))
  BY <1>1, JoinsExist
<1>3. Units(<<>>) = joins[0]
  BY <1>1, <1>2, UnitsIs
<1> QED
  BY <1>2, <1>3 DEF Joins, JoinedUp

(* The units in more that are not in units.                                *)
Behind(more, units) == SubSeq(more, Len(units) + 1, Len(more))

(* They arrive together, the last of them whole.                           *)
ArriveTogether(pic, more, units) ==
  /\ Behind(more, units) # <<>>
  /\ units \o Behind(more, units) = more
  /\ Last(Behind(more, units)) \in ToSet(NalsOf(pic))
  /\ Transfer!InOrder(more, NalsOf(pic))

(* Units that have grown by a whole one arrive as NalTransfer has it.      *)
LEMMA GrownArrive ==
  ASSUME NEW pic, ProperPicture(pic), NEW units \in Seq(Seq(Byte)), NEW more \in Seq(Seq(Byte)),
         Grown(more, units), NEW s, Placed(pic, more, s), Whole(pic, s)
  PROVE  ArriveTogether(pic, more, units)
<1> DEFINE new == Behind(more, units)
<1>1. PICK place : PlacedBy(pic, more, s, place)
  BY DEF Placed
<1>2. PICK a, b : a = Len(units) /\ b = Len(more)
  OBVIOUS
<1>3. /\ a \in Nat /\ b \in Nat /\ a < b /\ a <= b /\ \A i \in 1 .. a : more[i] = units[i]
      /\ DOMAIN more = 1 .. b /\ Len(pic) \in Nat /\ DOMAIN pic = 1 .. Len(pic)
  BY <1>2 DEF Grown, ProperPicture
<1>4. /\ place \in [1 .. b -> 1 .. Len(pic)]
      /\ \A i \in 1 .. b : \A j \in 1 .. b : i < j => place[i] < place[j]
      /\ \A i \in 1 .. b : Beginning(more[i], pic[place[i]].nal)
      /\ place[b] = s.unit
      /\ more[b] = SubSeq(pic[s.unit].nal, 1, s.to)
  BY <1>1, <1>2 DEF PlacedBy
<1>5. b \in 1 .. b /\ s.unit \in 1 .. Len(pic)
  <2>1. b \in 1 .. b
    BY <1>3
  <2> QED BY <1>4, <2>1
<1>6. more[b] = pic[s.unit].nal
  <2>1. pic[s.unit].nal \in Seq(Byte) /\ s.to = Len(pic[s.unit].nal)
    BY <1>5, UnitTypes DEF Whole, NalLen
  <2> QED BY <1>4, <2>1
<1>7. PICK m : m = b - a
  OBVIOUS
<1>8. m \in Nat /\ m >= 1 /\ a + m = b /\ m \in 1 .. m
  BY <1>3, <1>7
<1>9. new = [i \in 1 .. m |-> more[a + i]] /\ new \in Seq(Seq(Byte)) /\ Len(new) = m
  <2>1. a + m <= Len(more) /\ new = SubSeq(more, a + 1, a + m)
    <3>1. Len(more) = a + m /\ Len(units) = a
      BY <1>2, <1>8
    <3>2. new = SubSeq(more, a + 1, a + m)
      BY <3>1 DEF Behind
    <3>3. a + m <= Len(more)
      BY <1>3, <1>8, <3>1
    <3> QED BY <3>2, <3>3
  <2> QED BY <1>3, <1>8, <2>1, SubSeqIs
<1>10. new # <<>>
  <2> SUFFICES ASSUME new = <<>> PROVE FALSE
    OBVIOUS
  <2>1. Len(new) = 0
    OBVIOUS
  <2>2. Len(new) = m
    BY <1>9
  <2> HIDE DEF new
  <2> QED BY <1>8, <2>1, <2>2
<1>11. Last(new) \in ToSet(NalsOf(pic))
  <2>1. Last(new) = more[b]
    BY <1>8, <1>9 DEF Last
  <2>2. Last(new) = NalsOf(pic)[s.unit] /\ s.unit \in DOMAIN NalsOf(pic)
    BY <1>3, <1>5, <1>6, <2>1 DEF NalsOf
  <2> QED BY <2>2 DEF ToSet
<1>12. units \o new = more
  <2>1. SubSeq(more, 1, b) = more
    BY <1>2
  <2>2. SubSeq(more, 1, a) \o SubSeq(more, a + 1, b) = SubSeq(more, 1, b)
    <3>1. b <= Len(more)
      BY <1>2, <1>3
    <3> QED BY <1>3, <3>1, SplitSeq
  <2>3. SubSeq(more, 1, a) = units
    <3>1. SameElements(more, 0, units, 0, a)
      <4>1. \A i \in 1 .. a : 0 + i = i
        BY <1>3
      <4> QED BY <1>3, <4>1 DEF SameElements
    <3>2. 0 \in Nat /\ 0 + a <= Len(units) /\ 0 + a <= Len(more) /\ 0 + 1 = 1 /\ 0 + a = a
      BY <1>2, <1>3
    <3>3. SubSeq(more, 0 + 1, 0 + a) = SubSeq(units, 0 + 1, 0 + a)
      <4>1. SameParts(more, 0, units, 0, a)
        BY <1>3, <3>1, <3>2, SubSeqSame
      <4> QED BY <4>1 DEF SameParts
    <3>4. SubSeq(units, 1, a) = units
      BY <1>2
    <3> QED BY <3>2, <3>3, <3>4
  <2> QED BY <1>2, <2>1, <2>2, <2>3 DEF Behind
<1>13. Transfer!InOrder(more, NalsOf(pic))
  <2>1. DOMAIN NalsOf(pic) = 1 .. Len(pic)
    BY <1>3 DEF NalsOf
  <2>2. place \in [DOMAIN more -> DOMAIN NalsOf(pic)]
    BY <1>3, <1>4, <2>1
  <2>3. \A i, j \in DOMAIN more : i < j => place[i] < place[j]
    BY <1>3, <1>4
  <2>4. \A i \in DOMAIN more : more[i] # <<>> /\ IsPrefix(more[i], NalsOf(pic)[place[i]])
    <3> TAKE i \in DOMAIN more
    <3>1. i \in 1 .. b /\ place[i] \in 1 .. Len(pic)
      BY <1>3, <1>4
    <3>2. NalsOf(pic)[place[i]] = pic[place[i]].nal
      BY <1>3, <3>1 DEF NalsOf
    <3>3. Beginning(more[i], pic[place[i]].nal) /\ pic[place[i]].nal \in Seq(Byte)
      BY <1>4, <3>1, UnitTypes
    <3>4. IsPrefix(more[i], pic[place[i]].nal) /\ more[i] # <<>>
      BY <3>3, BeginningIsPrefix
    <3> QED BY <3>2, <3>4
  <2>5. \E p \in [DOMAIN more -> DOMAIN NalsOf(pic)] :
          /\ \A i, j \in DOMAIN more : i < j => p[i] < p[j]
          /\ \A i \in DOMAIN more : more[i] # <<>> /\ IsPrefix(more[i], NalsOf(pic)[p[i]])
    BY <2>2, <2>3, <2>4
  <2> QED BY <2>5 DEF Transfer!InOrder, IsPrefix, Transfer!IsPrefix
<1> QED
  BY <1>10, <1>11, <1>12, <1>13 DEF ArriveTogether

(* A new sync point lets units arrive.                                     *)
LEMMA SyncedArrives ==
  ASSUME NEW segs, NEW got, Taking(segs, got), NEW g, Taking(segs, g)', nals' = nals, Synced(g)
  PROVE  ArriveTogether(nals, Completed', Completed)
<1>1. PICK y, n, b, c : y = Rx!sync_pos /\ n = Len(g) /\ b = bits' /\ c = bits
  OBVIOUS
<1>2. /\ Rx!sync_pos' = n /\ y < n /\ (y # 0 => Whole(nals, g[y])) /\ Whole(nals, g[n])
      /\ SubSeq(b, 1, y) = SubSeq(c, 1, y)
  BY <1>1 DEF Synced
<1>3. y \in Nat
  <2>1. Len(got) \in Nat
    BY DEF Taking, Holding
  <2> QED BY <1>1, <2>1 DEF Taking
<1>4. Holding(nals, g, b)
  <2>1. Holding(nals', g, bits')
    BY DEF Taking
  <2> QED BY <1>1, <2>1
<1>5. ProperPicture(nals) /\ b \in Seq(Chunk) /\ Len(b) = n /\ n \in Nat
  BY <1>1, <1>4 DEF Holding
<1>6. PICK joins : Joins(joins, b, Len(b))
  BY <1>5, JoinsExist
<1>7. /\ y \in 0 .. n /\ n \in 0 .. n /\ n \in 1 .. n /\ n \in y + 1 .. n
  BY <1>2, <1>3, <1>5
<1>8. Completed = joins[y]
  <2>1. Units(SubSeq(b, 1, y)) = joins[y]
    BY <1>5, <1>6, <1>7, UnitsOfPrefix
  <2> QED BY <1>1, <1>2, <2>1 DEF Completed
<1>9. Completed' = joins[n]
  <2>1. Units(SubSeq(b, 1, n)) = joins[n]
    BY <1>5, <1>6, <1>7, UnitsOfPrefix
  <2>2. Completed' = Units(SubSeq(bits', 1, Rx!sync_pos'))
    BY DEF Completed, Units, Join
  <2> QED BY <1>1, <1>2, <2>1, <2>2
<1>10. joins[y] \in Seq(Seq(Byte)) /\ joins[n] \in Seq(Seq(Byte))
  BY <1>5, <1>6, <1>7 DEF Joins
<1>11. Placed(nals, joins[n], g[n])
  BY <1>1, <1>4, <1>6, <1>7, AllPlaced
<1>12. Grown(joins[n], joins[y])
  BY <1>1, <1>2, <1>4, <1>6, <1>7, AllGrown
<1>13. ArriveTogether(nals, joins[n], joins[y])
  BY <1>2, <1>5, <1>10, <1>11, <1>12, GrownArrive
<1> QED
  BY <1>8, <1>9, <1>13

(* Every step of the session is one of NalTransfer, or none.               *)
LEMMA TransferStep ==
  ASSUME Inv, NoneStraddled, [Next]_vars
  PROVE  [Transfer!Next]_(Transfer!vars)
<1>1. \A pic : NalsOf(pic) = [k \in DOMAIN pic |-> pic[k].nal]
  BY DEF NalsOf
<1>2. Tx!NalBytes = NalsOf(nals) /\ Tx!NalBytes' = NalsOf(nals')
  BY DEF Tx!NalBytes, NalsOf
<1>3. ASSUME nals' = nals, Kept PROVE UNCHANGED Transfer!vars
  BY <1>2, <1>3 DEF Transfer!vars, Kept
<1>4. PICK off, segs, got : Under(off, segs, got)
  BY DEF Inv
<1>5. Sent(nals, payloads, segs) /\ Taking(segs, got)
  BY <1>4 DEF Under, Sending
<1>6. ASSUME bits' = bits, last_sync_pos' = last_sync_pos PROVE Kept
  <2>1. Rx!sync_pos' = Rx!sync_pos
    BY <1>6 DEF Rx!sync_pos, Rx!bits_pos
  <2>2. Completed' = Units(SubSeq(bits', 1, Rx!sync_pos'))
    BY DEF Completed, Units, Join
  <2> QED BY <1>6, <2>1, <2>2 DEF Kept, Completed
<1>7. CASE Send
  <2>1. nals' = nals
    BY <1>4, <1>7, SendKeeps
  <2>2. bits' = bits /\ last_sync_pos' = last_sync_pos
    BY <1>7 DEF Send, receiver
  <2> QED BY <1>3, <1>6, <2>1, <2>2
<1>8. CASE Deliver
  <2>1. nals' = nals
    BY <1>8 DEF Deliver, sender
  <2>2. PICK g : Taking(segs, g)' /\ (Kept \/ Synced(g))
    BY <1>5, <1>8, DeliverTakes
  <2>3. CASE Kept
    BY <1>3, <2>1, <2>3
  <2>4. CASE Synced(g)
    <3>1. ArriveTogether(nals, Completed', Completed)
      BY <1>5, <2>1, <2>2, <2>4, SyncedArrives
    <3>2. Transfer!News = Behind(Completed', Completed)
      BY DEF Transfer!News, Behind
    <3>3. /\ Transfer!News # <<>> /\ Completed' = Completed \o Transfer!News
          /\ Last(Transfer!News) \in ToSet(Tx!NalBytes)
          /\ Transfer!InOrder(Completed \o Transfer!News, Tx!NalBytes)
      BY <1>2, <3>1, <3>2 DEF ArriveTogether
    <3>4. Tx!NalBytes' = Tx!NalBytes
      BY <1>2, <2>1
    <3>5. Transfer!Arrive(Transfer!News)
      BY <3>3, <3>4 DEF Transfer!Arrive, Last, ToSet, Transfer!Last, Transfer!ToSet
    <3> QED BY <3>5 DEF Transfer!Next
  <2> QED BY <2>2, <2>3, <2>4
<1>9. CASE Lose
  <2>1. nals' = nals
    BY <1>9 DEF Lose, sender
  <2> QED BY <1>3, <1>5, <1>9, <2>1, LoseTakes
<1>10. ASSUME NEW pic \in Pictures, NextPicture(pic) PROVE Transfer!Next
  <2>1. nals' = pic /\ bits' = <<>>
    BY <1>10 DEF NextPicture, Tx!h264_test, Rx!NextPicture
  <2>2. Tx!NalBytes' = [k \in DOMAIN pic |-> pic[k].nal]
    BY <1>1, <1>2, <2>1
  <2>3. Completed' = <<>>
    <3>1. Rx!sync_pos' = 0
      <4>1. Len(bits') = 0
        BY <2>1
      <4> QED BY <4>1 DEF Rx!sync_pos, Rx!bits_pos
    <3>2. Completed' = Units(SubSeq(bits', 1, Rx!sync_pos'))
      BY DEF Completed, Units, Join
    <3>3. SubSeq(<<>>, 1, 0) = <<>>
      OBVIOUS
    <3> QED BY <2>1, <3>1, <3>2, <3>3, UnitsEmpty
  <2>4. Transfer!NextPicture([k \in DOMAIN pic |-> pic[k].nal])
    BY <2>2, <2>3 DEF Transfer!NextPicture
  <2> QED BY <2>4 DEF Transfer!Next
<1>11. CASE UNCHANGED vars
  <2>1. nals' = nals /\ bits' = bits /\ last_sync_pos' = last_sync_pos
    BY <1>11 DEF vars, sender, receiver
  <2> QED BY <1>3, <1>6, <2>1
<1> QED
  BY <1>7, <1>8, <1>9, <1>10, <1>11 DEF Next

(***************************************************************************)
(* The session implements NalTransfer as long as no NAL unit is straddled: *)
(* complete NAL units arrive in the order of the picture, each of them     *)
(* whole or, when the rest of it was lost, the beginning of one, and what  *)
(* has arrived is never taken back (pjmedia_h264_unpacketize,              *)
(* h264_packetizer.c:601).                                                 *)
(***************************************************************************)
THEOREM SessionTransfers == Spec /\ []NoneStraddled => TransferSpec
<1>1. Init => Transfer!Init
  <2> SUFFICES ASSUME Init PROVE Transfer!Init
    OBVIOUS
  <2>1. nals = <<>> /\ bits = <<>>
    BY DEF Init, Tx!Init, Rx!Init
  <2>2. Tx!NalBytes = <<>>
    BY <2>1 DEF Tx!NalBytes
  <2>3. Rx!sync_pos = 0
    BY <2>1 DEF Rx!sync_pos, Rx!bits_pos
  <2>4. SubSeq(<<>>, 1, 0) = <<>>
    OBVIOUS
  <2>5. Completed = <<>>
    BY <2>1, <2>3, <2>4, UnitsEmpty DEF Completed
  <2> QED BY <2>2, <2>5 DEF Transfer!Init
<1> QED
  BY <1>1, TransferStep, Invariance, PTL DEF Spec, TransferSpec, Transfer!Spec

(* Pictures of one NAL unit each: none of them is straddled.               *)
LEMMA NeverStraddled ==
  ASSUME \A pic \in Pictures : Len(pic) = 1
  PROVE  Spec => []NoneStraddled
<1> DEFINE Few == nals = <<>> \/ Len(nals) = 1
<1>1. Init => Few
  BY DEF Init, Tx!Init
<1>2. Few /\ [Next]_vars => Few'
  <2> SUFFICES ASSUME Few, [Next]_vars PROVE Few'
    OBVIOUS
  <2>1. CASE nals' = nals
    BY <2>1
  <2>2. ASSUME NEW pic \in Pictures, NextPicture(pic) PROVE Few'
    <3>1. nals' = pic
      BY <2>2 DEF NextPicture, Tx!h264_test
    <3> QED BY <2>2, <3>1
  <2>3. CASE Send
    <3>1. nals' = nals
      BY <2>3 DEF Send, Tx!Packetize, Tx!TooSmall, Tx!Cancel, Tx!FirstFragment, Tx!NextFragment,
                  Tx!SingleNal, Tx!NullOctet, Tx!Fail, Tx!EmitFragment
    <3> QED BY <2>1, <3>1
  <2>4. CASE Deliver \/ Lose \/ UNCHANGED vars
    <3>1. nals' = nals
      BY <2>4 DEF Deliver, Lose, vars, sender
    <3> QED BY <2>1, <3>1
  <2> QED BY <2>2, <2>3, <2>4 DEF Next
<1>3. Few => NoneStraddled
  <2> SUFFICES ASSUME Few PROVE NoneStraddled
    OBVIOUS
  <2>1. Len(nals) = 0 \/ Len(nals) = 1
    BY DEF Few
  <2>2. ASSUME NEW k \in 1 .. Len(nals) - 1 PROVE FALSE
    <3> DEFINE length == Len(nals)
    <3>1. length \in {0, 1}
      BY <2>1
    <3> HIDE DEF length
    <3>2. 1 .. length - 1 = {}
      BY <3>1
    <3> QED BY <3>2 DEF length
  <2> QED BY <2>2 DEF NoneStraddled
<1> HIDE DEF Few
<1> QED
  BY <1>1, <1>2, <1>3, PTL DEF Spec

(***************************************************************************)
(* main hands h264_test one NAL unit at a time (UnitTest.c:228): then none *)
(* is straddled, and the session implements NalTransfer as it stands.      *)
(***************************************************************************)
THEOREM UnitByUnit ==
  ASSUME \A pic \in Pictures : Len(pic) = 1
  PROVE  Spec => TransferSpec
BY NeverStraddled, SessionTransfers, PTL
-----------------------------------------------------------------------------
(* The whole of a sequence.                                                *)
LEMMA AllOf ==
  ASSUME NEW S, NEW s \in Seq(S)
  PROVE  SubSeq(s, 1, Len(s)) = s
  OBVIOUS

(* A NAL unit of which the receiver holds the end is in its picture.       *)
LEMMA UnitArrives ==
  ASSUME NEW got, Holding(nals, got, bits), NEW m \in 1 .. Len(got), Whole(nals, got[m])
  PROVE  nals[got[m].unit].nal \in ToSet(Received)
<1>p. PICK n, u : n = Len(got) /\ u = nals[got[m].unit].nal
  OBVIOUS
<1>1. /\ bits \in Seq(Chunk) /\ Len(bits) = n /\ n \in Nat /\ ProperPicture(nals)
      /\ m \in 1 .. n /\ m \in 0 .. n /\ n \in 0 .. n
  <2>1. bits \in Seq(Chunk) /\ Len(bits) = n /\ ProperPicture(nals) /\ got \in Seq(Segment(nals))
    BY <1>p DEF Holding
  <2>2. n \in Nat
    BY <1>p, <2>1
  <2> QED BY <1>p, <2>1, <2>2
<1>2. PICK joins : Joins(joins, bits, Len(bits))
  BY <1>1, JoinsExist
<1>3. Received = joins[n]
  BY <1>1, <1>2, UnitsIs DEF Received
<1>4. PICK k : k = Len(joins[m])
  OBVIOUS
<1>5. k \in 1 .. k /\ k \in Nat /\ joins[m][k] = u
  <2>1. PICK place : PlacedBy(nals, joins[m], got[m], place)
    BY <1>1, <1>2, AllPlaced DEF Placed
  <2>2. /\ joins[m] \in Seq(Seq(Byte)) /\ joins[m] # <<>>
        /\ joins[m][k] = SubSeq(u, 1, got[m].to)
    BY <1>4, <1>p, <2>1 DEF PlacedBy
  <2>3. got[m].unit \in 1 .. Len(nals)
    <3>1. Holds(nals, got[m], bits[m])
      BY DEF Holding
    <3> QED BY <3>1 DEF Holds, Segment
  <2>4. u \in Seq(Byte) /\ got[m].to = Len(u)
    BY <1>1, <1>p, <2>3, UnitTypes DEF Whole, NalLen
  <2>5. joins[m][k] = u
    BY <2>2, <2>4, AllOf
  <2> QED BY <1>4, <2>2, <2>5
<1>6. joins[n] \in Seq(Seq(Byte))
  BY <1>1, <1>2 DEF Joins
<1>7. k \in 1 .. Len(joins[n]) /\ joins[n][k] = u
  <2>1. CASE m = n
    BY <1>4, <1>5, <2>1
  <2>2. CASE m # n
    <3>1. n \in m + 1 .. n /\ m \in 0 .. Len(got)
      BY <1>1, <1>p, <2>2
    <3>2. Grown(joins[n], joins[m])
      BY <1>2, <1>p, <3>1, AllGrown
    <3>3. /\ Len(joins[n]) \in Nat /\ k < Len(joins[n])
          /\ \A i \in 1 .. k : joins[n][i] = joins[m][i]
      BY <1>4, <3>2 DEF Grown
    <3> QED BY <1>5, <3>3
  <2> QED BY <2>1, <2>2
<1> QED
  BY <1>3, <1>6, <1>7, <1>p DEF ToSet

(* The units are those of the picture up to the end of segment s.          *)
Filled(pic, units, s) ==
  /\ Len(units) = s.unit
  /\ \A i \in 1 .. s.unit - 1 : units[i] = pic[i].nal
  /\ units[s.unit] = SubSeq(pic[s.unit].nal, 1, s.to)

(* The first segment of a picture fills its beginning.                     *)
LEMMA FillFirst ==
  ASSUME NEW pic, ProperPicture(pic), NEW s, NEW p, Holds(pic, s, p), s.unit = 1, s.from = 0
  PROVE  Filled(pic, Join(<<>>, p), s)
<1>1. p.start /\ p.data = SubSeq(pic[s.unit].nal, 1, s.to) /\ p \in Chunk
  <2>1. p.data = SubSeq(pic[s.unit].nal, s.from + 1, s.to) /\ p.start = (s.from = 0)
    BY DEF Holds
  <2>2. s.from + 1 = 1
    OBVIOUS
  <2> QED BY <2>1, <2>2, HoldsChunk
<1>2. <<>> \in Seq(Seq(Byte)) /\ Len(<<>>) = 0 /\ 0 + 1 = 1
  OBVIOUS
<1>3. Added(Join(<<>>, p), <<>>, p.data)
  BY <1>1, <1>2, JoinIs
<1>4. \A i \in 1 .. 1 - 1 : FALSE
  OBVIOUS
<1> QED
  BY <1>1, <1>2, <1>3, <1>4 DEF Added, Filled

(* A segment that follows the one before it fills in what comes next.      *)
LEMMA FillMore ==
  ASSUME NEW pic, ProperPicture(pic), NEW r, NEW q, Holds(pic, r, q),
         NEW s, NEW p, Holds(pic, s, p), Follows(pic, r, s),
         NEW units \in Seq(Seq(Byte)), Filled(pic, units, r)
  PROVE  Filled(pic, Join(units, p), s)
<1>1. /\ r.unit \in 1 .. Len(pic) /\ r.to \in Nat /\ r.to <= NalLen(pic, r.unit)
      /\ s.unit \in 1 .. Len(pic) /\ s.from \in Nat /\ s.to \in Nat /\ s.from < s.to
      /\ s.to <= NalLen(pic, s.unit) /\ Len(pic) \in Nat
      /\ r.from < r.to /\ r.from \in Nat
  BY DEF Holds, Segment, ProperPicture
<1>2. /\ p.start = (s.from = 0) /\ p.data = SubSeq(pic[s.unit].nal, s.from + 1, s.to)
      /\ p \in Chunk
  <2>1. p.start = (s.from = 0) /\ p.data = SubSeq(pic[s.unit].nal, s.from + 1, s.to)
    BY DEF Holds
  <2> QED BY <2>1, HoldsChunk
<1>3. /\ Len(units) = r.unit
      /\ \A i \in 1 .. r.unit - 1 : units[i] = pic[i].nal
      /\ units[r.unit] = SubSeq(pic[r.unit].nal, 1, r.to)
      /\ units # <<>>
  <2>1. Len(units) = r.unit
    BY DEF Filled
  <2>2. units # <<>>
    BY <1>1, <2>1
  <2> QED BY <2>2 DEF Filled
<1>p. PICK j, n : j = Join(units, p) /\ n = r.unit
  OBVIOUS
<1>4. n \in Nat /\ n >= 1
  BY <1>1, <1>p
<1>5. CASE Whole(pic, r)
  <2>1. s.from = 0 /\ s.unit = n + 1
    BY <1>5, <1>p DEF Follows
  <2>2. Added(j, units, p.data)
    BY <1>2, <1>p, <2>1, JoinIs
  <2>3. Len(j) = n + 1 /\ (\A i \in 1 .. n : j[i] = units[i]) /\ j[n + 1] = p.data
    BY <1>3, <1>p, <2>2 DEF Added
  <2>4. p.data = SubSeq(pic[s.unit].nal, 1, s.to)
    <3>1. s.from + 1 = 1
      BY <2>1
    <3> QED BY <1>2, <3>1
  <2>5. units[n] = pic[n].nal
    <3>1. pic[n].nal \in Seq(Byte) /\ r.to = Len(pic[n].nal)
      BY <1>1, <1>5, <1>p, UnitTypes DEF Whole, NalLen
    <3> QED BY <1>3, <1>p, <3>1, AllOf
  <2>6. \A i \in 1 .. (n + 1) - 1 : j[i] = pic[i].nal
    <3> TAKE i \in 1 .. (n + 1) - 1
    <3>1. i \in 1 .. n /\ (i \in 1 .. n - 1 \/ i = n)
      BY <1>4
    <3> QED BY <1>3, <1>p, <2>3, <2>5, <3>1
  <2> QED BY <1>p, <2>1, <2>3, <2>4, <2>6 DEF Filled
<1>6. CASE ~ Whole(pic, r)
  <2>1. s.unit = n /\ s.from = r.to /\ s.from # 0
    <3>1. s.unit = n /\ s.from = r.to
      BY <1>6, <1>p DEF Follows
    <3> QED BY <1>1, <3>1
  <2>2. Extended(j, units, p.data)
    BY <1>2, <1>3, <1>p, <2>1, JoinIs
  <2>3. /\ Len(j) = n /\ (\A i \in 1 .. n - 1 : j[i] = units[i])
        /\ j[n] = units[n] \o p.data
    BY <1>3, <1>p, <2>2 DEF Extended
  <2>4. PICK u, a, b : u = pic[n].nal /\ a = r.to /\ b = s.to
    OBVIOUS
  <2>5. u \in Seq(Byte) /\ a \in Nat /\ b \in Nat /\ a <= b /\ b <= Len(u)
    <3>1. u \in Seq(Byte) /\ Len(u) = NalLen(pic, n)
      BY <1>1, <1>p, <2>4, UnitTypes DEF NalLen
    <3> QED BY <1>1, <2>1, <2>4, <3>1
  <2>6. j[n] = SubSeq(u, 1, a) \o SubSeq(u, a + 1, b)
    BY <1>2, <1>3, <1>p, <2>1, <2>3, <2>4
  <2>7. j[n] = SubSeq(u, 1, b)
    BY <2>5, <2>6, SplitSeq
  <2>8. \A i \in 1 .. n - 1 : j[i] = pic[i].nal
    BY <1>3, <1>p, <2>3
  <2> QED BY <1>p, <2>1, <2>3, <2>4, <2>7, <2>8 DEF Filled
<1> QED
  BY <1>5, <1>6

(* When the receiver holds every segment, it has filled its picture up to  *)
(* each of them.                                                           *)
LEMMA AllFilled ==
  ASSUME NEW pic, NEW got, NEW pieces, Holding(pic, got, pieces),
         NEW joins, Joins(joins, pieces, Len(pieces)),
         got # <<>> => got[1].unit = 1,
         \A m \in 1 .. Len(got) - 1 : Follows(pic, got[m], got[m+1])
  PROVE  \A m \in 1 .. Len(got) : Filled(pic, joins[m], got[m])
<1> DEFINE n == Len(got)
           I == {m \in Nat : m + 1 <= n => Filled(pic, joins[m+1], got[m+1])}
<1>1. /\ ProperPicture(pic) /\ n \in Nat /\ n = Len(pieces)
      /\ \A m \in 1 .. n : Holds(pic, got[m], pieces[m])
      /\ got # <<>> => got[1].from = 0
  BY DEF Holding
<1>2. /\ joins[0] = <<>>
      /\ \A k \in 0 .. n : joins[k] \in Seq(Seq(Byte))
      /\ \A k \in 0 .. n - 1 : joins[k+1] = Join(joins[k], pieces[k+1])
  BY <1>1 DEF Joins, JoinedUp
<1>3. 0 \in I
  <2> SUFFICES ASSUME 0 + 1 <= n PROVE Filled(pic, joins[0 + 1], got[0 + 1])
    OBVIOUS
  <2>1. 0 + 1 = 1 /\ 1 \in 1 .. n /\ 0 \in 0 .. n - 1
    BY <1>1
  <2>2. got # <<>>
    BY <1>1, <2>1
  <2>3. joins[1] = Join(<<>>, pieces[1])
    BY <1>2, <2>1
  <2>4. Holds(pic, got[1], pieces[1]) /\ got[1].unit = 1 /\ got[1].from = 0
    BY <1>1, <2>1, <2>2
  <2> QED BY <1>1, <2>1, <2>3, <2>4, FillFirst
<1>4. ASSUME NEW m \in Nat, m \in I PROVE m + 1 \in I
  <2> SUFFICES ASSUME (m + 1) + 1 <= n PROVE Filled(pic, joins[(m + 1) + 1], got[(m + 1) + 1])
    OBVIOUS
  <2>1. PICK k : k = m + 1
    OBVIOUS
  <2>2. /\ k \in 1 .. n - 1 /\ k \in 1 .. n /\ k + 1 \in 1 .. n /\ k \in 0 .. n - 1
        /\ k \in 0 .. n /\ m + 1 <= n
    BY <1>1, <2>1
  <2>3. Filled(pic, joins[k], got[k])
    BY <1>4, <2>1, <2>2
  <2>4. joins[k+1] = Join(joins[k], pieces[k+1]) /\ joins[k] \in Seq(Seq(Byte))
    BY <1>2, <2>2
  <2>5. Holds(pic, got[k], pieces[k]) /\ Holds(pic, got[k+1], pieces[k+1])
    BY <1>1, <2>2
  <2>6. Follows(pic, got[k], got[k+1])
    BY <2>2
  <2>7. Filled(pic, joins[k+1], got[k+1])
    BY <1>1, <2>3, <2>4, <2>5, <2>6, FillMore
  <2> QED BY <2>1, <2>7
<1>5. Nat \subseteq I
  <2> HIDE DEF I
  <2> QED BY <1>3, <1>4, Lists!SetInduction
<1>6. ASSUME NEW m \in 1 .. n PROVE Filled(pic, joins[m], got[m])
  <2>1. PICK j : j = m - 1
    OBVIOUS
  <2>2. j \in Nat /\ j + 1 = m /\ j + 1 <= n
    BY <1>1, <2>1
  <2>3. j + 1 <= n => Filled(pic, joins[j+1], got[j+1])
    BY <1>5, <2>2
  <2> QED BY <2>2, <2>3
<1> QED
  BY <1>6

(* A receiver that holds all of the segments has the picture.              *)
LEMMA AllArrive ==
  ASSUME NEW off, NEW segs, NEW got, Sending(off, segs), Taking(segs, got),
         pos = Len(picture), Len(got) = Len(segs), \A m \in 1 .. Len(segs) : got[m] = segs[m]
  PROVE  Received = Tx!NalBytes
<1>p. PICK n : n = Len(segs)
  OBVIOUS
<1>1. /\ Sent(nals, payloads, segs) /\ Holding(nals, got, bits) /\ Len(got) = n
      /\ ProperPicture(nals) /\ bits \in Seq(Chunk) /\ Len(bits) = n /\ n \in Nat
      /\ \A m \in 1 .. n : got[m] = segs[m]
  <2>1. /\ Sent(nals, payloads, segs) /\ Holding(nals, got, bits)
        /\ ProperPicture(nals) /\ bits \in Seq(Chunk) /\ Len(got) = Len(bits)
    BY DEF Sending, Taking, Holding
  <2>2. Len(bits) \in Nat
    BY <2>1
  <2> QED BY <1>p, <2>1, <2>2
<1>2. PICK joins : Joins(joins, bits, Len(bits))
  BY <1>1, JoinsExist
<1>3. Received = joins[n] /\ joins[n] \in Seq(Seq(Byte)) /\ joins[0] = <<>>
  <2>1. n \in 0 .. n
    BY <1>1
  <2> QED BY <1>1, <1>2, <2>1, UnitsIs DEF Received, Joins, JoinedUp
<1>4. Tx!NalBytes = [k \in 1 .. Len(nals) |-> nals[k].nal] /\ Len(nals) \in Nat
  <2>1. DOMAIN nals = 1 .. Len(nals) /\ Len(nals) \in Nat
    BY <1>1 DEF ProperPicture
  <2> QED BY <2>1 DEF Tx!NalBytes
<1>5. Received = [k \in 1 .. Len(Received) |-> Received[k]]
  <2>1. \A w \in Seq(Seq(Byte)) : w = [k \in 1 .. Len(w) |-> w[k]]
    OBVIOUS
  <2> QED BY <1>3, <2>1
<1>6. SUFFICES Len(Received) = Len(nals) /\ \A k \in 1 .. Len(nals) : Received[k] = nals[k].nal
  BY <1>4, <1>5
<1>7. CASE n = 0
  <2>1. segs = <<>>
    <3>1. segs \in Seq(Segment(nals))
      BY <1>1 DEF Sent
    <3> QED BY <1>7, <1>p, <3>1
  <2>2. Len(nals) = 0
    BY <2>1, SentToTheEnd
  <2>3. Len(Received) = 0
    BY <1>3, <1>7
  <2>4. \A k \in 1 .. 0 : FALSE
    OBVIOUS
  <2> QED BY <2>2, <2>3, <2>4
<1>8. CASE n # 0
  <2>1. n \in 1 .. n /\ segs # <<>> /\ 1 \in 1 .. n /\ got # <<>>
    BY <1>1, <1>8, <1>p
  <2>2. got[1].unit = 1
    BY <1>1, <2>1 DEF Sent
  <2>3. \A m \in 1 .. Len(got) - 1 : Follows(nals, got[m], got[m+1])
    <3> TAKE m \in 1 .. Len(got) - 1
    <3>1. m \in 1 .. n /\ m + 1 \in 1 .. n /\ m \in 1 .. Len(segs) - 1
      BY <1>1, <1>p
    <3>2. Follows(nals, segs[m], segs[m+1])
      BY <3>1 DEF Sent, Sending
    <3> QED BY <1>1, <3>1, <3>2
  <2>4. Filled(nals, joins[n], got[n])
    BY <1>1, <1>2, <2>1, <2>2, <2>3, AllFilled
  <2>5. segs[n].unit = Len(nals) /\ Whole(nals, segs[n])
    BY <1>p, <2>1, SentToTheEnd
  <2>6. got[n].unit = Len(nals) /\ got[n].to = NalLen(nals, Len(nals))
    BY <1>1, <2>1, <2>5 DEF Whole
  <2>7. /\ Len(Received) = Len(nals)
        /\ \A i \in 1 .. Len(nals) - 1 : Received[i] = nals[i].nal
        /\ Received[Len(nals)] = SubSeq(nals[Len(nals)].nal, 1, NalLen(nals, Len(nals)))
    BY <1>3, <2>4, <2>6 DEF Filled
  <2>8. Len(nals) \in 1 .. Len(nals)
    <3>1. segs[n].unit \in 1 .. Len(nals)
      BY <1>1, <1>p, <2>1, UnitOfNext
    <3> QED BY <2>5, <3>1
  <2>9. Received[Len(nals)] = nals[Len(nals)].nal
    <3>1. nals[Len(nals)].nal \in Seq(Byte)
      BY <1>1, <2>8, UnitTypes
    <3> QED BY <2>7, <3>1, AllOf DEF NalLen
  <2>10. \A k \in 1 .. Len(nals) : k \in 1 .. Len(nals) - 1 \/ k = Len(nals)
    BY <1>4
  <2> QED BY <2>7, <2>9, <2>10
<1> QED
  BY <1>7, <1>8

(***************************************************************************)
(* What the invariant says when everything has left the channel: every NAL *)
(* unit that lost none of its payloads has arrived.                        *)
(***************************************************************************)
LEMMA InvArrives ==
  ASSUME Inv, NoneStraddled, Rx!Running, LongUnits(nals), Finished
  PROVE  /\ \A n \in DOMAIN nals : Survives(n) => nals[n].nal \in ToSet(Received)
         /\ lost = {} => Received = Tx!NalBytes
<1>1. PICK off, segs, got : Under(off, segs, got)
  BY DEF Inv
<1>2. Sending(off, segs) /\ Taking(segs, got) /\ Keeping(segs, got) /\ pos = Len(picture)
  BY <1>1 DEF Under, Finished
<1>3. Sent(nals, payloads, segs) /\ Holding(nals, got, bits)
  BY <1>2 DEF Sending, Taking
<1>4. /\ ProperPicture(nals) /\ DOMAIN nals = 1 .. Len(nals) /\ Len(nals) \in Nat
      /\ payloads \in Seq(Seq(Byte)) /\ Len(segs) = Len(payloads) /\ handed = Len(segs)
      /\ Len(segs) \in Nat /\ DOMAIN payloads = 1 .. Len(segs)
      /\ Rx!sync_pos \in 0 .. Len(got) /\ Len(got) \in Nat
  <2>1. /\ ProperPicture(nals) /\ payloads \in Seq(Seq(Byte)) /\ Len(segs) = Len(payloads)
        /\ got \in Seq(Segment(nals))
    BY <1>3 DEF Sent, Holding
  <2>2. DOMAIN nals = 1 .. Len(nals) /\ Len(nals) \in Nat
    BY <2>1 DEF ProperPicture
  <2>3. Len(payloads) \in Nat /\ DOMAIN payloads = 1 .. Len(payloads) /\ Len(got) \in Nat
    BY <2>1
  <2>4. handed = Len(payloads)
    BY DEF Finished
  <2>5. Rx!sync_pos \in 0 .. Len(got)
    BY <1>2 DEF Taking
  <2> QED BY <2>1, <2>2, <2>3, <2>4, <2>5
<1>5. Secures(segs, got) /\ HoldsAll(segs, got)
  BY <1>2 DEF Keeping
<1>6. ASSUME NEW n \in DOMAIN nals, Survives(n)
      PROVE  nals[n].nal \in ToSet(Received)
  <2>1. PICK k \in 1 .. Len(segs) : segs[k].unit = n /\ Whole(nals, segs[k])
    BY <1>2, <1>4, AllSent
  <2>2. Unbroken(segs, k)
    <3> SUFFICES ASSUME NEW j \in 1 .. k, segs[j].unit = segs[k].unit PROVE j \notin lost
      BY DEF Unbroken
    <3>1. j \in 1 .. Len(segs)
      BY <1>4
    <3>2. UnitIndex(j) = n
      BY <1>3, <2>1, <3>1, UnitIndexIs
    <3> QED BY <1>4, <1>6, <3>1, <3>2 DEF Survives
  <2>3. PICK m \in 1 .. Rx!sync_pos : got[m] = segs[k]
    BY <1>4, <1>5, <2>1, <2>2 DEF Secures
  <2>4. m \in 1 .. Len(got)
    BY <1>4, <2>3
  <2>5. Whole(nals, got[m]) /\ got[m].unit = n
    BY <2>1, <2>3
  <2> QED BY <1>3, <2>4, <2>5, UnitArrives
<1>7. ASSUME lost = {} PROVE Received = Tx!NalBytes
  <2>1. Len(got) = Len(segs) /\ \A m \in 1 .. Len(segs) : got[m] = segs[m]
    BY <1>4, <1>5, <1>7 DEF HoldsAll
  <2> QED BY <1>2, <2>1, AllArrive
<1> QED
  BY <1>6, <1>7
-----------------------------------------------------------------------------
(* What is proved of the receiver: how the bytes of its bitstream add up.  *)
RxProofs == INSTANCE H264UnpacketizerProofs WITH status <- received_status, Payloads <- {}, holes <- {}

(* sum[k] is the number of bytes in the first k pieces of the bitstream. *)
SumOf(sum, pieces, n) ==
  /\ sum \in [0 .. n -> Nat] /\ sum[0] = 0
  /\ \A k \in 1 .. n : sum[k] = sum[k-1] + Rx!PieceLen(pieces[k])

(* The bytes of the bitstream are added up piece by piece.                 *)
LEMMA BytesAre ==
  ASSUME BitsLen \in Nat, NEW pieces \in Seq(Chunk)
  PROVE  \E sum : SumOf(sum, pieces, Len(pieces)) /\ Rx!BytesOf(pieces) = sum[Len(pieces)]
<1> DEFINE n == Len(pieces)
           size == [k \in DOMAIN pieces |-> Rx!PieceLen(pieces[k])]
<1>1. n \in Nat /\ DOMAIN pieces = 1 .. n
  OBVIOUS
<1>2. \A k \in 1 .. n : size[k] = Rx!PieceLen(pieces[k])
  BY <1>1
<1>3. \A k \in 1 .. n : Rx!PieceLen(pieces[k]) \in Nat
  <2> TAKE k \in 1 .. n
  <2>1. pieces[k] \in Chunk
    OBVIOUS
  <2>2. Len(pieces[k].data) \in Nat
    <3>1. pieces[k].data \in Seq(Byte)
      BY <2>1 DEF Chunk
    <3> QED BY <3>1
  <2>3. Len(Rx!nal_start_code) \in Nat
    BY DEF Rx!nal_start_code
  <2>4. Rx!PieceLen(pieces[k])
          = Len(pieces[k].data) + (IF pieces[k].start THEN Len(Rx!nal_start_code) ELSE 0)
    BY DEF Rx!PieceLen
  <2>5. PICK d, c, t : /\ d = Len(pieces[k].data) /\ c = Len(Rx!nal_start_code)
                      /\ t = Rx!PieceLen(pieces[k])
    OBVIOUS
  <2>6. d \in Nat /\ c \in Nat /\ (t = d + c \/ t = d + 0)
    BY <2>2, <2>3, <2>4, <2>5
  <2>7. t \in Nat
    BY <2>6
  <2> QED BY <2>5, <2>7
<1>4. Rx!BytesOf(pieces) = Rx!Total(size, n)
  BY DEF Rx!BytesOf
<1> HIDE DEF size, n
<1>5. PICK sum : RxProofs!Sums(sum, size, n) /\ RxProofs!Total(size, n) = sum[n]
  <2>1. \A k \in 1 .. n : size[k] \in Nat
    BY <1>2, <1>3
  <2> QED BY <1>1, <2>1, RxProofs!TotalIs
<1>6. RxProofs!Total(size, n) = Rx!Total(size, n)
  BY DEF RxProofs!Total, Rx!Total
<1>7. SumOf(sum, pieces, n)
  BY <1>2, <1>5 DEF SumOf, RxProofs!Sums
<1> QED
  BY <1>4, <1>5, <1>6, <1>7 DEF n

(* The bytes of the piece that a segment is.                               *)
LEMMA PieceBytes ==
  ASSUME NEW pic, ProperPicture(pic), NEW s, NEW p, Holds(pic, s, p)
  PROVE  Rx!PieceLen(p) = s.to - s.from + (IF s.from = 0 THEN 4 ELSE 0)
<1>1. /\ s.unit \in 1 .. Len(pic) /\ s.from \in Nat /\ s.to \in Nat
      /\ s.from < s.to /\ s.to <= NalLen(pic, s.unit)
      /\ p.start = (s.from = 0) /\ p.data = SubSeq(pic[s.unit].nal, s.from + 1, s.to)
  BY DEF Holds, Segment
<1>2. pic[s.unit].nal \in Seq(Byte) /\ Len(pic[s.unit].nal) = NalLen(pic, s.unit)
  BY <1>1, UnitTypes DEF NalLen
<1>3. PICK a, u, m : a = s.from /\ u = pic[s.unit].nal /\ m = s.to - s.from
  OBVIOUS
<1>4. m \in Nat /\ a \in Nat /\ a + m = s.to /\ u \in Seq(Byte) /\ a + m <= Len(u)
  <2>1. m \in Nat /\ a \in Nat /\ a + m = s.to
    BY <1>1, <1>3
  <2>2. u \in Seq(Byte) /\ Len(u) = NalLen(pic, s.unit)
    BY <1>2, <1>3
  <2> QED BY <1>1, <2>1, <2>2
<1>5. Len(SubSeq(u, a + 1, a + m)) = m
  BY <1>4, SubSeqIs
<1>6. Len(p.data) = m
  BY <1>1, <1>3, <1>4, <1>5
<1>7. Len(Rx!nal_start_code) = 4
  BY DEF Rx!nal_start_code
<1> QED
  BY <1>1, <1>3, <1>6, <1>7 DEF Rx!PieceLen

(* What the receiver holds up to a segment of NAL unit u takes no more     *)
(* bytes than the picture does up to there, and one more for each start    *)
(* code.                                                                   *)
UpTo(off, s) == off[s.unit] + s.unit + CodeLen(nals, s.unit) + s.to

(* The types of these numbers, and what they are in front of NAL unit n.   *)
LEMMA UpToTypes ==
  ASSUME NEW off, Laid(off), NEW s, s \in Segment(nals), s.to <= NalLen(nals, s.unit)
  PROVE  /\ Len(nals) \in Nat /\ s.unit \in 1 .. Len(nals) /\ s.from \in Nat /\ s.to \in Nat
         /\ off[s.unit] \in Nat /\ CodeLen(nals, s.unit) \in {3, 4} /\ NalLen(nals, s.unit) \in Nat
         /\ \A n \in s.unit + 1 .. Len(nals) + 1 : UpTo(off, s) <= off[n] + s.unit /\ off[n] \in Nat
<1>1. /\ Len(nals) \in Nat /\ s.unit \in 1 .. Len(nals) /\ s.from \in Nat /\ s.to \in Nat
  BY LaidTypes DEF Segment
<1>2. off[s.unit] \in Nat /\ CodeLen(nals, s.unit) \in {3, 4} /\ NalLen(nals, s.unit) \in Nat
  <2>1. s.unit \in 1 .. Len(nals) + 1
    BY <1>1
  <2> QED BY <1>1, <2>1, LaidTypes, UnitTypes DEF Laid
<1>3. ASSUME NEW n \in s.unit + 1 .. Len(nals) + 1
      PROVE  UpTo(off, s) <= off[n] + s.unit /\ off[n] \in Nat
  <2>1. n \in 1 .. Len(nals) + 1 /\ s.unit < n
    BY <1>1
  <2>2. off[n] \in Nat
    BY <2>1, LaidTypes
  <2>3. off[s.unit] + CodeLen(nals, s.unit) + NalLen(nals, s.unit) <= off[n]
    BY <1>1, <2>1, Places DEF Laid
  <2>4. PICK o, c, len, u, t : /\ o = off[s.unit] /\ c = CodeLen(nals, s.unit)
                               /\ len = NalLen(nals, s.unit) /\ u = s.unit /\ t = s.to
    OBVIOUS
  <2>5. o \in Nat /\ c \in Nat /\ len \in Nat /\ u \in Nat /\ t \in Nat /\ t <= len /\ o + c + len <= off[n]
    BY <1>1, <1>2, <2>3, <2>4
  <2>6. UpTo(off, s) = o + u + c + t
    BY <2>4 DEF UpTo
  <2>7. o + u + c + t <= off[n] + u
    BY <2>2, <2>5
  <2> QED BY <2>2, <2>4, <2>6, <2>7
<1> QED
  BY <1>1, <1>2, <1>3

(* The pieces of the receiver's bitstream never go beyond that.            *)
LEMMA BytesUpTo ==
  ASSUME NEW off, Laid(off), NEW got, NEW pieces, Holding(nals, got, pieces),
         NEW sum, SumOf(sum, pieces, Len(pieces))
  PROVE  \A m \in 1 .. Len(got) : sum[m] <= UpTo(off, got[m])
<1> DEFINE n == Len(got)
           I == {m \in Nat : m + 1 <= n => sum[m+1] <= UpTo(off, got[m+1])}
<1>1. /\ ProperPicture(nals) /\ n \in Nat /\ n = Len(pieces)
      /\ \A m \in 1 .. n : Holds(nals, got[m], pieces[m])
      /\ got # <<>> => got[1].from = 0
      /\ \A m \in 1 .. n - 1 : Continues(nals, got[m], got[m+1])
  BY DEF Holding
<1>2. /\ sum[0] = 0 /\ \A k \in 0 .. n : sum[k] \in Nat
      /\ \A k \in 1 .. n : sum[k] = sum[k-1] + Rx!PieceLen(pieces[k])
  BY <1>1 DEF SumOf
<1>3. ASSUME NEW m \in 1 .. n
      PROVE  /\ got[m] \in Segment(nals) /\ got[m].from < got[m].to
             /\ got[m].to <= NalLen(nals, got[m].unit)
             /\ Rx!PieceLen(pieces[m]) = got[m].to - got[m].from + (IF got[m].from = 0 THEN 4 ELSE 0)
  <2>1. PICK s, p : s = got[m] /\ p = pieces[m]
    OBVIOUS
  <2>2. Holds(nals, s, p)
    BY <1>1, <2>1
  <2>3. Rx!PieceLen(p) = s.to - s.from + (IF s.from = 0 THEN 4 ELSE 0)
    BY <1>1, <2>2, PieceBytes
  <2>4. s \in Segment(nals) /\ s.from < s.to /\ s.to <= NalLen(nals, s.unit)
    BY <2>2 DEF Holds
  <2> QED BY <2>1, <2>3, <2>4
<1>4. 0 \in I
  <2> SUFFICES ASSUME 0 + 1 <= n PROVE sum[1] <= UpTo(off, got[1])
    OBVIOUS
  <2>1. 1 \in 1 .. n /\ got # <<>> /\ 1 - 1 = 0
    BY <1>1
  <2>2. PICK s : s = got[1]
    OBVIOUS
  <2>3. s \in Segment(nals) /\ s.to <= NalLen(nals, s.unit) /\ s.from = 0
    BY <1>1, <1>3, <2>1, <2>2
  <2>4. /\ off[s.unit] \in Nat /\ CodeLen(nals, s.unit) \in {3, 4} /\ s.to \in Nat
        /\ s.unit \in Nat /\ s.unit >= 1
    BY <2>3, UpToTypes
  <2>5. sum[1] = s.to + 4
    <3>1. Rx!PieceLen(pieces[1]) = s.to - 0 + 4
      BY <1>3, <2>1, <2>2, <2>3
    <3>2. sum[1] = 0 + Rx!PieceLen(pieces[1])
      BY <1>2, <2>1
    <3> QED BY <2>4, <3>1, <3>2
  <2> QED BY <2>2, <2>4, <2>5 DEF UpTo
<1>5. ASSUME NEW m \in Nat, m \in I PROVE m + 1 \in I
  <2> SUFFICES ASSUME (m + 1) + 1 <= n PROVE sum[(m + 1) + 1] <= UpTo(off, got[(m + 1) + 1])
    OBVIOUS
  <2>1. PICK k, r, s : k = m + 1 /\ r = got[k] /\ s = got[k + 1]
    OBVIOUS
  <2>2. k \in 1 .. n - 1 /\ k \in 1 .. n /\ k + 1 \in 1 .. n /\ (k + 1) - 1 = k /\ m + 1 <= n /\ k \in 0 .. n
    BY <1>1, <2>1
  <2>3. sum[k] <= UpTo(off, r) /\ sum[k] \in Nat
    <3>1. sum[k] <= UpTo(off, r)
      BY <1>5, <2>1, <2>2
    <3> QED BY <1>2, <2>2, <3>1
  <2>4. Continues(nals, r, s)
    BY <1>1, <2>1, <2>2
  <2>5. /\ s \in Segment(nals) /\ s.from < s.to /\ s.to <= NalLen(nals, s.unit)
        /\ Rx!PieceLen(pieces[k+1]) = s.to - s.from + (IF s.from = 0 THEN 4 ELSE 0)
        /\ r \in Segment(nals) /\ r.to <= NalLen(nals, r.unit)
    BY <1>3, <2>1, <2>2
  <2>6. sum[k+1] = sum[k] + Rx!PieceLen(pieces[k+1])
    BY <1>2, <2>2
  <2>7. /\ off[s.unit] \in Nat /\ CodeLen(nals, s.unit) \in {3, 4} /\ s.to \in Nat
        /\ s.from \in Nat /\ s.unit \in 1 .. Len(nals)
    BY <2>5, UpToTypes
  <2>8. /\ r.unit \in 1 .. Len(nals) /\ Len(nals) \in Nat /\ r.to \in Nat
        /\ off[r.unit] \in Nat /\ CodeLen(nals, r.unit) \in {3, 4}
        /\ \A j \in r.unit + 1 .. Len(nals) + 1 : UpTo(off, r) <= off[j] + r.unit
    BY <2>5, UpToTypes
  <2>9. sum[k+1] <= UpTo(off, s)
    <3>1. PICK o, c, u, a, t, x : /\ o = off[s.unit] /\ c = CodeLen(nals, s.unit) /\ u = s.unit
                                  /\ a = s.from /\ t = s.to /\ x = sum[k]
      OBVIOUS
    <3>2. UpTo(off, s) = o + u + c + t
      BY <3>1 DEF UpTo
    <3>3. o \in Nat /\ c \in {3, 4} /\ u \in Nat /\ a \in Nat /\ t \in Nat /\ x \in Nat
      BY <2>3, <2>7, <3>1
    <3>4. CASE s.from = 0
      <4>1. r.unit < s.unit
        BY <2>4, <3>4 DEF Continues
      <4>2. s.unit \in r.unit + 1 .. Len(nals) + 1
        BY <2>7, <2>8, <4>1
      <4>3. UpTo(off, r) <= o + r.unit
        BY <2>8, <3>1, <4>2
      <4>4. UpTo(off, r) \in Nat
        <5>1. PICK ro, rc, ru, rt : /\ ro = off[r.unit] /\ rc = CodeLen(nals, r.unit)
                                    /\ ru = r.unit /\ rt = r.to
          OBVIOUS
        <5>2. ro \in Nat /\ rc \in Nat /\ ru \in Nat /\ rt \in Nat
          BY <2>8, <5>1
        <5>3. UpTo(off, r) = ro + ru + rc + rt
          BY <5>1 DEF UpTo
        <5> QED BY <5>2, <5>3
      <4>5. x <= o + u - 1
        <5>1. r.unit \in Nat /\ r.unit <= u - 1
          BY <2>7, <2>8, <3>1, <4>1
        <5>2. x <= UpTo(off, r)
          BY <2>3, <3>1
        <5> QED BY <3>3, <4>3, <4>4, <5>1, <5>2
      <4>6. sum[k+1] = x + (t - 0 + 4)
        BY <2>5, <2>6, <3>1, <3>4
      <4> QED BY <3>2, <3>3, <4>5, <4>6
    <3>5. CASE s.from # 0
      <4>1. s.unit = r.unit /\ s.from = r.to
        BY <2>4, <3>5 DEF Continues
      <4>2. x <= o + u + c + a
        BY <2>3, <3>1, <4>1 DEF UpTo
      <4>3. sum[k+1] = x + (t - a + 0)
        BY <2>5, <2>6, <3>1, <3>5
      <4> QED BY <3>2, <3>3, <4>2, <4>3
    <3> QED BY <3>4, <3>5
  <2> QED BY <2>1, <2>9
<1>6. Nat \subseteq I
  <2> HIDE DEF I
  <2> QED BY <1>4, <1>5, Lists!SetInduction
<1>7. ASSUME NEW m \in 1 .. n PROVE sum[m] <= UpTo(off, got[m])
  <2>1. PICK j : j = m - 1
    OBVIOUS
  <2>2. j \in Nat /\ j + 1 = m /\ j + 1 <= n
    BY <1>1, <2>1
  <2>3. j + 1 <= n => sum[j+1] <= UpTo(off, got[j+1])
    BY <1>6, <2>2
  <2> QED BY <2>2, <2>3
<1> QED
  BY <1>7

(***************************************************************************)
(* The receiver's buffer holds the picture, one byte more for each of its  *)
(* NAL units, whose start code may be of three bytes, and six: what is     *)
(* asked for a fragment on top of its data (h264_packetizer.c:582).        *)
(***************************************************************************)
RoomFor(pic) == BitsLen \in Nat /\ Len(Tx!Layout(pic)) + Len(pic) + 6 <= BitsLen

(* Then there is room for every payload.                                   *)
LEMMA RoomEnough ==
  ASSUME NEW off, NEW segs, Laid(off), Sent(nals, payloads, segs), NEW got, Taking(segs, got),
         handed < Len(segs), RoomFor(nals), NEW s, s = segs[handed + 1]
  PROVE  /\ s.to \in Nat /\ s.from \in Nat /\ s.from < s.to
         /\ Rx!Room \in Int /\ s.to - s.from + 6 <= Rx!Room
<1>1. /\ ProperPicture(nals) /\ bits \in Seq(Chunk) /\ got \in Seq(Segment(nals))
      /\ Len(got) = Len(bits) /\ Len(got) \in Nat /\ handed \in Nat /\ Len(segs) \in Nat
      /\ handed + 1 \in 1 .. Len(segs) /\ Holding(nals, got, bits)
  <2>1. /\ ProperPicture(nals) /\ bits \in Seq(Chunk) /\ got \in Seq(Segment(nals))
        /\ Len(got) = Len(bits) /\ handed \in Nat /\ Holding(nals, got, bits)
    BY DEF Taking, Holding
  <2>2. Len(segs) \in Nat /\ Len(got) \in Nat
    BY <2>1 DEF Sent
  <2> QED BY <2>1, <2>2
<1>2. s \in Segment(nals) /\ s.from < s.to /\ s.to <= NalLen(nals, s.unit)
  <2>1. Reads(nals, s, Read(payloads[handed + 1]))
    BY <1>1 DEF Sent
  <2> QED BY <2>1 DEF Reads
<1>3. PICK N, end : N = Len(nals) /\ end = off[Len(nals) + 1]
  OBVIOUS
<1>4. /\ s.to \in Nat /\ s.from \in Nat /\ s.unit \in 1 .. N /\ N \in Nat
      /\ off[s.unit] \in Nat /\ CodeLen(nals, s.unit) \in {3, 4} /\ end \in Nat
      /\ UpTo(off, s) <= end + s.unit
  <2>1. /\ Len(nals) \in Nat /\ s.unit \in 1 .. Len(nals) /\ s.from \in Nat /\ s.to \in Nat
        /\ off[s.unit] \in Nat /\ CodeLen(nals, s.unit) \in {3, 4}
        /\ \A n \in s.unit + 1 .. Len(nals) + 1 : UpTo(off, s) <= off[n] + s.unit /\ off[n] \in Nat
    BY <1>2, UpToTypes
  <2>2. Len(nals) + 1 \in s.unit + 1 .. Len(nals) + 1
    BY <2>1
  <2> QED BY <1>3, <2>1, <2>2
<1>5. end + N + 6 <= BitsLen /\ BitsLen \in Nat
  <2>1. Len(Tx!Layout(nals)) = end
    BY <1>3 DEF Laid, Geometry
  <2> QED BY <1>3, <2>1 DEF RoomFor
<1>6. PICK sum : SumOf(sum, bits, Len(bits)) /\ Rx!BytesOf(bits) = sum[Len(bits)]
  BY <1>1, <1>5, BytesAre
<1>7. PICK x, o, c, u, a, t : /\ x = sum[Len(bits)] /\ o = off[s.unit] /\ c = CodeLen(nals, s.unit)
                              /\ u = s.unit /\ a = s.from /\ t = s.to
  OBVIOUS
<1>8. /\ o \in Nat /\ c \in {3, 4} /\ u \in Nat /\ u <= N /\ u >= 1 /\ a \in Nat /\ t \in Nat /\ a < t
      /\ o + u + c + t <= end + u
  BY <1>2, <1>4, <1>7 DEF UpTo
<1>9. x \in Nat
  BY <1>1, <1>6, <1>7 DEF SumOf
<1>e. end \in Nat /\ N \in Nat
  BY <1>4
<1>f. ASSUME x + t - a <= o + u + c + t PROVE x + t - a <= end + N
  <2>1. PICK w : w = o + u + c + t
    OBVIOUS
  <2>2. w <= end + u /\ u <= N /\ u \in Nat /\ w \in Nat /\ a \in Nat /\ t \in Nat
    BY <1>8, <2>1
  <2>3. x + t - a <= w
    BY <1>f, <2>1
  <2> QED BY <1>9, <1>e, <2>2, <2>3
<1>10. x + t - a <= end + N
  <2>1. CASE got = <<>>
    <3>1. Len(bits) = 0
      BY <1>1, <2>1
    <3>2. x = 0
      BY <1>6, <1>7, <3>1 DEF SumOf
    <3> QED BY <1>4, <1>8, <3>2
  <2>2. CASE got # <<>>
    <3>1. PICK n, r : n = Len(got) /\ r = got[n]
      OBVIOUS
    <3>2. n \in 1 .. Len(got) /\ n = Len(bits)
      BY <1>1, <2>2, <3>1
    <3>3. PICK k \in 1 .. handed : r = segs[k]
      BY <3>1, <3>2 DEF Taking
    <3>4. k \in 1 .. (handed + 1) - 1
      BY <1>1
    <3>5. r.unit <= s.unit /\ (r.unit = s.unit => r.to <= s.from)
      BY <1>1, <3>3, <3>4 DEF Sent, Ordered
    <3>6. x <= UpTo(off, r)
      BY <1>1, <1>6, <1>7, <3>1, <3>2, BytesUpTo
    <3>7. r \in Segment(nals) /\ r.to <= NalLen(nals, r.unit)
      <4>1. Holds(nals, r, bits[n])
        BY <3>1, <3>2 DEF Taking, Holding
      <4> QED BY <4>1 DEF Holds
    <3>8. /\ r.unit \in 1 .. N /\ r.to \in Nat
          /\ off[r.unit] \in Nat /\ CodeLen(nals, r.unit) \in {3, 4}
          /\ \A j \in r.unit + 1 .. N + 1 : UpTo(off, r) <= off[j] + r.unit
      BY <1>3, <3>7, UpToTypes
    <3>9. CASE r.unit = s.unit
      <4>1. PICK q : q = r.to
        OBVIOUS
      <4>2. q \in Nat /\ x <= o + u + c + q /\ q <= a
        <5>1. q \in Nat
          BY <3>8, <4>1
        <5>2. x <= o + u + c + q
          BY <1>7, <3>6, <3>9, <4>1 DEF UpTo
        <5>3. q <= a
          BY <1>7, <3>5, <3>9, <4>1
        <5> QED BY <5>1, <5>2, <5>3
      <4>3. c \in Nat
        BY <1>8
      <4>4. x + t - a <= o + u + c + t
        BY <1>8, <1>9, <4>2, <4>3
      <4> QED BY <1>f, <4>4
    <3>10. CASE r.unit # s.unit
      <4>1. r.unit < u /\ r.unit \in Nat /\ r.unit + 1 <= u
        <5>1. r.unit \in Nat
          BY <3>8
        <5>2. r.unit <= u /\ r.unit # u /\ u \in Nat
          BY <1>7, <1>8, <3>5, <3>10
        <5> QED BY <5>1, <5>2
      <4>2. u \in r.unit + 1 .. N + 1
        BY <1>4, <1>8, <3>8, <4>1
      <4>3. UpTo(off, r) <= o + r.unit
        BY <1>7, <3>8, <4>2
      <4>4. UpTo(off, r) \in Nat
        <5>1. PICK ro, rc, ru, rt : /\ ro = off[r.unit] /\ rc = CodeLen(nals, r.unit)
                                    /\ ru = r.unit /\ rt = r.to
          OBVIOUS
        <5>2. ro \in Nat /\ rc \in Nat /\ ru \in Nat /\ rt \in Nat
          BY <3>8, <4>1, <5>1
        <5>3. UpTo(off, r) = ro + ru + rc + rt
          BY <5>1 DEF UpTo
        <5> QED BY <5>2, <5>3
      <4>5. PICK y, v : y = UpTo(off, r) /\ v = r.unit
        OBVIOUS
      <4>6. y \in Nat /\ v \in Nat /\ v < u /\ x <= y /\ y <= o + v
        BY <3>6, <4>1, <4>3, <4>4, <4>5
      <4>7. x <= o + u
        BY <1>8, <1>9, <4>6
      <4>8. c \in Nat /\ o \in Nat /\ u \in Nat /\ a \in Nat /\ t \in Nat
        BY <1>8
      <4>9. x + t - a <= o + u + c + t
        BY <1>9, <4>7, <4>8
      <4> QED BY <1>f, <4>9
    <3> QED BY <3>9, <3>10
  <2> QED BY <2>1, <2>2
<1>11. Rx!Room = BitsLen - x
  BY <1>6, <1>7 DEF Rx!Room
<1>12. BitsLen - x \in Int /\ t - a + 6 <= BitsLen - x
  BY <1>4, <1>5, <1>8, <1>9, <1>10
<1> QED
  BY <1>7, <1>8, <1>11, <1>12

(* No delivery makes an assertion of the receiver fail.                    *)
LEMMA DeliverRuns ==
  ASSUME NEW off, NEW segs, Laid(off), Sent(nals, payloads, segs), NEW got, Taking(segs, got),
         Deliver, RoomFor(nals)
  PROVE  Rx!Running'
<1>s. PICK s, r : s = segs[handed + 1] /\ r = Read(payloads[handed + 1])
  OBVIOUS
<1>1. Rx!Unpacketize(r) /\ handed \in Nat /\ handed < Len(segs) /\ Len(segs) \in Nat
      /\ handed + 1 \in 1 .. Len(segs)
  <2>1. handed \in Nat /\ Len(segs) \in Nat /\ Len(segs) = Len(payloads)
    BY DEF Taking, Sent
  <2> QED BY <1>s, <2>1 DEF Deliver
<1>2. Reads(nals, s, r)
  BY <1>1, <1>s DEF Sent
<1>3. /\ s.to \in Nat /\ s.from \in Nat /\ s.from < s.to
      /\ Rx!Room \in Int /\ s.to - s.from + 6 <= Rx!Room
  BY <1>1, <1>s, RoomEnough
<1>4. /\ s.unit \in 1 .. Len(nals) /\ s.to <= NalLen(nals, s.unit)
      /\ nals[s.unit].nal \in Seq(Byte) /\ Len(nals[s.unit].nal) = NalLen(nals, s.unit)
  <2>1. s.unit \in 1 .. Len(nals) /\ s.to <= NalLen(nals, s.unit)
    BY <1>2 DEF Reads, Segment
  <2> QED BY <2>1, UnitTypes DEF Laid, NalLen
<1>5. Len(Rx!nal_start_code) = 4
  BY DEF Rx!nal_start_code
<1>6. Rx!Running /\ (Rx!Short(r) \/ Rx!SingleNal(r) \/ Rx!FuA(r))
  <2>1. r.kind \in {"SHORT", "SINGLE", "FU_A"}
    BY <1>2 DEF Reads
  <2>2. r.kind # "STAP_A" /\ r.kind # "OTHER"
    BY <2>1
  <2> QED BY <1>1, <2>2 DEF Rx!Unpacketize, Rx!StapA, Rx!NotSupported
<1>7. CASE Rx!Short(r)
  BY <1>7 DEF Rx!Short, Rx!Running
<1>8. CASE Rx!SingleNal(r)
  <2>1. r.nal = nals[s.unit].nal /\ s.from = 0 /\ s.to = NalLen(nals, s.unit)
    BY <1>2, <1>8 DEF Reads, Whole, Rx!SingleNal
  <2>2. Len(r.nal) = s.to
    BY <1>4, <2>1
  <2>3. ~ (Rx!Room < Len(r.nal) + Len(Rx!nal_start_code))
    BY <1>3, <1>5, <2>1, <2>2
  <2> QED BY <1>8, <2>3 DEF Rx!SingleNal, Rx!Running
<1>9. CASE Rx!FuA(r)
  <2>1. r.data = SubSeq(nals[s.unit].nal, IF s.from = 0 THEN 2 ELSE s.from + 1, s.to)
    BY <1>2, <1>9 DEF Reads, Rx!FuA
  <2>2. PICK a, m, u : a = (IF s.from = 0 THEN 1 ELSE s.from) /\ m = s.to - a /\ u = nals[s.unit].nal
    OBVIOUS
  <2>3. a \in Nat /\ m \in Nat /\ a + m = s.to /\ m <= s.to - s.from
    BY <1>3, <2>2
  <2>4. r.data = SubSeq(u, a + 1, a + m)
    <3>1. (IF s.from = 0 THEN 2 ELSE s.from + 1) = a + 1
      BY <1>3, <2>2
    <3> QED BY <2>1, <2>2, <2>3, <3>1
  <2>5. Len(r.data) = m
    <3>1. u \in Seq(Byte) /\ a + m <= Len(u)
      BY <1>4, <2>2, <2>3
    <3> QED BY <2>3, <2>4, <3>1, SubSeqIs
  <2>6. Rx!FuHasRoom(r)
    BY <1>3, <1>5, <2>3, <2>5 DEF Rx!FuHasRoom
  <2>7. Rx!FuAppend(r) => Rx!Running'
    BY DEF Rx!FuAppend, Rx!Running
  <2>8. ASSUME Rx!FuRevert(r) PROVE Rx!Running'
    <3>1. ~ (Rx!sync_pos > Rx!bits_pos)
      <4>1. Rx!sync_pos \in 0 .. Len(got) /\ Len(got) = Len(bits) /\ bits \in Seq(Chunk)
        BY DEF Taking, Holding
      <4>2. Len(bits) \in Nat
        BY <4>1
      <4> QED BY <4>1, <4>2 DEF Rx!bits_pos
    <3> QED BY <2>8, <3>1 DEF Rx!FuRevert, Rx!Running
  <2> QED BY <1>9, <2>6, <2>7, <2>8 DEF Rx!FuA, Rx!FuNoRoom
<1> QED
  BY <1>6, <1>7, <1>8, <1>9

(* The picture is one of those the sender is given, or there is none yet.  *)
LEMMA PictureKnown ==
  (nals = <<>> \/ nals \in Pictures) /\ [Next]_vars => nals' = <<>> \/ nals' \in Pictures
<1> SUFFICES ASSUME nals = <<>> \/ nals \in Pictures, [Next]_vars
             PROVE  nals' = <<>> \/ nals' \in Pictures
  OBVIOUS
<1>1. ASSUME NEW pic \in Pictures, NextPicture(pic) PROVE nals' \in Pictures
  BY <1>1 DEF NextPicture, Tx!h264_test
<1>2. CASE Send
  <2>1. nals' = nals
    BY <1>2 DEF Send, Tx!Packetize, Tx!TooSmall, Tx!Cancel, Tx!FirstFragment, Tx!NextFragment,
                Tx!SingleNal, Tx!NullOctet, Tx!Fail, Tx!EmitFragment
  <2> QED BY <2>1
<1>3. CASE Deliver \/ Lose \/ UNCHANGED vars
  BY <1>3 DEF Deliver, Lose, vars, sender
<1> QED
  BY <1>1, <1>2, <1>3 DEF Next

(***************************************************************************)
(* As long as there is room for the picture, the receiver runs: no payload *)
(* makes one of its assertions fail.                                       *)
(***************************************************************************)
Roomy == NoneStraddled /\ (nals = <<>> \/ RoomFor(nals)) => Rx!Running

(* The receiver runs on in every step.                                     *)
LEMMA RoomyStep == Inv /\ Roomy /\ [Next]_vars => Roomy'
<1> SUFFICES ASSUME Inv, Roomy, [Next]_vars, NoneStraddled', nals' = <<>> \/ RoomFor(nals')
             PROVE  Rx!Running'
  BY DEF Roomy, RoomFor, Tx!Layout
<1>1. ASSUME nals' = nals PROVE Rx!Running /\ NoneStraddled /\ (nals = <<>> \/ RoomFor(nals))
  <2>1. NoneStraddled
    BY <1>1, SameNals
  <2>2. nals = <<>> \/ RoomFor(nals)
    BY <1>1
  <2> QED BY <2>1, <2>2 DEF Roomy
<1>2. ASSUME received_status' = received_status, Rx!Running PROVE Rx!Running'
  BY <1>2 DEF Rx!Running
<1>3. CASE Send
  <2>1. nals' = nals
    BY <1>3 DEF Send, Tx!Packetize, Tx!TooSmall, Tx!Cancel, Tx!FirstFragment, Tx!NextFragment,
                Tx!SingleNal, Tx!NullOctet, Tx!Fail, Tx!EmitFragment
  <2>2. received_status' = received_status
    BY <1>3 DEF Send, receiver
  <2> QED BY <1>1, <1>2, <2>1, <2>2
<1>4. CASE Deliver
  <2>1. nals' = nals
    BY <1>4 DEF Deliver, sender
  <2>2. PICK off, segs, got : Under(off, segs, got)
    BY <1>1, <2>1 DEF Inv
  <2>3. Laid(off) /\ Sent(nals, payloads, segs) /\ Taking(segs, got)
    BY <2>2 DEF Under, Sending
  <2>4. CASE nals = <<>>
    <3>1. /\ handed \in Nat /\ handed < Len(payloads) /\ Len(segs) = Len(payloads)
          /\ Len(segs) \in Nat
      BY <1>4, <2>3 DEF Deliver, Taking, Sent
    <3>2. handed + 1 \in 1 .. Len(segs)
      BY <3>1
    <3>3. segs[handed + 1].unit \in 1 .. Len(nals)
      BY <2>3, <3>2, UnitOfNext
    <3>4. Len(nals) = 0
      BY <2>4
    <3> QED BY <3>3, <3>4
  <2>5. CASE RoomFor(nals)
    BY <1>4, <2>3, <2>5, DeliverRuns
  <2> QED BY <1>1, <2>1, <2>4, <2>5
<1>5. CASE Lose
  BY <1>5 DEF Lose, Rx!Lost, Rx!Running
<1>6. ASSUME NEW pic \in Pictures, NextPicture(pic) PROVE Rx!Running'
  BY <1>2, <1>6 DEF NextPicture, Rx!NextPicture
<1>7. CASE UNCHANGED vars
  <2>1. nals' = nals /\ received_status' = received_status
    BY <1>7 DEF vars, sender, receiver
  <2> QED BY <1>1, <1>2, <2>1
<1> QED
  BY <1>3, <1>4, <1>5, <1>6, <1>7 DEF Next

(***************************************************************************)
(* No assertion of the receiver fails, whatever is lost, if its buffer has *)
(* room for every picture and no NAL unit is straddled: the checks of      *)
(* pjmedia_h264_unpacketize (h264_packetizer.c:496, 582) are never met.    *)
(***************************************************************************)
THEOREM ReceiverRuns ==
  ASSUME \A pic \in Pictures : RoomFor(pic)
  PROVE  Spec => [](NoneStraddled => Rx!Running)
<1> DEFINE Known == nals = <<>> \/ nals \in Pictures
<1>1. Init => Known /\ Roomy
  BY DEF Init, Tx!Init, Rx!Init, Roomy, Rx!Running
<1>2. Known /\ [Next]_vars => Known'
  BY PictureKnown
<1>3. Known /\ Roomy => (NoneStraddled => Rx!Running)
  BY DEF Roomy
<1> HIDE DEF Known
<1> QED
  BY <1>1, <1>2, <1>3, Invariance, RoomyStep, PTL DEF Spec

(***************************************************************************)
(* A loss costs the NAL unit that it hits and no other, and a picture of   *)
(* which nothing is lost arrives as it was sent, whatever the pictures in  *)
(* front of it left in prev_lost and last_sync_pos, if no NAL unit is      *)
(* straddled (pjmedia_h264_packetize, h264_packetizer.c:204, and           *)
(* pjmedia_h264_unpacketize, h264_packetizer.c:453).  The NAL units are    *)
(* longer than their first octet and the receiver's buffer has room for    *)
(* the picture.                                                            *)
(***************************************************************************)
THEOREM SurvivorsDoArrive ==
  ASSUME \A pic \in Pictures : LongUnits(pic) /\ RoomFor(pic)
  PROVE  Spec => []SurvivorsArrive
<1> DEFINE Known == nals = <<>> \/ nals \in Pictures
<1>1. Init => Known /\ Roomy
  BY DEF Init, Tx!Init, Rx!Init, Roomy, Rx!Running
<1>2. Known /\ [Next]_vars => Known'
  BY PictureKnown
<1>3. Inv /\ Known /\ Roomy => SurvivorsArrive
  <2> SUFFICES ASSUME Inv, Known, Roomy, Finished, NoneStraddled
               PROVE  /\ \A n \in DOMAIN nals : Survives(n) => nals[n].nal \in ToSet(Received)
                      /\ lost = {} => Received = Tx!NalBytes
    BY DEF SurvivorsArrive
  <2>1. Rx!Running
    BY DEF Roomy
  <2>2. LongUnits(nals)
    <3>1. CASE nals = <<>>
      <4>1. Len(nals) = 0 /\ \A n \in 1 .. 0 : FALSE
        BY <3>1
      <4> QED BY <4>1 DEF LongUnits
    <3>2. CASE nals \in Pictures
      BY <3>2
    <3> QED BY <3>1, <3>2
  <2> QED BY <2>1, <2>2, InvArrives
<1> HIDE DEF Known
<1> QED
  BY <1>1, <1>2, <1>3, Invariance, RoomyStep, PTL DEF Spec
-----------------------------------------------------------------------------
(* What the receiver of the payload format has after k payloads.           *)
Nothing == [nals |-> <<>>, part |-> <<>>, open |-> FALSE]

StepsTo(st, pls) ==
  /\ st[0] = Nothing
  /\ \A k \in 0 .. Len(pls) - 1 : st[k+1] = Tx!Receive(st[k], pls[k+1])

(* The largest of the numbers up to m. *)
LEMMA LargestIs ==
  ASSUME NEW m \in Nat, NEW s \in SUBSET (1 .. m), m \in s
  PROVE  Tx!Max(s) = m
<1>1. \A y \in s : m >= y
  OBVIOUS
<1>2. \A x \in s : (\A y \in s : x >= y) => x = m
  OBVIOUS
<1> QED
  BY <1>1, <1>2 DEF Tx!Max

(* The recursive function behind FoldLeft, on the subsets of 1 .. n. *)
FoldStep(up, pls, n) ==
  [s \in SUBSET (1 .. n) |->
     IF s = {} THEN Nothing ELSE Tx!Receive(up[s \ {Tx!Max(s)}], pls[Tx!Max(s)])]

LEMMA FoldExists ==
  ASSUME NEW pls, NEW n \in Nat
  PROVE  \E up : up = FoldStep(up, pls, n)
<1> DEFINE I == {m \in Nat : \E up : up = FoldStep(up, pls, m)}
<1>1. 0 \in I
  <2> DEFINE none == [s \in SUBSET (1 .. 0) |-> Nothing]
  <2>1. \A s \in SUBSET (1 .. 0) : s = {}
    OBVIOUS
  <2>2. none = FoldStep(none, pls, 0)
    BY <2>1 DEF FoldStep
  <2> QED BY <2>2
<1>2. ASSUME NEW m \in Nat, m \in I PROVE m + 1 \in I
  <2>1. PICK up : up = FoldStep(up, pls, m)
    BY <1>2
  <2> DEFINE more == [s \in SUBSET (1 .. m + 1) |->
                        IF m + 1 \in s THEN Tx!Receive(up[s \ {m + 1}], pls[m + 1]) ELSE up[s]]
  <2>2. \A s \in SUBSET (1 .. m + 1) : m + 1 \notin s => s \in SUBSET (1 .. m)
    OBVIOUS
  <2>3. \A s \in SUBSET (1 .. m + 1) :
          more[s] = IF s = {} THEN Nothing ELSE Tx!Receive(more[s \ {Tx!Max(s)}], pls[Tx!Max(s)])
    <3> TAKE s \in SUBSET (1 .. m + 1)
    <3>1. CASE m + 1 \in s
      <4>1. Tx!Max(s) = m + 1
        BY <3>1, LargestIs
      <4>2. s \ {m + 1} \in SUBSET (1 .. m + 1) /\ m + 1 \notin s \ {m + 1} /\ s # {}
        BY <3>1
      <4>3. more[s \ {m + 1}] = up[s \ {m + 1}]
        BY <4>2
      <4>4. more[s] = Tx!Receive(up[s \ {m + 1}], pls[m + 1])
        BY <3>1
      <4> HIDE DEF more
      <4> QED BY <4>1, <4>2, <4>3, <4>4
    <3>2. CASE m + 1 \notin s
      <4>1. s \in SUBSET (1 .. m)
        BY <2>2, <3>2
      <4>2. more[s] = up[s]
        BY <3>2
      <4>3. up[s] = IF s = {} THEN Nothing ELSE Tx!Receive(up[s \ {Tx!Max(s)}], pls[Tx!Max(s)])
        BY <2>1, <4>1, Zenon DEF FoldStep
      <4>4. PICK t : t = s \ {Tx!Max(s)}
        OBVIOUS
      <4>5. t \in SUBSET (1 .. m + 1) /\ m + 1 \notin t
        BY <3>2, <4>4
      <4>6. more[t] = up[t]
        BY <4>5
      <4> HIDE DEF more
      <4> QED BY <4>2, <4>3, <4>4, <4>6
    <3> QED BY <3>1, <3>2
  <2>4. more = FoldStep(more, pls, m + 1)
    BY <2>3 DEF FoldStep
  <2> QED BY <2>4
<1>3. Nat \subseteq I
  <2> HIDE DEF I
  <2> QED BY <1>1, <1>2, Lists!SetInduction
<1> QED
  BY <1>3

(* What FoldLeft computes in Reassemble. *)
LEMMA ReassembleIs ==
  ASSUME NEW pls \in Seq(Seq(Byte)), NEW st, StepsTo(st, pls)
  PROVE  Tx!Reassemble(pls) = st[Len(pls)].nals
<1> DEFINE n == Len(pls)
           iter == CHOOSE up : up = FoldStep(up, pls, n)
<1>n. n \in Nat /\ DOMAIN pls = 1 .. n
  OBVIOUS
<1>1. Tx!Reassemble(pls) = iter[1 .. n].nals
  BY <1>n DEF Tx!Reassemble, Tx!FoldLeft, Tx!MapThenFoldSet, FoldStep, Nothing
<1>2. iter = FoldStep(iter, pls, n)
  BY <1>n, FoldExists
<1> HIDE DEF iter
<1> DEFINE I == {m \in Nat : m <= n => iter[1 .. m] = st[m]}
<1>3. 0 \in I
  <2>1. 1 .. 0 = {} /\ {} \in SUBSET (1 .. n)
    OBVIOUS
  <2>2. iter[{}] = Nothing
    BY <1>2, <2>1 DEF FoldStep
  <2> QED BY <2>1, <2>2 DEF StepsTo
<1>4. ASSUME NEW m \in Nat, m \in I PROVE m + 1 \in I
  <2> SUFFICES ASSUME m + 1 <= n PROVE iter[1 .. m + 1] = st[m + 1]
    OBVIOUS
  <2>1. m + 1 \in Nat /\ m + 1 \in 1 .. m + 1 /\ (1 .. m + 1) \ {m + 1} = 1 .. m
    <3>1. \A i : i \in (1 .. m + 1) \ {m + 1} <=> i \in 1 .. m
      OBVIOUS
    <3> QED BY <3>1
  <2>0. 1 .. m + 1 # {}
    BY <2>1
  <2>2. 1 .. m + 1 \in SUBSET (1 .. n)
    BY <1>n
  <2>3. Tx!Max(1 .. m + 1) = m + 1
    <3>1. 1 .. m + 1 \in SUBSET (1 .. m + 1)
      OBVIOUS
    <3> QED BY <2>1, <3>1, LargestIs
  <2>4. iter[1 .. m + 1] = Tx!Receive(iter[1 .. m], pls[m + 1])
    BY <1>2, <2>0, <2>1, <2>2, <2>3 DEF FoldStep
  <2>5. iter[1 .. m] = st[m]
    BY <1>4, <1>n
  <2>6. st[m + 1] = Tx!Receive(st[m], pls[m + 1])
    BY <1>n DEF StepsTo
  <2> QED BY <2>4, <2>5, <2>6
<1>5. Nat \subseteq I
  <2> HIDE DEF I
  <2> QED BY <1>3, <1>4, Lists!SetInduction
<1>6. iter[1 .. n] = st[n]
  BY <1>5, <1>n
<1> QED
  BY <1>1, <1>6

(* What it has after the payload that carries segment s.                   *)
FirstNals(pic, n) == [k \in 1 .. n |-> pic[k].nal]

Reached(pic, s) ==
  IF Whole(pic, s)
  THEN [nals |-> FirstNals(pic, s.unit), part |-> <<>>, open |-> FALSE]
  ELSE [nals |-> FirstNals(pic, s.unit - 1), part |-> SubSeq(pic[s.unit].nal, 1, s.to),
        open |-> TRUE]

(* One NAL unit more.                                                      *)
LEMMA OneNalMore ==
  ASSUME NEW pic, ProperPicture(pic), NEW n \in 1 .. Len(pic)
  PROVE  Append(FirstNals(pic, n - 1), pic[n].nal) = FirstNals(pic, n)
<1> DEFINE few == FirstNals(pic, n - 1)
           more == Append(few, pic[n].nal)
<1>1. n \in Nat /\ n - 1 \in Nat /\ (n - 1) + 1 = n /\ pic \in Seq(Unit)
  BY DEF ProperPicture
<1>2. few \in Seq(Seq(Byte)) /\ Len(few) = n - 1
  <2>1. \A k \in 1 .. n - 1 : pic[k].nal \in Seq(Byte)
    <3> TAKE k \in 1 .. n - 1
    <3>1. k \in 1 .. Len(pic)
      OBVIOUS
    <3> QED BY <3>1, UnitTypes
  <2> QED BY <1>1, <2>1 DEF FirstNals
<1>3. pic[n].nal \in Seq(Byte)
  BY UnitTypes
<1>4. /\ more \in Seq(Seq(Byte)) /\ Len(more) = n /\ more[n] = pic[n].nal
      /\ \A k \in 1 .. n - 1 : more[k] = few[k]
  <2> HIDE DEF few
  <2> QED BY <1>1, <1>2, <1>3
<1>5. \A k \in 1 .. n - 1 : few[k] = pic[k].nal
  BY DEF FirstNals
<1> HIDE DEF more, few
<1>6. more = [k \in 1 .. n |-> more[k]]
  BY <1>4
<1>7. \A k \in 1 .. n : more[k] = pic[k].nal
  <2> TAKE k \in 1 .. n
  <2>1. k \in 1 .. n - 1 \/ k = n
    BY <1>1
  <2> QED BY <1>4, <1>5, <2>1
<1> QED
  BY <1>6, <1>7 DEF FirstNals, more, few

(* The bytes that a NAL unit has received with the fragment of segment s.  *)
LEMMA PartIs ==
  ASSUME NEW pic, ProperPicture(pic), NEW s, NEW p, Carries(pic, s, p), Tx!IsFragment(p),
         s \in Segment(pic), s.from < s.to, s.to <= NalLen(pic, s.unit)
  PROVE  LET nal == pic[s.unit].nal IN
         /\ s.from = 0 => <<nal[1]>> \o Tx!Data(p) = SubSeq(nal, 1, s.to)
         /\ s.from # 0 => SubSeq(nal, 1, s.from) \o Tx!Data(p) = SubSeq(nal, 1, s.to)
         /\ Whole(pic, s) => SubSeq(nal, 1, s.to) = nal
<1> DEFINE nal == pic[s.unit].nal
<1>1. /\ s.unit \in 1 .. Len(pic) /\ s.from \in Nat /\ s.to \in Nat /\ pic \in Seq(Unit)
      /\ Tx!Data(p) = SubSeq(nal, IF s.from = 0 THEN 2 ELSE s.from + 1, s.to)
  BY DEF Segment, ProperPicture, Carries
<1>2. nal \in Seq(Byte) /\ s.to <= Len(nal) /\ s.to >= 1
  BY <1>1, UnitTypes DEF NalLen
<1>3. Whole(pic, s) => SubSeq(nal, 1, s.to) = nal
  <2>1. \A t \in Seq(Byte) : SubSeq(t, 1, Len(t)) = t
    OBVIOUS
  <2> QED BY <1>2, <2>1 DEF Whole, NalLen
<1> HIDE DEF nal
<1>4. s.from = 0 => <<nal[1]>> \o Tx!Data(p) = SubSeq(nal, 1, s.to)
  <2> HAVE s.from = 0
  <2>1. SubSeq(nal, 1, 1) \o SubSeq(nal, 1 + 1, s.to) = SubSeq(nal, 1, s.to)
    <3>1. 1 \in Nat /\ 1 <= s.to
      BY <1>2
    <3> QED BY <1>1, <1>2, <3>1, SplitSeq
  <2>2. SubSeq(nal, 1, 1) = <<nal[1]>>
    <3>1. 0 \in Nat /\ 1 \in Nat /\ 0 + 1 = 1 /\ 0 + 1 <= Len(nal)
      BY <1>1, <1>2
    <3>2. SubSeq(nal, 0 + 1, 0 + 1) = [i \in 1 .. 1 |-> nal[0 + i]]
      BY <1>2, <3>1, SubSeqIs
    <3>3. SubSeq(nal, 1, 1) = [i \in 1 .. 1 |-> nal[0 + i]]
      BY <3>1, <3>2
    <3>4. \A i \in 1 .. 1 : 0 + i = 1
      OBVIOUS
    <3>5. SubSeq(nal, 1, 1) = [i \in 1 .. 1 |-> nal[1]]
      BY <3>3, <3>4
    <3>6. \A x : [i \in 1 .. 1 |-> x] = <<x>>
      OBVIOUS
    <3> QED BY <3>5, <3>6, Zenon
  <2>3. Tx!Data(p) = SubSeq(nal, 1 + 1, s.to)
    BY <1>1
  <2> QED BY <2>1, <2>2, <2>3
<1>5. s.from # 0 => SubSeq(nal, 1, s.from) \o Tx!Data(p) = SubSeq(nal, 1, s.to)
  <2> HAVE s.from # 0
  <2>1. s.from <= s.to
    BY <1>1
  <2>2. SubSeq(nal, 1, s.from) \o SubSeq(nal, s.from + 1, s.to) = SubSeq(nal, 1, s.to)
    BY <1>1, <1>2, <2>1, SplitSeq
  <2>3. Tx!Data(p) = SubSeq(nal, s.from + 1, s.to)
    BY <1>1
  <2> QED BY <2>2, <2>3
<1> QED
  BY <1>3, <1>4, <1>5 DEF nal

(* The payload with segment s, after those in front of it.                 *)
LEMMA ReceiveReaches ==
  ASSUME NEW pic, ProperPicture(pic), NEW s, NEW p, Carries(pic, s, p),
         s \in Segment(pic), s.from < s.to, s.to <= NalLen(pic, s.unit),
         NEW state,
         s.from = 0 => state.nals = FirstNals(pic, s.unit - 1),
         s.from # 0 => state = [nals |-> FirstNals(pic, s.unit - 1),
                                part |-> SubSeq(pic[s.unit].nal, 1, s.from), open |-> TRUE]
  PROVE  Tx!Receive(state, p) = Reached(pic, s)
<1> DEFINE nal == pic[s.unit].nal
           octet == Tx!UnitOf(p)[1] * 32 + Tx!UnitOf(p)[2]
           part == IF Tx!StartBit(p) THEN <<octet>> \o Tx!Data(p) ELSE state.part \o Tx!Data(p)
<1>1. state.nals = FirstNals(pic, s.unit - 1)
  OBVIOUS
<1>2. Append(state.nals, nal) = FirstNals(pic, s.unit)
  BY <1>1, OneNalMore DEF Segment
<1>3. CASE ~ Tx!IsFragment(p)
  <2>1. s.from = 0 /\ Whole(pic, s) /\ p = nal
    BY <1>3 DEF Carries
  <2> QED BY <1>2, <1>3, <2>1 DEF Tx!Receive, Reached
<1>4. CASE Tx!IsFragment(p)
  <2>1. /\ Tx!StartBit(p) <=> s.from = 0
        /\ Tx!EndBit(p) <=> Whole(pic, s)
        /\ octet = nal[1]
    BY <1>4 DEF Carries
  <2>2. /\ s.from = 0 => <<nal[1]>> \o Tx!Data(p) = SubSeq(nal, 1, s.to)
        /\ s.from # 0 => SubSeq(nal, 1, s.from) \o Tx!Data(p) = SubSeq(nal, 1, s.to)
        /\ Whole(pic, s) => SubSeq(nal, 1, s.to) = nal
    BY <1>4, PartIs
  <2>3. part = SubSeq(nal, 1, s.to)
    <3>1. CASE s.from = 0
      BY <2>1, <2>2, <3>1
    <3>2. CASE s.from # 0
      <4>1. state.part = SubSeq(nal, 1, s.from)
        BY <3>2
      <4> QED BY <2>1, <2>2, <3>2, <4>1
    <3> QED BY <3>1, <3>2
  <2>4. Tx!StartBit(p) \/ state.open
    BY <2>1
  <2>5. Tx!Receive(state, p) =
          IF Tx!EndBit(p)
          THEN [nals |-> Append(state.nals, part), part |-> <<>>, open |-> FALSE]
          ELSE [nals |-> state.nals, part |-> part, open |-> TRUE]
    BY <1>4, <2>4 DEF Tx!Receive
  <2> HIDE DEF part
  <2> QED BY <1>1, <1>2, <2>1, <2>2, <2>3, <2>5 DEF Reached
<1> QED
  BY <1>3, <1>4

(* What a receiver has of the payloads sent so far.                        *)
LEMMA SentReassembles ==
  ASSUME NEW pic, NEW pls, NEW segs, Sent(pic, pls, segs)
  PROVE  Tx!Reassemble(pls) =
           IF segs = <<>> THEN <<>> ELSE Reached(pic, segs[Len(segs)]).nals
<1> DEFINE n == Len(segs)
           st == [k \in 0 .. n |-> IF k = 0 THEN Nothing ELSE Reached(pic, segs[k])]
<1>1. n \in Nat /\ n = Len(pls) /\ pls \in Seq(Seq(Byte)) /\ ProperPicture(pic)
      /\ segs \in Seq(Segment(pic))
  BY DEF Sent
<1>2. ASSUME NEW k \in 0 .. n - 1
      PROVE  st[k+1] = Tx!Receive(st[k], pls[k+1])
  <2>1. k + 1 \in 1 .. n /\ k \in 0 .. n /\ k + 1 \in 0 .. n /\ k + 1 # 0 /\ (k + 1) - 1 = k
    BY <1>1
  <2>2. PICK m, s, p : m = k + 1 /\ s = segs[m] /\ p = pls[m]
    OBVIOUS
  <2>3. Carries(pic, s, p)
    BY <2>1, <2>2, PayloadIs
  <2>4. s \in Segment(pic) /\ s.from < s.to /\ s.to <= NalLen(pic, s.unit)
    <3>1. Reads(pic, s, Read(p))
      BY <2>1, <2>2 DEF Sent
    <3> QED BY <3>1 DEF Reads
  <2>5. /\ s.from = 0 => s.unit = IF k = 0 THEN 1 ELSE segs[k].unit + 1
        /\ s.from # 0 => k # 0 /\ s.unit = segs[k].unit /\ ~ Whole(pic, segs[k])
    <3>1. /\ s.from = 0 => s.unit = IF m = 1 THEN 1 ELSE segs[m - 1].unit + 1
          /\ s.from # 0 => m # 1 /\ s.unit = segs[m - 1].unit /\ ~ Whole(pic, segs[m - 1])
      BY <2>1, <2>2, UnitOfNext
    <3>2. (m = 1 <=> k = 0) /\ m - 1 = k
      BY <2>2
    <3> QED BY <3>1, <3>2
  <2>6. st[k+1] = Reached(pic, s)
    BY <2>1, <2>2
  <2>7. CASE k = 0
    <3>1. st[k] = Nothing
      BY <2>1, <2>7
    <3>2. FirstNals(pic, 1 - 1) = <<>>
      <4>1. 1 .. 1 - 1 = {}
        OBVIOUS
      <4> QED BY <4>1 DEF FirstNals
    <3>3. s.from = 0 /\ s.unit = 1
      BY <2>5, <2>7
    <3>4. Nothing.nals = FirstNals(pic, s.unit - 1)
      BY <3>2, <3>3 DEF Nothing
    <3> HIDE DEF st
    <3> QED BY <1>1, <2>2, <2>3, <2>4, <2>6, <3>1, <3>3, <3>4, ReceiveReaches
  <2>8. CASE k # 0
    <3>0. k \in 1 .. n /\ k \in 1 .. n - 1
      BY <1>1, <2>8
    <3>1. st[k] = Reached(pic, segs[k])
      BY <2>1, <2>8
    <3>2. Follows(pic, segs[k], s)
      BY <2>2, <3>0 DEF Sent
    <3>3. segs[k].unit \in Nat /\ segs[k].to # 0
      <4>1. Reads(pic, segs[k], Read(pls[k]))
        BY <3>0 DEF Sent
      <4> QED BY <4>1 DEF Reads, Segment
    <3>4. CASE Whole(pic, segs[k])
      <4>1. s.from = 0 /\ s.unit = segs[k].unit + 1
        BY <3>2, <3>4 DEF Follows
      <4>2. s.unit - 1 = segs[k].unit
        BY <3>3, <4>1
      <4>3. st[k].nals = FirstNals(pic, s.unit - 1)
        BY <3>1, <3>4, <4>2 DEF Reached
      <4> HIDE DEF st
      <4>4. Tx!Receive(st[k], p) = Reached(pic, s)
        <5>1. PICK state : state = st[k]
          OBVIOUS
        <5>2. /\ s.from = 0 => state.nals = FirstNals(pic, s.unit - 1)
              /\ s.from # 0 => state = [nals |-> FirstNals(pic, s.unit - 1),
                                       part |-> SubSeq(pic[s.unit].nal, 1, s.from), open |-> TRUE]
          BY <4>1, <4>3, <5>1
        <5>3. Tx!Receive(state, p) = Reached(pic, s)
          BY <1>1, <2>3, <2>4, <5>2, ReceiveReaches, Zenon
        <5> QED BY <5>1, <5>3
      <4> QED BY <2>2, <2>6, <4>4
    <3>5. CASE ~ Whole(pic, segs[k])
      <4>1. s.unit = segs[k].unit /\ s.from = segs[k].to /\ s.from # 0
        BY <3>2, <3>3, <3>5 DEF Follows
      <4>2. st[k] = [nals |-> FirstNals(pic, s.unit - 1),
                     part |-> SubSeq(pic[s.unit].nal, 1, s.from), open |-> TRUE]
        BY <3>1, <3>5, <4>1 DEF Reached
      <4> HIDE DEF st
      <4>3. Tx!Receive(st[k], p) = Reached(pic, s)
        <5>1. PICK state : state = st[k]
          OBVIOUS
        <5>2. s.from = 0 => state.nals = FirstNals(pic, s.unit - 1)
          BY <4>1
        <5>3. Tx!Receive(state, p) = Reached(pic, s)
          BY <1>1, <2>3, <2>4, <4>2, <5>1, <5>2, ReceiveReaches, Zenon
        <5> QED BY <5>1, <5>3
      <4> QED BY <2>2, <2>6, <4>3
    <3> QED BY <3>4, <3>5
  <2> QED BY <2>7, <2>8
<1>3. StepsTo(st, pls)
  <2>1. st[0] = Nothing
    BY <1>1
  <2> HIDE DEF st
  <2> QED BY <1>1, <1>2, <2>1 DEF StepsTo
<1>4. Tx!Reassemble(pls) = st[n].nals
  <2> HIDE DEF st
  <2> QED BY <1>1, <1>3, ReassembleIs
<1>5. CASE segs = <<>>
  <2>1. n = 0
    BY <1>5
  <2>2. st[n] = Nothing
    BY <1>1, <2>1
  <2> QED BY <1>4, <1>5, <2>2 DEF Nothing
<1>6. CASE segs # <<>>
  <2>1. n # 0 /\ n \in 0 .. n
    BY <1>1, <1>6
  <2>2. st[n] = Reached(pic, segs[n])
    BY <2>1
  <2> QED BY <1>4, <1>6, <2>2
<1> QED
  BY <1>5, <1>6

(***************************************************************************)
(* The payloads of a picture none of whose NAL units is straddled carry    *)
(* its NAL units, in order and nothing else, for any receiver of the       *)
(* payload format that gets all of them (pjmedia_h264_packetize,           *)
(* h264_packetizer.c:204).                                                 *)
(***************************************************************************)
THEOREM SenderRoundTrips ==
  Spec => [](NoneStraddled /\ pos = Len(picture) => Tx!Reassemble(payloads) = Tx!NalBytes)
<1>1. ASSUME Inv, NoneStraddled, pos = Len(picture)
      PROVE  Tx!Reassemble(payloads) = Tx!NalBytes
  <2>1. PICK off, segs, got : Under(off, segs, got)
    BY <1>1 DEF Inv
  <2>2. Sending(off, segs) /\ Sent(nals, payloads, segs)
    BY <2>1 DEF Under, Sending
  <2>3. Tx!Reassemble(payloads) =
          IF segs = <<>> THEN <<>> ELSE Reached(nals, segs[Len(segs)]).nals
    BY <2>2, SentReassembles
  <2>4. IF segs = <<>> THEN Len(nals) = 0
        ELSE segs[Len(segs)].unit = Len(nals) /\ Whole(nals, segs[Len(segs)])
    BY <1>1, <2>2, SentToTheEnd
  <2>5. nals \in Seq(Unit)
    BY <2>2 DEF Sent, ProperPicture
  <2>6. Tx!NalBytes = FirstNals(nals, Len(nals))
    BY <2>5 DEF Tx!NalBytes, FirstNals
  <2>7. CASE segs = <<>>
    <3>1. Len(nals) = 0
      BY <2>4, <2>7
    <3>2. nals = <<>>
      BY <2>5, <3>1
    <3> QED BY <2>3, <2>7, <3>2 DEF Tx!NalBytes
  <2>8. CASE segs # <<>>
    BY <2>3, <2>4, <2>6, <2>8 DEF Reached
  <2> QED BY <2>7, <2>8
<1> QED
  BY <1>1, Invariance, PTL

(***************************************************************************)
(* Handed one NAL unit at a time, as main does (UnitTest.c:228), the       *)
(* sender always carries over what it was given.                           *)
(***************************************************************************)
THEOREM RoundTripUnitByUnit ==
  ASSUME \A pic \in Pictures : Len(pic) = 1
  PROVE  Spec => []Tx!RoundTrip
<1> DEFINE Arrives == NoneStraddled /\ pos = Len(picture) => Tx!Reassemble(payloads) = Tx!NalBytes
<1>1. Arrives /\ NoneStraddled => Tx!RoundTrip
  BY DEF Tx!RoundTrip, Tx!Done, Tx!buf_len, NoneStraddled
<1>2. Spec => []NoneStraddled
  BY NeverStraddled
<1> QED
  BY <1>1, <1>2, SenderRoundTrips, PTL
=============================================================================
