------------------------ MODULE H264PacketizerProofs ------------------------
(***************************************************************************)
(* Theorems about H264Packetizer, for every MTU, mode and set of pictures. *)
(***************************************************************************)
EXTENDS H264Packetizer, FiniteSetTheorems, SequenceTheorems,
        WellFoundedInduction, TLAPS

(***************************************************************************)
(* A nonempty set of naturals has a least element: the sets 0 .. x, for x  *)
(* in S, are finite, and one of them contains no other.                    *)
(***************************************************************************)
LEMMA MinNat ==
  ASSUME NEW S \in SUBSET Nat, S # {}
  PROVE  Min(S) \in S /\ \A y \in S : Min(S) <= y
<1> DEFINE T == {0 .. x : x \in S}
<1>1. T \subseteq FiniteSubsetsOf(Nat) /\ T # {}
  <2>1. \A x \in S : IsFiniteSet(0 .. x)
    BY FS_Interval
  <2>2. \A x \in S : 0 .. x \in FiniteSubsetsOf(Nat)
    BY <2>1 DEF FiniteSubsetsOf
  <2>3. T # {}
    OBVIOUS
  <2>4. QED
    BY <2>2, <2>3
<1>2. PICK t \in T : \A u \in T : <<u, t>> \notin StrictSubsetOrdering(Nat)
  BY <1>1, FS_StrictSubsetOrderingWellFounded, WFMin
<1>3. PICK x \in S : t = 0 .. x
  OBVIOUS
<1>4. ASSUME NEW y \in S, y < x PROVE FALSE
  <2>1. 0 .. y \subseteq 0 .. x /\ 0 .. y # 0 .. x
    <3>1. x \in 0 .. x /\ x \notin 0 .. y
      BY <1>4
    <3>2. QED
      BY <1>4, <3>1
  <2>2. <<0 .. y, 0 .. x>> \in StrictSubsetOrdering(Nat)
    BY <2>1 DEF StrictSubsetOrdering
  <2>3. QED
    BY <1>2, <1>3, <2>2
<1>5. \A y \in S : x <= y
  BY <1>4
<1>6. QED
  BY <1>5 DEF Min

(***************************************************************************)
(* What find_next_nal_unit returns: nothing, when there is no start code,  *)
(* or the place of three or four bytes that are one.                       *)
(***************************************************************************)
LEMMA FindNext ==
  ASSUME NEW n \in Nat, NEW b \in [0 .. n-1 -> Byte],
         NEW start \in Nat, NEW end \in 0 .. n
  PROVE  LET f == find_next_nal_unit(b, start, end) IN
           \/ /\ f = NULL
              /\ Codes(b, start, end) = {}
           \/ /\ f \in start .. end-3
              /\ \/ CodeAt(b, f)
                 \/ f+4 <= end /\ b[f] = 0 /\ CodeAt(b, f+1)
<1> DEFINE found == Codes(b, start, end)
<1>1. found \in SUBSET Nat
  BY DEF Codes
<1>2. CASE found = {}
  BY <1>2 DEF find_next_nal_unit
<1>3. CASE found # {}
  <2> DEFINE first == Min(found)
  <2>1. first \in found
    BY <1>1, <1>3, MinNat
  <2>2. first \in start .. end-3 /\ CodeAt(b, first)
    BY <2>1 DEF Codes
  <2>3. CASE first > start /\ b[first-1] = 0
    <3>1. find_next_nal_unit(b, start, end) = first - 1
      BY <1>3, <2>3 DEF find_next_nal_unit
    <3> HIDE DEF first, found
    <3>2. first - 1 \in start .. end-3 /\ (first-1) + 4 <= end /\ (first-1) + 1 = first
      BY <2>2, <2>3
    <3>3. QED
      BY <2>2, <2>3, <3>1, <3>2
  <2>4. CASE ~ (first > start /\ b[first-1] = 0)
    <3>1. find_next_nal_unit(b, start, end) = first
      BY <1>3, <2>4 DEF find_next_nal_unit
    <3>2. QED
      BY <2>2, <3>1
  <2>5. QED
    BY <2>3, <2>4
<1>4. QED
  BY <1>2, <1>3

(* A copy of a part of a buffer. *)
LEMMA CopyType ==
  ASSUME NEW n \in Nat, NEW b \in [0 .. n-1 -> Byte],
         NEW from \in Nat, NEW to \in from .. n
  PROVE  /\ Copy(b, from, to) \in Seq(Byte)
         /\ Len(Copy(b, from, to)) = to - from
         /\ \A i \in 1 .. to-from : Copy(b, from, to)[i] = b[from+i-1]
<1> DEFINE len == to - from
<1>1. len \in Nat /\ \A i \in 1 .. len : from+i-1 \in 0 .. n-1
  OBVIOUS
<1>2. Copy(b, from, to) = [i \in 1 .. len |-> b[from+i-1]]
  BY DEF Copy
<1> HIDE DEF len
<1>3. Copy(b, from, to) \in [1 .. len -> Byte]
  BY <1>1, <1>2
<1>4. Copy(b, from, to) \in Seq(Byte)
  BY <1>1, <1>3, SeqDef
<1>5. Len(Copy(b, from, to)) = len
  BY <1>1, <1>3, <1>4, LenProperties
<1>6. QED
  BY <1>2, <1>4, <1>5 DEF len

(* Arithmetic of the FU octets. *)
LEMMA Octets ==
  /\ \A o \in Byte : Nri(o) \in 0 .. 3 /\ Type(o) \in 0 .. 31
  /\ \A nri \in 0 .. 3 :
       LET o == nri * 32 + NAL_TYPE_FU_A IN
         o \in Byte /\ Nri(o) = nri /\ Type(o) = NAL_TYPE_FU_A
  /\ \A type \in 0 .. 31, S \in {0, 1}, e \in {0, 64} :
       LET o == S * 128 + e + type IN
         o \in Byte /\ Type(o) = type /\ (o >= 128 <=> S = 1) /\ (o % 128 >= 64 <=> e = 64)
BY DEF Byte, Nri, Type, NAL_TYPE_FU_A
-----------------------------------------------------------------------------
(***************************************************************************)
(* The inductive invariant.  From pos on, the bitstream is as it was; and  *)
(* pos is at a start code or just behind a payload that fills the MTU, is  *)
(* a fragment and does not end its NAL unit.                               *)
(***************************************************************************)
Untouched == \A i \in pos .. buf_len-1 : buf[i] = picture[i+1]

AtCode == pos + 4 <= buf_len /\ Codes(buf, pos, pos+4) # {}

Midway ==
  /\ mode # SINGLE_NAL
  /\ payloads # <<>>
  /\ pos >= Mtu
  /\ LET last == payloads[Len(payloads)] IN
       /\ IsFragment(last)
       /\ ~ EndBit(last)
       /\ last[1] = buf[pos-Mtu]
       /\ last[2] = buf[pos-Mtu+1]

Ready == pos < buf_len => AtCode \/ Midway

Sendable == Untouched /\ Ready /\ NeverRefused /\ FragmentsFollow

IInv == TypeOK /\ PayloadFitsMtu /\ (WellFormed(picture) => Sendable)

(***************************************************************************)
(* The local variables of a call.                                          *)
(***************************************************************************)
LEMMA CallBounds ==
  ASSUME TypeOK, pos < buf_len
  PROVE  /\ buf_len \in Nat
         /\ nal_start \in pos .. buf_len
         /\ window \in nal_start .. buf_len
         /\ nal_end \in nal_start .. window
         /\ has_octet <=> AtCode
         /\ has_octet => nal_start >= pos + 3 /\ CodeAt(buf, nal_start-3)
         /\ window # buf_len => mode # SINGLE_NAL /\ window = nal_start + Mtu + 1
         /\ \/ nal_end = window
            \/ /\ nal_end + 3 <= window
               /\ \/ CodeAt(buf, nal_end)
                  \/ nal_end + 4 <= window /\ buf[nal_end] = 0 /\ CodeAt(buf, nal_end+1)
<1>1. buf_len \in Nat /\ pos \in Nat /\ buf \in [0 .. buf_len-1 -> Byte]
  BY DEF TypeOK, buf_len
<1>2. /\ nal_start \in pos .. buf_len
      /\ has_octet <=> AtCode
      /\ has_octet => nal_start >= pos + 3 /\ CodeAt(buf, nal_start-3)
  <2>1. CASE buf_len - pos < 4
    BY <1>1, <2>1 DEF nal_start, has_octet, start_code, AtCode
  <2>2. CASE buf_len - pos >= 4
    <3> DEFINE f == find_next_nal_unit(buf, pos, pos+4)
    <3>1. \/ f = NULL /\ Codes(buf, pos, pos+4) = {}
          \/ /\ f \in pos .. pos+1
             /\ \/ CodeAt(buf, f)
                \/ f+4 <= pos+4 /\ buf[f] = 0 /\ CodeAt(buf, f+1)
      BY <1>1, <2>2, FindNext
    <3>2. start_code = f
      BY <1>1, <2>2 DEF start_code
    <3>3. CASE f = NULL /\ Codes(buf, pos, pos+4) = {}
      BY <1>1, <3>2, <3>3 DEF has_octet, nal_start, AtCode
    <3>4. CASE f \in pos .. pos+1 /\ CodeAt(buf, f)
      <4>1. f \in Codes(buf, pos, pos+4)
        BY <1>1, <3>4 DEF Codes
      <4>2. has_octet /\ nal_start = f + 3
        BY <1>1, <3>2, <3>4 DEF has_octet, nal_start, PastCode, CodeAt, NULL
      <4>3. QED
        BY <1>1, <2>2, <3>4, <4>1, <4>2 DEF AtCode
    <3>5. CASE f \in pos .. pos+1 /\ f+4 <= pos+4 /\ buf[f] = 0 /\ CodeAt(buf, f+1)
      <4>1. f+1 \in Codes(buf, pos, pos+4)
        BY <1>1, <3>5 DEF Codes
      <4>2. has_octet /\ nal_start = f + 4
        BY <1>1, <3>2, <3>5 DEF has_octet, nal_start, PastCode, CodeAt, NULL
      <4>3. nal_start - 3 = f + 1
        BY <1>1, <3>5, <4>2
      <4>4. QED
        BY <1>1, <2>2, <3>5, <4>1, <4>2, <4>3 DEF AtCode
    <3>6. QED
      BY <3>1, <3>3, <3>4, <3>5
  <2>3. QED
    BY <1>1, <2>1, <2>2
<1>3. /\ window \in nal_start .. buf_len
      /\ window # buf_len => mode # SINGLE_NAL /\ window = nal_start + Mtu + 1
  BY <1>1, <1>2, MtuAssumption DEF window
<1>4. /\ nal_end \in nal_start .. window
      /\ \/ nal_end = window
         \/ /\ nal_end + 3 <= window
            /\ \/ CodeAt(buf, nal_end)
               \/ nal_end + 4 <= window /\ buf[nal_end] = 0 /\ CodeAt(buf, nal_end+1)
  <2> DEFINE f == find_next_nal_unit(buf, nal_start, window)
  <2>1. \/ f = NULL
        \/ /\ f \in nal_start .. window-3
           /\ \/ CodeAt(buf, f)
              \/ f+4 <= window /\ buf[f] = 0 /\ CodeAt(buf, f+1)
    BY <1>1, <1>2, <1>3, FindNext
  <2>2. nal_end = IF f = NULL THEN window ELSE f
    BY DEF nal_end
  <2>3. QED
    BY <1>1, <1>2, <1>3, <2>1, <2>2 DEF NULL
<1>5. QED
  BY <1>1, <1>2, <1>3, <1>4

(***************************************************************************)
(* In a well-formed bitstream a call finds a NAL unit octet of an ordinary *)
(* type behind the start code, at least one byte to send, and another      *)
(* start code where it finds the end of the NAL unit.                      *)
(***************************************************************************)
LEMMA CallWellFormed ==
  ASSUME TypeOK, pos < buf_len, WellFormed(picture), Untouched
  PROVE  /\ has_octet => /\ nal_start < buf_len
                         /\ Type(buf[nal_start]) \in 1 .. 23
         /\ nal_start < nal_end \/ has_octet
         /\ nal_end # window =>
              nal_end + 4 <= buf_len /\ Codes(buf, nal_end, nal_end+4) # {}
<1>1. /\ buf_len \in Nat /\ pos \in Nat
      /\ nal_start \in pos .. buf_len
      /\ window \in nal_start .. buf_len
      /\ nal_end \in nal_start .. window
  BY CallBounds DEF TypeOK
<1>2. ASSUME NEW p \in pos .. buf_len-3, CodeAt(buf, p)
      PROVE  p + 3 < buf_len /\ Type(buf[p+3]) \in 1 .. 23
  <2>1. CodeAt(BufferOf(picture), p)
    BY <1>1, <1>2 DEF Untouched, CodeAt, BufferOf, buf_len
  <2>2. p # buf_len-3 /\ Type(BufferOf(picture)[p+3]) \in 1 .. 23
    BY <1>1, <1>2, <2>1
       DEF WellFormed, buf_len, NAL_TYPE_SINGLE_NAL_MIN, NAL_TYPE_SINGLE_NAL_MAX
  <2>3. p+3 \in pos .. buf_len-1
    BY <1>1, <1>2, <2>2
  <2>4. buf[p+3] = BufferOf(picture)[p+3]
    BY <1>1, <2>3 DEF Untouched, BufferOf, buf_len
  <2>5. QED
    BY <1>1, <2>2, <2>3, <2>4
<1>3. has_octet => nal_start < buf_len /\ Type(buf[nal_start]) \in 1 .. 23
  <2>1. SUFFICES ASSUME has_octet
                 PROVE  nal_start < buf_len /\ Type(buf[nal_start]) \in 1 .. 23
    OBVIOUS
  <2>2. nal_start - 3 \in pos .. buf_len-3 /\ CodeAt(buf, nal_start-3)
    BY <1>1, <2>1, CallBounds
  <2>3. (nal_start - 3) + 3 = nal_start
    BY <1>1
  <2>4. QED
    BY <1>2, <2>2, <2>3
<1>4. ASSUME nal_end # window
      PROVE  /\ nal_end + 4 <= buf_len
             /\ \E p \in nal_end .. nal_end+1 : CodeAt(buf, p)
             /\ Codes(buf, nal_end, nal_end+4) # {}
  <2>1. CASE CodeAt(buf, nal_end) /\ nal_end + 3 <= window
    <3>1. nal_end \in pos .. buf_len-3
      BY <1>1, <2>1
    <3>2. nal_end + 3 < buf_len
      BY <1>2, <2>1, <3>1
    <3>3. nal_end \in Codes(buf, nal_end, nal_end+4)
      BY <1>1, <2>1 DEF Codes
    <3>4. QED
      BY <1>1, <2>1, <3>2, <3>3
  <2>2. CASE nal_end + 4 <= window /\ CodeAt(buf, nal_end+1)
    <3>1. nal_end+1 \in Codes(buf, nal_end, nal_end+4)
      BY <1>1, <2>2 DEF Codes
    <3>2. QED
      BY <1>1, <2>2, <3>1
  <2>3. QED
    BY <1>4, <2>1, <2>2, CallBounds
<1>5. nal_start < nal_end \/ has_octet
  <2>1. SUFFICES ASSUME ~ has_octet, nal_end = nal_start
                 PROVE  FALSE
    BY <1>1
  <2>2. nal_start = pos /\ ~ AtCode
    BY <2>1, CallBounds DEF nal_start
  <2>3. nal_end # window
    BY <1>1, <2>1, <2>2, CallBounds, MtuAssumption
  <2>4. pos + 4 <= buf_len /\ Codes(buf, pos, pos+4) # {}
    BY <1>4, <2>1, <2>2, <2>3
  <2>5. QED
    BY <2>2, <2>4 DEF AtCode
<1>6. QED
  BY <1>3, <1>4, <1>5
-----------------------------------------------------------------------------
(***************************************************************************)
(* What the FU-A packet of a fragment whose data starts at from does.      *)
(***************************************************************************)
Emitted(from, nri, type, S) ==
  LET last == payloads'[Len(payloads')] IN
     /\ buf' \in [0 .. buf_len-1 -> Byte]
     /\ payloads' \in Seq(Seq(Byte))
     /\ Len(payloads') = Len(payloads) + 1
     /\ \A k \in 1 .. Len(payloads) : payloads'[k] = payloads[k]
     /\ Len(last) <= Mtu /\ Len(last) >= 2
     /\ last[1] = buf'[from-2] /\ last[2] = buf'[from-1]
     /\ IsFragment(last)
     /\ UnitOf(last) = <<nri, type>>
     /\ StartBit(last) <=> S = 1
     /\ EndBit(last) <=> WholeLen(from) <= Mtu
     /\ pos' = from - 2 + Len(last) /\ pos' \in from .. nal_end
     /\ Len(last) = fu_payload_len(from)
     /\ picture' = picture /\ status' = "SUCCESS"
     /\ \A i \in from .. buf_len-1 : buf'[i] = buf[i]

LEMMA Emit ==
  ASSUME TypeOK, pos < buf_len,
         NEW from \in Nat, NEW nri \in 0 .. 3, NEW type \in 0 .. 31,
         NEW S \in {0, 1},
         from >= 2, from <= nal_end, nal_end <= buf_len, nal_end \in Nat,
         from < buf_len,
         EmitFragment(from, nri, type, S)
  PROVE  Emitted(from, nri, type, S)
<1> DEFINE indicator == nri * 32 + NAL_TYPE_FU_A
           header    == fu_header(from, type, S)
           len       == fu_payload_len(from)
           load      == Copy(buf', from-2, from-2+len)
<1>1. buf_len \in Nat /\ buf \in [0 .. buf_len-1 -> Byte] /\ payloads \in Seq(Seq(Byte))
  BY DEF TypeOK, buf_len
<1>2. WholeLen(from) \in Nat /\ WholeLen(from) >= 2
  BY <1>1 DEF WholeLen, HEADER_SIZE_FU_A
<1>3. len \in 2 .. Mtu /\ from-2+len <= nal_end
  BY <1>1, <1>2, MtuAssumption DEF fu_payload_len, WholeLen, HEADER_SIZE_FU_A
<1>4. /\ indicator \in Byte
      /\ Nri(indicator) = nri
      /\ Type(indicator) = NAL_TYPE_FU_A
  BY Octets
<1>5. /\ header \in Byte
      /\ Type(header) = type
      /\ header >= 128 <=> S = 1
      /\ header % 128 >= 64 <=> WholeLen(from) <= Mtu
  <2> DEFINE e == IF WholeLen(from) <= Mtu THEN 64 ELSE 0
  <2>1. e \in {0, 64} /\ (e = 64 <=> WholeLen(from) <= Mtu)
    OBVIOUS
  <2>2. header = S * 128 + e + type
    BY DEF fu_header
  <2> HIDE DEF e, header
  <2>3. QED
    BY <2>1, <2>2, Octets
<1>6. buf' = [buf EXCEPT ![from-2] = indicator, ![from-1] = header]
  BY <1>1 DEF EmitFragment, HEADER_SIZE_FU_A
<1>7. /\ payloads' = Append(payloads, load) /\ pos' = from-2+len
      /\ picture' = picture /\ status' = "SUCCESS"
  BY <1>6 DEF EmitFragment, HEADER_SIZE_FU_A
<1> HIDE DEF indicator, header, len
<1>8. /\ buf' \in [0 .. buf_len-1 -> Byte]
      /\ buf'[from-2] = indicator
      /\ buf'[from-1] = header
      /\ \A i \in from .. buf_len-1 : buf'[i] = buf[i]
  <2>1. from-2 \in 0 .. buf_len-1 /\ from-1 \in 0 .. buf_len-1 /\ from-2 # from-1
    BY <1>1
  <2>2. \A i \in from .. buf_len-1 : i \in 0 .. buf_len-1 /\ i # from-2 /\ i # from-1
    BY <1>1
  <2>3. QED
    BY <1>1, <1>4, <1>5, <1>6, <2>1, <2>2
<1>9. /\ load \in Seq(Byte)
      /\ Len(load) = len
      /\ load[1] = indicator
      /\ load[2] = header
  <2> DEFINE lo == from-2
             hi == from-2+len
  <2>1. lo \in Nat /\ hi \in lo .. buf_len /\ hi - lo = len
    BY <1>1, <1>3
  <2>2. /\ load \in Seq(Byte)
        /\ Len(load) = len
        /\ \A i \in 1 .. len : load[i] = buf'[from-2+i-1]
    <3>1. load = Copy(buf', lo, hi)
      OBVIOUS
    <3>2. \A i : lo+i-1 = from-2+i-1
      OBVIOUS
    <3> HIDE DEF lo, hi, load
    <3>3. /\ load \in Seq(Byte)
          /\ Len(load) = hi - lo
          /\ \A i \in 1 .. hi-lo : load[i] = buf'[lo+i-1]
      BY <1>1, <1>8, <2>1, <3>1, CopyType
    <3>4. QED
      BY <2>1, <3>2, <3>3
  <2>3. load[1] = buf'[from-2] /\ load[2] = buf'[from-1]
    <3>1. load[1] = buf'[from-2+1-1] /\ load[2] = buf'[from-2+2-1]
      BY <1>3, <2>2
    <3>2. from-2+1-1 = from-2 /\ from-2+2-1 = from-1
      OBVIOUS
    <3>3. QED
      BY <3>1, <3>2
  <2>4. QED
    BY <1>8, <2>2, <2>3
<1>10. /\ IsFragment(load)
       /\ UnitOf(load) = <<nri, type>>
       /\ StartBit(load) <=> S = 1
       /\ EndBit(load) <=> WholeLen(from) <= Mtu
  BY <1>4, <1>5, <1>9
     DEF IsFragment, UnitOf, StartBit, EndBit, Nri, Type, NAL_TYPE_FU_A
<1> HIDE DEF load
<1>11. /\ payloads' \in Seq(Seq(Byte))
       /\ Len(payloads') = Len(payloads) + 1
       /\ payloads'[Len(payloads')] = load
       /\ \A k \in 1 .. Len(payloads) : payloads'[k] = payloads[k]
  BY <1>1, <1>7, <1>9
<1>12. len \in 2 .. Mtu /\ Mtu \in Nat
  BY <1>3, MtuAssumption
<1>13. len = fu_payload_len(from)
  BY DEF len
<1>14. /\ Len(load) <= Mtu /\ Len(load) >= 2
       /\ load[1] = buf'[from-2] /\ load[2] = buf'[from-1]
       /\ pos' = from - 2 + Len(load) /\ pos' \in from .. nal_end
       /\ Len(load) = fu_payload_len(from)
  BY <1>3, <1>7, <1>8, <1>9, <1>12, <1>13
<1>15. QED
  BY <1>7, <1>8, <1>10, <1>11, <1>14 DEF Emitted
-----------------------------------------------------------------------------
(* FirstFragment and NextFragment emit a fragment that Emit describes. *)
LEMMA FirstFragmentEmits ==
  ASSUME TypeOK, FirstFragment
  PROVE  /\ nal_end - nal_start > Mtu
         /\ has_octet
         /\ WholeLen(nal_start+1) > Mtu /\ ~ (WholeLen(nal_start+1) <= Mtu)
         /\ nal_start >= pos + 3 /\ nal_start \in Nat
         /\ nal_start+1 \in Nat /\ nal_start+1 >= 2 /\ nal_start+1 <= nal_end
         /\ nal_end \in Nat /\ nal_end <= buf_len /\ nal_start+1 < buf_len
         /\ Nri(buf[nal_start]) \in 0 .. 3 /\ Type(buf[nal_start]) \in 0 .. 31
         /\ EmitFragment(nal_start+1, Nri(buf[nal_start]), Type(buf[nal_start]), 1)
<1>1. pos \in Nat /\ pos < buf_len /\ buf_len \in Nat /\ buf \in [0 .. buf_len-1 -> Byte]
  BY DEF TypeOK, FirstFragment, Looping, buf_len
<1>2. /\ has_octet /\ nal_end - nal_start > Mtu
      /\ EmitFragment(nal_start+1, Nri(buf[nal_start]), Type(buf[nal_start]), 1)
  BY DEF FirstFragment, fragmenting
<1>3. /\ nal_start \in pos .. buf_len /\ window \in nal_start .. buf_len
      /\ nal_end \in nal_start .. window /\ nal_start >= pos + 3
  BY <1>1, <1>2, CallBounds
<1>4. nal_start \in 0 .. buf_len-1 /\ nal_start + 1 < buf_len /\ nal_start+1 <= nal_end
  BY <1>1, <1>2, <1>3, MtuAssumption DEF HEADER_SIZE_FU_A
<1>5. Nri(buf[nal_start]) \in 0 .. 3 /\ Type(buf[nal_start]) \in 0 .. 31
  <2>1. buf[nal_start] \in Byte
    BY <1>1, <1>4
  <2>2. QED
    BY <2>1, Octets
<1>6. WholeLen(nal_start+1) > Mtu /\ ~ (WholeLen(nal_start+1) <= Mtu)
  BY <1>1, <1>2, <1>3, MtuAssumption DEF WholeLen, HEADER_SIZE_FU_A
<1>7. QED
  BY <1>1, <1>2, <1>3, <1>4, <1>5, <1>6

LEMMA NextFragmentEmits ==
  ASSUME TypeOK, NextFragment
  PROVE  /\ ~ has_octet /\ nal_start = pos /\ pos >= Mtu
         /\ nal_start \in Nat /\ nal_start >= 2 /\ nal_start <= nal_end
         /\ nal_end \in Nat /\ nal_end <= buf_len /\ nal_start < buf_len
         /\ Nri(buf[previous]) \in 0 .. 3 /\ Type(buf[previous+1]) \in 0 .. 31
         /\ EmitFragment(nal_start, Nri(buf[previous]), Type(buf[previous+1]), 0)
<1>1. pos \in Nat /\ pos < buf_len /\ buf_len \in Nat /\ buf \in [0 .. buf_len-1 -> Byte]
  BY DEF TypeOK, NextFragment, Looping, buf_len
<1>2. /\ ~ has_octet /\ previous_found
      /\ EmitFragment(nal_start, Nri(buf[previous]), Type(buf[previous+1]), 0)
  BY DEF NextFragment
<1>3. /\ window \in nal_start .. buf_len /\ nal_end \in nal_start .. window
      /\ nal_start = pos
  BY <1>1, <1>2, CallBounds DEF nal_start
<1>4. previous = pos - Mtu /\ previous >= 0
  BY <1>2, <1>3 DEF previous, previous_found
<1>5. pos >= Mtu /\ previous \in 0 .. buf_len-1 /\ previous + 1 \in 0 .. buf_len-1
  BY <1>1, <1>4, MtuAssumption DEF HEADER_SIZE_FU_A
<1>6. Nri(buf[previous]) \in 0 .. 3 /\ Type(buf[previous+1]) \in 0 .. 31
  <2>1. buf[previous] \in Byte /\ buf[previous+1] \in Byte
    BY <1>1, <1>5
  <2>2. QED
    BY <2>1, Octets
<1>7. pos >= 2
  BY <1>1, <1>5, MtuAssumption DEF HEADER_SIZE_FU_A
<1>8. QED
  BY <1>1, <1>2, <1>3, <1>5, <1>6, <1>7
-----------------------------------------------------------------------------
(* No call changes the mode. *)
LEMMA ModeKept == [Next]_vars => mode' = mode
BY DEF Next, vars, Packetize, TooSmall, Cancel, Fail, FirstFragment, NextFragment,
   EmitFragment, SingleNal, NullOctet, h264_test

(***************************************************************************)
(* The types and the length of the payloads are preserved, whatever the    *)
(* bitstream is.                                                           *)
(***************************************************************************)
LEMMA TypeStep ==
  ASSUME TypeOK, PayloadFitsMtu, [Next]_vars
  PROVE  TypeOK' /\ PayloadFitsMtu'
<1>1. /\ buf_len \in Nat /\ pos \in 0 .. buf_len /\ picture \in Seq(Byte)
      /\ buf \in [0 .. buf_len-1 -> Byte] /\ payloads \in Seq(Seq(Byte))
      /\ mode \in {SINGLE_NAL, NON_INTERLEAVED, INTERLEAVED} /\ mode' = mode
  BY ModeKept DEF TypeOK, buf_len
<1>2. ASSUME /\ picture' = picture
             /\ buf' \in [0 .. buf_len-1 -> Byte]
             /\ pos' \in 0 .. buf_len
             /\ status' = "SUCCESS"
             /\ payloads' \in Seq(Seq(Byte))
             /\ Len(payloads') = Len(payloads) + 1
             /\ \A k \in 1 .. Len(payloads) : payloads'[k] = payloads[k]
             /\ Len(payloads'[Len(payloads')]) <= Mtu
      PROVE  TypeOK' /\ PayloadFitsMtu'
  <2>1. TypeOK'
    BY <1>1, <1>2 DEF TypeOK, buf_len
  <2>2. ASSUME NEW k \in DOMAIN payloads' PROVE Len(payloads'[k]) <= Mtu
    <3>1. k \in 1 .. Len(payloads) \/ k = Len(payloads')
      BY <1>1, <1>2, <2>2
    <3>2. CASE k \in 1 .. Len(payloads)
      <4>1. payloads'[k] = payloads[k] /\ k \in DOMAIN payloads
        BY <1>1, <1>2, <3>2
      <4>2. QED
        BY <4>1 DEF PayloadFitsMtu
    <3>3. CASE k = Len(payloads')
      BY <1>2, <3>3
    <3>4. QED
      BY <3>1, <3>2, <3>3
  <2>3. QED
    BY <2>1, <2>2 DEF PayloadFitsMtu
<1>3. CASE TooSmall
  BY <1>3 DEF TooSmall, Fail, TypeOK, PayloadFitsMtu, buf_len
<1>4. CASE Cancel
  BY <1>4 DEF Cancel, Fail, TypeOK, PayloadFitsMtu, buf_len
<1>5. CASE NullOctet
  BY <1>5 DEF NullOctet, TypeOK, PayloadFitsMtu, buf_len
<1>6. CASE UNCHANGED vars
  BY <1>6 DEF vars, TypeOK, PayloadFitsMtu, buf_len
<1>7. CASE FirstFragment
  <2>1. pos < buf_len
    BY <1>7 DEF FirstFragment, Looping
  <2>2. /\ picture' = picture /\ status' = "SUCCESS"
        /\ buf' \in [0 .. buf_len-1 -> Byte]
        /\ payloads' \in Seq(Seq(Byte))
        /\ Len(payloads') = Len(payloads) + 1
        /\ \A k \in 1 .. Len(payloads) : payloads'[k] = payloads[k]
        /\ Len(payloads'[Len(payloads')]) <= Mtu
        /\ pos' \in nal_start+1 .. nal_end
    BY <1>7, <2>1, FirstFragmentEmits, Emit DEF Emitted
  <2>3. pos' \in 0 .. buf_len
    BY <1>1, <1>7, <2>2, FirstFragmentEmits
  <2>4. QED
    BY <1>2, <2>2, <2>3
<1>8. CASE NextFragment
  <2>1. pos < buf_len
    BY <1>8 DEF NextFragment, Looping
  <2>2. /\ picture' = picture /\ status' = "SUCCESS"
        /\ buf' \in [0 .. buf_len-1 -> Byte]
        /\ payloads' \in Seq(Seq(Byte))
        /\ Len(payloads') = Len(payloads) + 1
        /\ \A k \in 1 .. Len(payloads) : payloads'[k] = payloads[k]
        /\ Len(payloads'[Len(payloads')]) <= Mtu
        /\ pos' \in nal_start .. nal_end
    BY <1>8, <2>1, NextFragmentEmits, Emit DEF Emitted
  <2>3. pos' \in 0 .. buf_len
    BY <1>1, <1>8, <2>2, NextFragmentEmits
  <2>4. QED
    BY <1>2, <2>2, <2>3
<1>9. CASE SingleNal
  <2>1. pos < buf_len
    BY <1>9 DEF SingleNal, Looping
  <2>2. nal_start \in Nat /\ nal_end \in nal_start .. buf_len
    BY <1>1, <2>1, CallBounds
  <2>3. nal_end - nal_start <= Mtu
    BY <1>9, <2>2, MtuAssumption DEF SingleNal, fragmenting, too_small
  <2> DEFINE load == Copy(buf, nal_start, nal_end)
  <2>4. load \in Seq(Byte) /\ Len(load) = nal_end - nal_start
    BY <1>1, <2>2, CopyType
  <2>5. /\ payloads' = Append(payloads, load) /\ pos' = nal_end
        /\ picture' = picture /\ buf' = buf /\ status' = "SUCCESS"
    BY <1>9 DEF SingleNal
  <2> HIDE DEF load
  <2>6. /\ payloads' \in Seq(Seq(Byte))
        /\ Len(payloads') = Len(payloads) + 1
        /\ payloads'[Len(payloads')] = load
        /\ \A k \in 1 .. Len(payloads) : payloads'[k] = payloads[k]
    BY <1>1, <2>4, <2>5
  <2>7. pos' \in 0 .. buf_len
    BY <1>1, <2>2, <2>5
  <2>8. QED
    BY <1>1, <1>2, <2>3, <2>4, <2>5, <2>6, <2>7
<1>10. ASSUME NEW pic \in Pictures, h264_test(pic)
       PROVE  TypeOK' /\ PayloadFitsMtu'
  <2> DEFINE s == Layout(pic)
  <2>1. s \in Seq(Byte)
    BY PicturesAssumption
  <2>2. /\ picture' = s /\ buf' = BufferOf(s) /\ pos' = 0
        /\ status' = "SUCCESS" /\ payloads' = <<>>
    BY <1>10 DEF h264_test
  <2> HIDE DEF s
  <2>3. BufferOf(s) \in [0 .. Len(s)-1 -> Byte]
    BY <2>1 DEF BufferOf
  <2>4. QED
    BY <1>1, <2>1, <2>2, <2>3 DEF TypeOK, PayloadFitsMtu, buf_len
<1>11. QED
  BY <1>3, <1>4, <1>5, <1>6, <1>7, <1>8, <1>9, <1>10 DEF Next, Packetize
-----------------------------------------------------------------------------
SameFrom(b, c, p, n) == \A i \in p .. n-1 : b[i] = c[i]

(* Buffers that agree from p on have the same start codes there. *)
LEMMA SameCodes ==
  ASSUME NEW n \in Nat, NEW p \in Nat, NEW end \in 0 .. n, NEW b, NEW c,
         SameFrom(b, c, p, n)
  PROVE  Codes(b, p, end) = Codes(c, p, end)
<1>1. ASSUME NEW q \in p .. end-3
      PROVE  CodeAt(b, q) <=> CodeAt(c, q)
  <2>1. q \in p .. n-1 /\ q+1 \in p .. n-1 /\ q+2 \in p .. n-1
    OBVIOUS
  <2>2. QED
    BY <2>1 DEF CodeAt, SameFrom
<1>2. QED
  BY <1>1 DEF Codes

(***************************************************************************)
(* A payload that is a continuation only of the payload before it keeps    *)
(* FragmentsFollow.                                                        *)
(***************************************************************************)
LEMMA FollowStep ==
  ASSUME TypeOK, FragmentsFollow, WellFormed(picture), picture' = picture,
         payloads' \in Seq(Seq(Byte)),
         Len(payloads') = Len(payloads) + 1,
         \A k \in 1 .. Len(payloads) : payloads'[k] = payloads[k],
         LET last   == payloads'[Len(payloads')]
             before == payloads[Len(payloads)] IN
           IsFragment(last) /\ ~ StartBit(last) =>
             /\ payloads # <<>>
             /\ IsFragment(before)
             /\ ~ EndBit(before)
             /\ UnitOf(last) = UnitOf(before)
  PROVE  FragmentsFollow'
<1>1. payloads \in Seq(Seq(Byte)) /\ Len(payloads) \in Nat
  BY DEF TypeOK
<1>2. ASSUME NEW k \in DOMAIN payloads', IsFragment(payloads'[k]), ~ StartBit(payloads'[k])
      PROVE  /\ k > 1
             /\ IsFragment(payloads'[k-1])
             /\ ~ EndBit(payloads'[k-1])
             /\ UnitOf(payloads'[k]) = UnitOf(payloads'[k-1])
  <2>1. k \in 1 .. Len(payloads) \/ k = Len(payloads')
    BY <1>1, <1>2
  <2>2. CASE k \in 1 .. Len(payloads)
    <3>1. k \in DOMAIN payloads /\ payloads'[k] = payloads[k]
      BY <1>1, <2>2
    <3>2. /\ k > 1
          /\ IsFragment(payloads[k-1])
          /\ ~ EndBit(payloads[k-1])
          /\ UnitOf(payloads[k]) = UnitOf(payloads[k-1])
      BY <1>2, <3>1 DEF FragmentsFollow
    <3>3. payloads'[k-1] = payloads[k-1]
      <4>1. k-1 \in 1 .. Len(payloads)
        BY <1>1, <2>2, <3>2
      <4>2. QED
        BY <4>1
    <3>4. QED
      BY <3>1, <3>2, <3>3
  <2>3. CASE k = Len(payloads')
    <3>1. payloads # <<>>
      BY <1>2, <2>3
    <3>2. Len(payloads) >= 1 /\ k - 1 = Len(payloads)
      BY <1>1, <2>3, <3>1
    <3>3. payloads'[k-1] = payloads[Len(payloads)]
      BY <1>1, <3>2
    <3>4. QED
      BY <1>1, <1>2, <2>3, <3>2, <3>3
  <2>4. QED
    BY <2>1, <2>2, <2>3
<1>3. QED
  BY <1>2 DEF FragmentsFollow

(* A call that fails fails on no well-formed bitstream that fits the mode. *)
LEMMA FoundStep ==
  ASSUME TypeOK, pos < buf_len, Ready, ~ has_octet
  PROVE  Midway /\ nal_start = pos /\ previous_found
<1>1. ~ AtCode
  BY CallBounds
<1>2. Midway /\ nal_start = pos
  BY <1>1 DEF Ready, nal_start
<1>3. previous = pos - Mtu /\ pos >= Mtu
  BY <1>2 DEF Midway, previous
<1>4. previous_found
  BY <1>3, MtuAssumption DEF previous_found, TypeOK, buf_len, HEADER_SIZE_FU_A
<1>5. QED
  BY <1>2, <1>4
-----------------------------------------------------------------------------
LEMMA FirstFragmentStep ==
  ASSUME TypeOK, WellFormed(picture), Sendable, FirstFragment
  PROVE  Sendable' /\ pos' > pos
<1> DEFINE last == payloads'[Len(payloads')]
<1>1. /\ buf_len \in Nat /\ pos \in 0 .. buf_len /\ pos < buf_len /\ Mtu \in Nat /\ Mtu > 2
      /\ payloads \in Seq(Seq(Byte))
  BY MtuAssumption DEF TypeOK, FirstFragment, Looping, buf_len, HEADER_SIZE_FU_A
<1>2. /\ WholeLen(nal_start+1) > Mtu /\ ~ (WholeLen(nal_start+1) <= Mtu)
      /\ nal_start >= pos + 3 /\ nal_start \in Nat
      /\ nal_start+1 <= nal_end /\ nal_end \in Nat /\ nal_end <= buf_len
  BY FirstFragmentEmits
<1>3. /\ payloads' \in Seq(Seq(Byte))
      /\ Len(payloads') = Len(payloads) + 1
      /\ \A k \in 1 .. Len(payloads) : payloads'[k] = payloads[k]
      /\ last[1] = buf'[(nal_start+1)-2] /\ last[2] = buf'[(nal_start+1)-1]
      /\ IsFragment(last) /\ StartBit(last) /\ ~ EndBit(last)
      /\ pos' = (nal_start+1) - 2 + Len(last)
      /\ pos' \in nal_start+1 .. nal_end
      /\ Len(last) = fu_payload_len(nal_start+1)
      /\ picture' = picture /\ status' = "SUCCESS"
      /\ \A i \in nal_start+1 .. buf_len-1 : buf'[i] = buf[i]
  <2>1. Emitted(nal_start+1, Nri(buf[nal_start]), Type(buf[nal_start]), 1)
    BY <1>1, FirstFragmentEmits, Emit
  <2>2. QED
    BY <1>2, <2>1 DEF Emitted
<1> HIDE DEF last
<1>4. Len(last) = Mtu
  BY <1>2, <1>3 DEF fu_payload_len
<1>5. Untouched'
  <2>1. buf_len' = buf_len
    BY <1>3 DEF buf_len
  <2>2. ASSUME NEW i \in pos' .. buf_len-1 PROVE buf'[i] = picture'[i+1]
    <3>1. i \in nal_start+1 .. buf_len-1 /\ i \in pos .. buf_len-1
      BY <1>1, <1>2, <1>3
    <3>2. QED
      BY <1>3, <3>1 DEF Sendable, Untouched
  <2>3. QED
    BY <2>1, <2>2 DEF Untouched
<1>6. Midway'
  <2>1. mode' # SINGLE_NAL
    BY DEF FirstFragment, fragmenting, EmitFragment
  <2>2. payloads' # <<>>
    BY <1>1, <1>3
  <2>3. pos' >= Mtu /\ pos' - Mtu = (nal_start+1)-2 /\ (pos' - Mtu) + 1 = (nal_start+1)-1
    <3>1. pos' = (nal_start+1) - 2 + Mtu
      BY <1>3, <1>4
    <3>2. nal_start \in Nat /\ nal_start >= 3 /\ Mtu \in Nat
      BY <1>1, <1>2
    <3>3. QED
      BY <3>1, <3>2
  <2>4. QED
    BY <1>3, <2>1, <2>2, <2>3 DEF Midway, last
<1>7. FragmentsFollow'
  BY <1>3, FollowStep DEF Sendable, last
<1>8. pos' > pos
  BY <1>1, <1>2, <1>3
<1>9. QED
  BY <1>3, <1>5, <1>6, <1>7, <1>8 DEF Sendable, Ready, NeverRefused

LEMMA NextFragmentStep ==
  ASSUME TypeOK, WellFormed(picture), Sendable, NextFragment
  PROVE  Sendable' /\ pos' > pos
<1> DEFINE last   == payloads'[Len(payloads')]
           before == payloads[Len(payloads)]
<1>1. /\ buf_len \in Nat /\ pos \in 0 .. buf_len /\ pos < buf_len /\ Mtu \in Nat /\ Mtu > 2
      /\ payloads \in Seq(Seq(Byte))
  BY MtuAssumption DEF TypeOK, NextFragment, Looping, buf_len, HEADER_SIZE_FU_A
<1>2. /\ ~ has_octet /\ nal_start = pos /\ pos >= Mtu
      /\ nal_end \in Nat /\ nal_end <= buf_len
  BY NextFragmentEmits
<1>3. /\ payloads' \in Seq(Seq(Byte))
      /\ Len(payloads') = Len(payloads) + 1
      /\ \A k \in 1 .. Len(payloads) : payloads'[k] = payloads[k]
      /\ last[1] = buf'[nal_start-2] /\ last[2] = buf'[nal_start-1]
      /\ IsFragment(last) /\ ~ StartBit(last)
      /\ EndBit(last) <=> WholeLen(nal_start) <= Mtu
      /\ UnitOf(last) = <<Nri(buf[previous]), Type(buf[previous+1])>>
      /\ pos' = nal_start - 2 + Len(last)
      /\ pos' \in nal_start .. nal_end
      /\ Len(last) = fu_payload_len(nal_start)
      /\ picture' = picture /\ status' = "SUCCESS"
      /\ \A i \in nal_start .. buf_len-1 : buf'[i] = buf[i]
  <2>1. Emitted(nal_start, Nri(buf[previous]), Type(buf[previous+1]), 0)
    BY <1>1, NextFragmentEmits, Emit
  <2>2. QED
    BY <2>1 DEF Emitted
<1> HIDE DEF last
<1>4. /\ Midway
      /\ \A i \in pos .. buf_len-1 : buf[i] = picture[i+1]
  BY <1>1, <1>2, FoundStep DEF Sendable, Untouched
<1>5. buf_len' = buf_len
  BY <1>3 DEF buf_len
<1>6. Untouched'
  <2>1. ASSUME NEW i \in pos' .. buf_len-1 PROVE buf'[i] = picture'[i+1]
    <3>1. i \in nal_start .. buf_len-1 /\ i \in pos .. buf_len-1
      BY <1>1, <1>2, <1>3
    <3>2. QED
      BY <1>3, <1>4, <3>1
  <2>2. QED
    BY <1>5, <2>1 DEF Untouched
<1>7. nal_start < nal_end
  BY <1>1, <1>2, CallWellFormed DEF Sendable
<1>8. Ready' /\ pos' > pos
  <2>1. CASE WholeLen(nal_start) > Mtu
    <3>1. Len(last) = Mtu
      BY <1>3, <2>1 DEF fu_payload_len
    <3>2. /\ pos' >= Mtu /\ pos' > pos
          /\ pos' - Mtu = nal_start-2 /\ (pos' - Mtu) + 1 = nal_start-1
      BY <1>1, <1>2, <1>3, <3>1
    <3>3. payloads' # <<>>
      BY <1>1, <1>3
    <3>4. ~ EndBit(last)
      BY <1>1, <1>2, <1>3, <2>1 DEF WholeLen, HEADER_SIZE_FU_A
    <3>5. mode' # SINGLE_NAL
      BY DEF NextFragment, fragmenting, EmitFragment
    <3>6. Midway'
      BY <1>3, <3>2, <3>3, <3>4, <3>5 DEF Midway, last
    <3>7. QED
      BY <3>2, <3>6 DEF Ready
  <2>2. CASE ~ (WholeLen(nal_start) > Mtu)
    <3>1. Len(last) = nal_end - nal_start + 2
      BY <1>3, <2>2 DEF fu_payload_len, WholeLen, HEADER_SIZE_FU_A
    <3>2. pos' = nal_end /\ pos' > pos
      BY <1>1, <1>2, <1>3, <1>7, <3>1
    <3>3. CASE nal_end = window
      <4>1. nal_end = buf_len
        BY <1>1, <1>2, <2>2, <3>3, CallBounds DEF WholeLen, HEADER_SIZE_FU_A
      <4>2. QED
        BY <1>1, <1>5, <3>2, <4>1 DEF Ready
    <3>4. CASE nal_end # window
      <4>1. nal_end + 4 <= buf_len /\ Codes(buf, nal_end, nal_end+4) # {}
        BY <1>1, <3>4, CallWellFormed DEF Sendable
      <4>2. SameFrom(buf, buf', nal_end, buf_len)
        BY <1>1, <1>2, <1>3, <1>7 DEF SameFrom
      <4>3. Codes(buf', nal_end, nal_end+4) # {}
        <5>1. nal_end \in Nat /\ nal_end+4 \in 0 .. buf_len
          BY <1>1, <1>2, <4>1
        <5>2. Codes(buf, nal_end, nal_end+4) = Codes(buf', nal_end, nal_end+4)
          BY <1>1, <4>2, <5>1, SameCodes
        <5>3. QED
          BY <4>1, <5>2
      <4>4. AtCode'
        BY <1>5, <3>2, <4>1, <4>3 DEF AtCode
      <4>5. QED
        BY <3>2, <4>4 DEF Ready
    <3>5. QED
      BY <3>3, <3>4
  <2>3. QED
    BY <2>1, <2>2
<1>9. UnitOf(last) = UnitOf(before)
  <2>1. previous = pos - Mtu
    BY <1>2 DEF previous
  <2>2. before[1] = buf[previous] /\ before[2] = buf[previous+1]
    BY <1>4, <2>1 DEF Midway
  <2>3. QED
    BY <1>3, <2>2 DEF UnitOf, Nri, Type
<1>10. FragmentsFollow'
  <2>1. payloads # <<>> /\ IsFragment(before) /\ ~ EndBit(before)
    BY <1>4 DEF Midway
  <2>2. QED
    BY <1>3, <1>9, <2>1, FollowStep DEF Sendable, last
<1>11. QED
  BY <1>3, <1>6, <1>8, <1>10 DEF Sendable, NeverRefused

LEMMA SingleNalStep ==
  ASSUME TypeOK, WellFormed(picture), Sendable, SingleNal
  PROVE  Sendable' /\ pos' > pos
<1> DEFINE load == Copy(buf, nal_start, nal_end)
<1>1. /\ buf_len \in Nat /\ pos \in 0 .. buf_len /\ pos < buf_len /\ Mtu \in Nat
      /\ payloads \in Seq(Seq(Byte)) /\ buf \in [0 .. buf_len-1 -> Byte]
  BY MtuAssumption DEF TypeOK, SingleNal, Looping, buf_len
<1>2. /\ has_octet /\ ~ fragmenting
      /\ payloads' = Append(payloads, load) /\ pos' = nal_end
      /\ picture' = picture /\ buf' = buf /\ status' = "SUCCESS"
  BY DEF SingleNal
<1>3. /\ nal_start \in pos+3 .. buf_len-1
      /\ window \in nal_start .. buf_len /\ nal_end \in nal_start .. window
      /\ Type(buf[nal_start]) \in 1 .. 23
  BY <1>1, <1>2, CallBounds, CallWellFormed DEF Sendable
<1>4. ASSUME nal_end = nal_start
      PROVE  FALSE
  <2>1. nal_end # window
    BY <1>1, <1>3, <1>4, CallBounds, MtuAssumption
  <2>2. buf[nal_start] = 0
    BY <1>4, <2>1, CallBounds, <1>1 DEF CodeAt
  <2>3. QED
    BY <1>3, <2>2 DEF Type
<1>5. /\ load \in Seq(Byte) /\ Len(load) >= 1 /\ load[1] = buf[nal_start]
  <2>1. nal_start \in Nat /\ nal_end \in nal_start .. buf_len
    BY <1>1, <1>3
  <2>2. /\ load \in Seq(Byte) /\ Len(load) = nal_end - nal_start
        /\ \A i \in 1 .. nal_end-nal_start : load[i] = buf[nal_start+i-1]
    BY <1>1, <2>1, CopyType
  <2>3. 1 \in 1 .. nal_end-nal_start /\ nal_start+1-1 = nal_start
    BY <1>3, <1>4, <2>1
  <2>4. load[1] = buf[nal_start+1-1]
    BY <2>2, <2>3
  <2> HIDE DEF load
  <2>5. QED
    BY <2>1, <2>2, <2>3, <2>4
<1> HIDE DEF load
<1>6. ~ IsFragment(load)
  <2>1. IsFragment(load) <=> Type(load[1]) = 28
    BY DEF IsFragment, Type
  <2>2. Type(load[1]) \in 1 .. 23
    BY <1>3, <1>5
  <2>3. QED
    BY <2>1, <2>2
<1>7. /\ payloads' \in Seq(Seq(Byte))
      /\ Len(payloads') = Len(payloads) + 1
      /\ payloads'[Len(payloads')] = load
      /\ \A k \in 1 .. Len(payloads) : payloads'[k] = payloads[k]
  BY <1>1, <1>2, <1>5
<1>8. FragmentsFollow'
  BY <1>2, <1>6, <1>7, FollowStep DEF Sendable
<1>9. buf_len' = buf_len
  BY <1>2 DEF buf_len
<1>10. Untouched'
  BY <1>1, <1>2, <1>3, <1>9 DEF Sendable, Untouched
<1>11. Ready'
  <2>1. CASE nal_end = window
    <3>1. window = buf_len
      BY <1>1, <1>2, <1>3, <2>1, CallBounds DEF fragmenting
    <3>2. QED
      BY <1>2, <1>9, <2>1, <3>1, <1>1 DEF Ready
  <2>2. CASE nal_end # window
    BY <1>1, <1>2, <1>9, <2>2, CallWellFormed DEF Sendable, Ready, AtCode
  <2>3. QED
    BY <2>1, <2>2
<1>12. QED
  BY <1>1, <1>2, <1>3, <1>8, <1>10, <1>11 DEF Sendable, NeverRefused

(* The calls that fail do not happen on a well-formed bitstream that fits. *)
LEMMA NotCancelled ==
  ASSUME TypeOK, Sendable
  PROVE  ~ Cancel /\ ~ NullOctet
<1>1. ASSUME Cancel PROVE FALSE
  BY <1>1, FoundStep DEF Cancel, Looping, Sendable
<1>2. ASSUME NullOctet PROVE FALSE
  <2>1. Midway
    BY <1>2, FoundStep DEF NullOctet, Looping, Sendable
  <2>2. QED
    BY <1>2, <2>1 DEF NullOctet, fragmenting, Midway
<1>3. QED
  BY <1>1, <1>2

LEMMA PictureStep ==
  ASSUME NEW pic \in Pictures, h264_test(pic), WellFormed(picture')
  PROVE  Sendable'
<1> DEFINE s == Layout(pic)
<1>1. s \in Seq(Byte) /\ Len(s) \in Nat
  BY PicturesAssumption
<1>2. /\ picture' = s /\ buf' = BufferOf(s) /\ pos' = 0
      /\ status' = "SUCCESS" /\ payloads' = <<>>
  BY DEF h264_test
<1> HIDE DEF s
<1>3. Untouched'
  BY <1>1, <1>2 DEF Untouched, BufferOf, buf_len
<1>4. AtCode'
  <2>1. Len(s) >= 4 /\ (CodeAt(BufferOf(s), 0) \/ CodeAt(BufferOf(s), 1))
    BY <1>2 DEF WellFormed
  <2>2. Codes(BufferOf(s), 0, 4) # {}
    <3>1. 0 \in 0 .. 4-3 /\ 1 \in 0 .. 4-3
      OBVIOUS
    <3>2. QED
      BY <2>1, <3>1 DEF Codes
  <2>3. QED
    BY <1>1, <1>2, <2>1, <2>2 DEF AtCode, buf_len
<1>5. FragmentsFollow'
  BY <1>2 DEF FragmentsFollow
<1>6. QED
  BY <1>2, <1>3, <1>4, <1>5 DEF Sendable, Ready, NeverRefused
-----------------------------------------------------------------------------
LEMMA InvInit == Init => IInv
<1>1. BufferOf(<<>>) \in [0 .. Len(<<>>)-1 -> Byte]
  BY DEF BufferOf
<1>2. ~ WellFormed(<<>>)
  BY DEF WellFormed
<1>3. QED
  BY <1>1, <1>2, ModesAssumption DEF Init, IInv, TypeOK, PayloadFitsMtu, buf_len

LEMMA InvStep == IInv /\ [Next]_vars => IInv'
<1>1. SUFFICES ASSUME IInv, [Next]_vars, WellFormed(picture')
               PROVE  Sendable'
  BY TypeStep DEF IInv
<1>2. TypeOK
  BY <1>1 DEF IInv
<1>3. CASE UNCHANGED vars
  BY <1>1, <1>3 DEF vars, IInv, Sendable, Untouched, Ready, AtCode, Midway, NeverRefused,
     FragmentsFollow, buf_len
<1>4. CASE \E pic \in Pictures : h264_test(pic)
  BY <1>1, <1>4, PictureStep
<1>5. CASE Packetize
  <2>1. picture' = picture
    BY <1>5 DEF Packetize, TooSmall, Cancel, Fail, FirstFragment, NextFragment,
       EmitFragment, SingleNal, NullOctet
  <2>2. WellFormed(picture) /\ Sendable
    BY <1>1, <2>1 DEF IInv
  <2>3. CASE TooSmall
    BY <2>2, <2>3 DEF TooSmall, Fail, Sendable, Untouched, Ready, AtCode, Midway,
       NeverRefused, FragmentsFollow, buf_len
  <2>4. CASE Cancel \/ NullOctet
    BY <1>2, <2>2, <2>4, NotCancelled
  <2>5. CASE FirstFragment
    BY <1>2, <2>2, <2>5, FirstFragmentStep
  <2>6. CASE NextFragment
    BY <1>2, <2>2, <2>6, NextFragmentStep
  <2>7. CASE SingleNal
    BY <1>2, <2>2, <2>7, SingleNalStep
  <2>8. QED
    BY <1>5, <2>3, <2>4, <2>5, <2>6, <2>7 DEF Packetize
<1>6. QED
  BY <1>1, <1>3, <1>4, <1>5 DEF Next

LEMMA Inductive == Spec => []IInv
BY InvInit, InvStep, PTL DEF Spec
-----------------------------------------------------------------------------
(***************************************************************************)
(* Every variable keeps its type: pos never passes the end of the          *)
(* bitstream, and what the buffer and the payloads hold are bytes.         *)
(***************************************************************************)
THEOREM TypeCorrect == Spec => []TypeOK
<1>1. IInv => TypeOK
  BY DEF IInv
<1>2. QED
  BY Inductive, <1>1, PTL

(***************************************************************************)
(* No payload is longer than the MTU: h264_test's array has room for it.   *)
(***************************************************************************)
THEOREM PayloadsFit == Spec => []PayloadFitsMtu
<1>1. IInv => PayloadFitsMtu
  BY DEF IInv
<1>2. QED
  BY Inductive, <1>1, PTL

(***************************************************************************)
(* A call on a well-formed bitstream is never cancelled for want of a      *)
(* fragment to continue, and never reads a null octet.                     *)
(***************************************************************************)
THEOREM Found == Spec => []NeverRefused
<1>1. IInv => NeverRefused
  BY DEF IInv, Sendable, NeverRefused
<1>2. QED
  BY Inductive, <1>1, PTL

(***************************************************************************)
(* The header that a call reads back one MTU earlier is the one that the   *)
(* call before it wrote, of a NAL unit that is not finished.               *)
(***************************************************************************)
THEOREM Follow == Spec => []FragmentsFollow
<1>1. IInv => FragmentsFollow
  BY DEF IInv, Sendable, FragmentsFollow
<1>2. QED
  BY Inductive, <1>1, PTL

(***************************************************************************)
(* Where the MTU is no obstacle, every call moves the position forward:    *)
(* the loop that ignores the status of the call ends.                      *)
(***************************************************************************)
THEOREM Advances == Spec => EveryCallAdvances
<1> DEFINE A == Looping /\ WellFormed(picture) /\ mode # SINGLE_NAL => pos' > pos
<1>1. IInv /\ [Next]_vars => [A]_vars
  <2>1. SUFFICES ASSUME IInv, Next, Looping, WellFormed(picture), mode # SINGLE_NAL
                 PROVE  pos' > pos
    OBVIOUS
  <2>2. TypeOK /\ Sendable
    BY <2>1 DEF IInv
  <2>3. CASE \E pic \in Pictures : h264_test(pic)
    BY <2>1, <2>2, <2>3 DEF Looping, h264_test, TypeOK, buf_len
  <2>4. CASE TooSmall
    BY <2>1, <2>4 DEF TooSmall, too_small
  <2>5. CASE Cancel \/ NullOctet
    BY <2>2, <2>5, NotCancelled
  <2>6. CASE FirstFragment
    BY <2>1, <2>2, <2>6, FirstFragmentStep
  <2>7. CASE NextFragment
    BY <2>1, <2>2, <2>7, NextFragmentStep
  <2>8. CASE SingleNal
    BY <2>1, <2>2, <2>8, SingleNalStep
  <2>9. QED
    BY <2>1, <2>3, <2>4, <2>5, <2>6, <2>7, <2>8 DEF Next, Packetize
<1>2. QED
  BY Inductive, <1>1, PTL DEF Spec, EveryCallAdvances

(***************************************************************************)
(* The two octets that a fragment writes in front of its data, and the two *)
(* that a later fragment reads one MTU earlier, are inside the buffer,     *)
(* whatever the bitstream is.                                              *)
(***************************************************************************)
InsideTheBuffer ==
  [][ /\ FirstFragment => nal_start-1 \in 0 .. buf_len-2
      /\ NextFragment  => /\ nal_start-2 \in 0 .. buf_len-2
                          /\ previous \in 0 .. buf_len-2 ]_vars

THEOREM WritesInside == Spec => InsideTheBuffer
<1> DEFINE A == /\ FirstFragment => nal_start-1 \in 0 .. buf_len-2
                /\ NextFragment  => /\ nal_start-2 \in 0 .. buf_len-2
                                    /\ previous \in 0 .. buf_len-2
<1>1. IInv /\ [Next]_vars => [A]_vars
  <2>1. SUFFICES ASSUME IInv PROVE A
    OBVIOUS
  <2>2. TypeOK /\ buf_len \in Nat
    BY <2>1 DEF IInv, TypeOK, buf_len
  <2>3. ASSUME FirstFragment PROVE nal_start-1 \in 0 .. buf_len-2
    <3>1. nal_start \in Nat /\ nal_start+1 >= 2 /\ nal_start+1 < buf_len
      BY <2>2, <2>3, FirstFragmentEmits
    <3>2. QED
      BY <2>2, <3>1
  <2>4. ASSUME NextFragment
        PROVE  nal_start-2 \in 0 .. buf_len-2 /\ previous \in 0 .. buf_len-2
    <3>1. nal_start \in Nat /\ nal_start >= 2 /\ nal_start < buf_len
      BY <2>2, <2>4, NextFragmentEmits
    <3>2. previous = nal_start - Mtu /\ previous >= 0
      BY <2>4 DEF NextFragment, previous_found, previous
    <3>3. QED
      BY <2>2, <3>1, <3>2, MtuAssumption DEF HEADER_SIZE_FU_A
  <2>5. QED
    BY <2>3, <2>4
<1>2. QED
  BY Inductive, <1>1, PTL DEF Spec, InsideTheBuffer
=============================================================================
