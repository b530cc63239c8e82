------------------------------ MODULE Bitstream ------------------------------
(***************************************************************************)
(* Annex B byte streams the way packed/h264_packetizer.c reads them.  A    *)
(* buffer is a function from the offsets 0 .. len-1 to bytes; a pointer    *)
(* into it is an offset, and the C pointer "end" is the offset len.        *)
(***************************************************************************)
EXTENDS Integers, Sequences, FiniteSetsExt

Byte == 0 .. 255

(* The null pointer: no offset is negative. *)
NULL == -1

(* The three bytes 00 00 01 are at offset p of buffer b. *)
CodeAt(b, p) == b[p] = 0 /\ b[p+1] = 0 /\ b[p+2] = 1

(* Where three bytes 00 00 01 lie entirely in start .. end-1. *)
Codes(b, start, end) == {p \in start .. end-3 : CodeAt(b, p)}

(***************************************************************************)
(* The first start code that lies entirely in start .. end-1, together     *)
(* with the zero byte in front of it if there is one after start.          *)
(***************************************************************************)
find_next_nal_unit(b, start, end) ==
  LET found == Codes(b, start, end)
      first == Min(found)
  IN  IF found = {} THEN NULL
      ELSE IF first > start /\ b[first-1] = 0 THEN first - 1
      ELSE first

(* The offset just after the start code that was found at offset s. *)
PastCode(b, s) == IF b[s+2] # 0 THEN s + 3 ELSE s + 4

(* The NAL unit octet F+NRI+TYPE and the FU header S+E+R+TYPE. *)
Type(octet) == octet % 32
Nri(octet)  == (octet \div 32) % 4
SBit(octet) == octet \div 128
EBit(octet) == (octet \div 64) % 2

NAL_TYPE_SINGLE_NAL_MIN == 1
NAL_TYPE_SINGLE_NAL_MAX == 23
NAL_TYPE_STAP_A         == 24
NAL_TYPE_FU_A           == 28

(* A start code of three or four bytes; 0 stands for a missing one. *)
StartCode(n) == CASE n = 3 -> <<0, 0, 1>>
                  [] n = 4 -> <<0, 0, 0, 1>>
                  [] OTHER -> <<>>

(* The start code the receiver writes, nal_start_code. *)
nal_start_code == <<0, 0, 0, 1>>

(* size[1] + ... + size[n], as the turns of a loop add them up. *)
Total(size, n) ==
  LET upto[k \in 0 .. n] == IF k = 0 THEN 0 ELSE upto[k-1] + size[k]
  IN  upto[n]

(* A sequence of bytes as a buffer, and the bytes b[from] .. b[to-1]. *)
BufferOf(s)       == [i \in 0 .. Len(s)-1 |-> s[i+1]]
Copy(b, from, to) == [i \in 1 .. to-from |-> b[from+i-1]]
=============================================================================
