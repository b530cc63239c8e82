-------------------------- MODULE H265Unpacketizer --------------------------
(***************************************************************************)
(* pjmeida_h265_unpacketize: what a receiver makes of one RTP packet.  It  *)
(* keeps no state but the position in the caller's buffer, is never told   *)
(* of a loss, and hands the buffer over with the fragment that ends a NAL  *)
(* unit.  As in H264Unpacketizer the buffer is the sequence of the pieces  *)
(* that the calls appended, up to *pos.                                    *)
(***************************************************************************)
EXTENDS Integers, Sequences, SequencesExt, Bitstream

VARIABLES
  h265_buf,   (* what was written below *pos                               *)
  res         (* what the last call returned                               *)

vars == <<h265_buf, res>>

Init == h265_buf = <<>> /\ res = "OK"
-----------------------------------------------------------------------------
(* An RTP packet: its payload, and the words of its header extension.      *)
Packet == [extension : Nat, payload : Seq(Byte)]

MAX_EXTENSION_WORDS == 3    (* RTP_MAX_HEAD_EXTERN_SIZE, 12 bytes           *)

(* The fields of the payload header, F, Type, LayerId and TID. *)
nal_type(p) == (p[1] \div 2) % 64
lid(p)      == (p[1] % 2) * 32 + p[2] \div 8
tid(p)      == p[2] % 8

(* pjmedia_calc_rtp_hdr_len finds the payload, unless the extension is long. *)
Parsed(packet) ==
  packet.extension <= MAX_EXTENSION_WORDS /\ Len(packet.payload) >= 3

Refuse(why) == res' = why /\ UNCHANGED h265_buf

Write(piece) == h265_buf' = Append(h265_buf, piece)

(* The headers that no packet is accepted with, in the order of the checks. *)
Refused(p) ==
  \/ lid(p) # 0 /\ Refuse("MULTI_LAYER")
  \/ lid(p) = 0 /\ tid(p) = 0 /\ Refuse("INVALID_DATA")
  \/ lid(p) = 0 /\ tid(p) # 0 /\ nal_type(p) > 50 /\ Refuse("UNSUP_NALTYPE")
  \/ lid(p) = 0 /\ tid(p) # 0 /\ nal_type(p) \in {48, 50} /\ Refuse("MULTI_LAYER")

Accepted(p) == lid(p) = 0 /\ tid(p) # 0 /\ nal_type(p) \in (0 .. 49) \ {48}

SingleUnit(p) ==
  /\ Accepted(p)
  /\ nal_type(p) # 49
  /\ Write([start |-> TRUE, data |-> p])
  /\ res' = "OK"

data(p) == SubSeq(p, 4, Len(p))

(* The header the NAL unit had, as far as the fragment tells. *)
new_nal_header(p) ==
  <<128 * (p[1] \div 128) + (p[1] % 2) + 2 * (p[3] % 64), p[2]>>

first_fragment(p) == SBit(p[3]) = 1
last_fragment(p)  == EBit(p[3]) = 1

(* Variant of FirstFragment: the NAL unit header is not put back. *)
FirstFragmentNoHeader(p) ==
  /\ first_fragment(p)
  /\ IF last_fragment(p)
     THEN Refuse("INVALID_DATA")
     ELSE Write([start |-> TRUE, data |-> data(p)]) /\ res' = "OK"

FirstFragment(p) ==
  /\ first_fragment(p)
  /\ IF last_fragment(p)
     THEN Refuse("INVALID_DATA")
     ELSE Write([start |-> TRUE, data |-> new_nal_header(p) \o data(p)]) /\ res' = "OK"

(* Any other fragment continues what is there, whatever that is; the last   *)
(* one hands the buffer over.                                               *)
LaterFragment(p) ==
  /\ ~ first_fragment(p)
  /\ IF last_fragment(p)
     THEN h265_buf' = <<>> /\ res' = "FRAME"
     ELSE Write([start |-> FALSE, data |-> data(p)]) /\ res' = "OK"

Fragment(p) ==
  /\ Accepted(p)
  /\ nal_type(p) = 49
  /\ IF data(p) = <<>> THEN Refuse("EAGAIN")
     ELSE FirstFragment(p) \/ LaterFragment(p)

(* One call of pjmeida_h265_unpacketize. *)
Unpacketize(packet) ==
  LET p == packet.payload IN
  IF ~ Parsed(packet) THEN Refuse("INVALID_DATA")
  ELSE Refused(p) \/ SingleUnit(p) \/ Fragment(p)
=============================================================================
