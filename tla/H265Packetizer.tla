--------------------------- MODULE H265Packetizer ---------------------------
(***************************************************************************)
(* pjmedia_h265_packetize and the loop of h265_test that calls it until    *)
(* the whole bitstream has been turned into RTP payloads.  Unlike the      *)
(* H.264 packetizer it copies, and keeps what it has to remember between   *)
(* calls in the static record pkt_msg: the type of the NAL unit it is in,  *)
(* whether that one is fragmented, and the length of the start code the    *)
(* bitstream begins with, which it takes for the length of all of them.    *)
(***************************************************************************)
EXTENDS Integers, Sequences, SequencesExt, Bitstream

CONSTANTS
  PayloadSize,   (* RTP_H265_PAYLOAD_SIZE                                  *)
  Pictures,      (* the bitstreams to send, as in H264Packetizer           *)
  Beyond         (* what may lie in memory behind a bitstream: a call      *)
                 (* reads up to five bytes there                           *)

RTP_H265_HEADERS_SIZE == 3
NALU_H265_HEADER_SIZE == 4
WITHIN_LENGTH         == PayloadSize + NALU_H265_HEADER_SIZE

TRAIL_R == 1
IDR     == 19
VPS     == 32
SPS     == 33
PPS     == 34
SEI     == 39
FU      == 49

IsParameterSet(type) == type \in {VPS, SPS, PPS, SEI}

HeaderType(octet) == (octet \div 2) % 64

(* The bytes of a picture, start codes included. *)
Layout(pic) ==
  FlattenSeq([k \in DOMAIN pic |-> StartCode(pic[k].code) \o pic[k].nal])

VARIABLES
  nals,              (* the NAL units being sent                           *)
  buf,               (* the bitstream and the bytes behind it              *)
  buf_len,           (* the length of the bitstream                        *)
  pos,               (* enc_packed_pos: the offset the next call starts at *)
  msg_nal_type,      (* pkt_msg.nal_type                                   *)
  msg_header_len,    (* pkt_msg.nalu_header_len                            *)
  msg_fu_packet,     (* pkt_msg.fu_packet                                  *)
  status,            (* what the last call returned                        *)
  payloads           (* the payloads produced so far for this picture      *)

pkt_msg == <<msg_nal_type, msg_header_len, msg_fu_packet>>
vars    == <<nals, buf, buf_len, pos, pkt_msg, status, payloads>>

Init ==
  /\ nals     = <<>>
  /\ buf      = BufferOf(<<>>)
  /\ buf_len  = 0
  /\ pos      = 0
  /\ msg_nal_type = 0 /\ msg_header_len = 0 /\ msg_fu_packet = FALSE
  /\ status   = "SUCCESS"
  /\ payloads = <<>>
-----------------------------------------------------------------------------
(* The length of the start code at the very beginning, 0 if there is none. *)
find_nalu_heard_len ==
  CASE CodeAt(buf, 1) /\ buf[0] = 0 -> 4
    [] CodeAt(buf, 0)               -> 3
    [] OTHER                        -> 0

(* Variant of header_len: the record is not filled in anew. *)
HeaderLenKept == msg_header_len

(* The record is cleared by the call that starts a bitstream. *)
header_len == IF pos = 0 THEN find_nalu_heard_len ELSE msg_header_len
fu_packet  == pos # 0 /\ msg_fu_packet
nal_type   == IF pos = 0 THEN 0 ELSE msg_nal_type

lave_nal_len == buf_len - pos

(* Variant of find_nal_within_len: room for the start code is added twice. *)
WithinTwice == Min({lave_nal_len, WITHIN_LENGTH + NALU_H265_HEADER_SIZE})

find_nal_within_len == Min({lave_nal_len, WITHIN_LENGTH})

nal_start == find_next_nal_unit(buf, pos, pos + NALU_H265_HEADER_SIZE)

(* Variant of find_nalu_confirm_fu_packet: off by one. *)
ConfirmAbove(start) ==
  LET from == start + header_len
      next == find_next_nal_unit(buf, from, buf_len)
  IN  (IF next = NULL THEN buf_len ELSE next) - from > PayloadSize

(* The NAL unit that starts here is at least as long as a payload. *)
find_nalu_confirm_fu_packet(start) ==
  LET from == start + header_len
      next == find_next_nal_unit(buf, from, buf_len)
  IN  (IF next = NULL THEN buf_len ELSE next) - from >= PayloadSize

(* No start code in sight: the rest of the bitstream, or a payload of it. *)
LastPiece == lave_nal_len < PayloadSize
PieceLen  == Min({lave_nal_len, PayloadSize})

(* packetize_rtp_payload_msg, when the call is at a start code. *)
NewUnit ==
  LET type == HeaderType(buf[nal_start + header_len])
      next == find_next_nal_unit(buf, nal_start + header_len,
                                      nal_start + find_nal_within_len)
  IN  [nal_type   |-> type,
       start_code |-> 1,
       start      |-> IF IsParameterSet(type) THEN 0 ELSE 1,
       fu_packet  |-> IF IsParameterSet(type) THEN fu_packet
                      ELSE find_nalu_confirm_fu_packet(nal_start),
       end        |-> IF next # NULL THEN type \in {IDR, TRAIL_R} ELSE LastPiece,
       len        |-> IF next # NULL THEN next - nal_start ELSE PieceLen]

(* packetize_rtp_payload_msg, when the call is inside a NAL unit. *)
Continuation ==
  LET next == find_next_nal_unit(buf, pos, pos + find_nal_within_len)
  IN  [nal_type   |-> nal_type,
       start_code |-> 0,
       start      |-> 0,
       fu_packet  |-> fu_packet,
       end        |-> next # NULL \/ LastPiece,
       len        |-> IF next # NULL THEN next - pos ELSE PieceLen]

msg == IF nal_start # NULL THEN NewUnit ELSE Continuation

raw == IsParameterSet(msg.nal_type) \/ ~ msg.fu_packet

(* What a payload leaves out: the start code and, of a fragmented NAL unit, *)
(* the header.                                                              *)
skipped ==
  msg.start_code * header_len + (IF raw THEN 0 ELSE 2 * msg.start_code)

copied == msg.len - skipped

(* Variant of fu_header: no E bit. *)
FuHeaderNoEnd == msg.nal_type + 128 * msg.start

fu_header == msg.nal_type + 128 * msg.start + (IF msg.end THEN 64 ELSE 0)

Looping == pos < buf_len /\ status # "CRASHED"

long_enough == buf_len > NALU_H265_HEADER_SIZE - 1

Packing == Looping /\ long_enough

(* A bitstream without room for a start code is refused. *)
TooShort ==
  /\ Looping
  /\ ~ long_enough
  /\ status' = "ERROR"
  /\ UNCHANGED <<nals, buf, buf_len, pos, pkt_msg, payloads>>

(* The length of the copy is negative: memcpy takes it for a huge one. *)
Overrun ==
  /\ Packing
  /\ copied < 0
  /\ status' = "CRASHED"
  /\ UNCHANGED <<nals, buf, buf_len, pos, pkt_msg, payloads>>

Emit(fu_octets) ==
  LET from == pos + skipped IN
  /\ copied >= 0
  /\ payloads'       = Append(payloads, fu_octets \o Copy(buf, from, from + copied))
  /\ pos'            = from + copied
  /\ msg_nal_type'   = msg.nal_type
  /\ msg_header_len' = header_len
  /\ msg_fu_packet'  = msg.fu_packet
  /\ status'         = "SUCCESS"
  /\ UNCHANGED <<nals, buf, buf_len>>

(* A parameter set or an unfragmented NAL unit, or a part of one. *)
Whole == Packing /\ raw /\ Emit(<<>>)

Fragment == Packing /\ ~ raw /\ Emit(<<2 * FU, 1, fu_header>>)

(* One call of pjmedia_h265_packetize. *)
Packetize == TooShort \/ Overrun \/ Whole \/ Fragment

(* h265_test is called with another bitstream. *)
h265_test(pic) ==
  /\ pos = buf_len
  /\ status # "CRASHED"
  /\ nals'     = pic
  /\ buf_len'  = Len(Layout(pic))
  /\ \E rest \in Beyond : buf' = BufferOf(Layout(pic) \o rest)
  /\ pos'      = 0
  /\ status'   = "SUCCESS"
  /\ payloads' = <<>>
  /\ UNCHANGED pkt_msg
=============================================================================
