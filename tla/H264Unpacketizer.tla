-------------------------- MODULE H264Unpacketizer --------------------------
(***************************************************************************)
(* pjmedia_h264_unpacketize: what a receiver makes of the payloads of a    *)
(* picture, of the losses it is told about (a null payload) and of         *)
(* payloads it cannot use.                                                 *)
(*                                                                         *)
(* The picture bitstream is the sequence of pieces that the calls have     *)
(* appended to it: a piece that starts a NAL unit is preceded by a start   *)
(* code, any other piece continues what is there.  An offset into the      *)
(* bitstream (bits_pos, unpack_last_sync_pos) is a number of pieces; the   *)
(* offset in bytes matters to the capacity checks only, BytesOf.           *)
(***************************************************************************)
EXTENDS Integers, Sequences, FiniteSets, SequencesExt, Bitstream

CONSTANTS
  BitsLen,   (* bits_len, the size of the bitstream buffer                 *)
  Payloads   (* the payloads that calls are made with                      *)

(* A payload by the kind its octet gives it.  A STAP-A payload holds NAL   *)
(* units and, after them, a number of bytes that are none (an invalid      *)
(* size); an FU-A payload holds the two FU octets and a part of the data.  *)
SinglePayload == [kind : {"SINGLE"}, nal : Seq(Byte)]
StapPayload   == [kind : {"STAP_A"}, nals : Seq(Seq(Byte)), invalid : Nat]
FuPayload     == [kind : {"FU_A"}, octet : Byte, S : BOOLEAN, E : BOOLEAN,
                  data : Seq(Byte)]
OtherPayload  == [kind : {"OTHER"}]
ShortPayload  == [kind : {"SHORT"}]

Payload == SinglePayload \cup StapPayload \cup FuPayload
             \cup OtherPayload \cup ShortPayload

(* The sizes in an aggregate, the invalid one included.  There is one at   *)
(* least: a payload of the first octet alone is too short.                 *)
StapSizes(p) == Len(p.nals) + (IF p.invalid > 0 THEN 1 ELSE 0)

ASSUME BitsLenAssumption == BitsLen \in Nat
ASSUME PayloadsAssumption ==
  /\ Payloads \subseteq Payload
  /\ \A p \in Payloads : p.kind = "STAP_A" => StapSizes(p) > 0

VARIABLES
  bits,           (* the picture bitstream up to bits_pos                  *)
  prev_lost,      (* pktz->unpack_prev_lost                                *)
  last_sync_pos,  (* pktz->unpack_last_sync_pos                            *)
  status          (* what the last call returned                           *)

vars == <<bits, prev_lost, last_sync_pos, status>>

Init ==
  /\ bits = <<>>
  /\ prev_lost = FALSE
  /\ last_sync_pos = 0
  /\ status = "SUCCESS"
-----------------------------------------------------------------------------
bits_pos == Len(bits)

(* A picture bitstream in bytes. *)
PieceLen(p)     == Len(p.data) + (IF p.start THEN Len(nal_start_code) ELSE 0)
BytesOf(pieces) == Total([k \in DOMAIN pieces |-> PieceLen(pieces[k])], Len(pieces))

Room == BitsLen - BytesOf(bits)

Start(data) == [start |-> TRUE,  data |-> data]
More(data)  == [start |-> FALSE, data |-> data]

(* Variants of sync_pos: no sync point as a null pointer, and no reset.    *)
SyncPosNull  == IF bits_pos = 0 THEN NULL ELSE last_sync_pos
SyncPosStale == last_sync_pos

(* Every new picture bitstream begins with no sync point. *)
sync_pos == IF bits_pos = 0 THEN 0 ELSE last_sync_pos

(* A failed pj_assert: the process is gone.  A call that has written       *)
(* behind the buffer (OVERRUN): nothing is defined from there on.          *)
Running == status \notin {"NO_ROOM", "SYNC_AHEAD", "OVERRUN"}

Abort(why) ==
  /\ status' = why
  /\ last_sync_pos' = sync_pos
  /\ UNCHANGED <<bits, prev_lost>>

(* payload == NULL: the application tells of a lost packet. *)
Lost ==
  /\ Running
  /\ prev_lost' = TRUE
  /\ status' = "SUCCESS"
  /\ UNCHANGED <<bits, last_sync_pos>>

(* Too short to be a payload. *)
Short(p) ==
  /\ p.kind = "SHORT"
  /\ prev_lost' = TRUE
  /\ status' = "EINVAL"
  /\ UNCHANGED <<bits, last_sync_pos>>

SingleNal(p) ==
  /\ p.kind = "SINGLE"
  /\ IF Room < Len(p.nal) + Len(nal_start_code)
     THEN Abort("NO_ROOM")
     ELSE /\ bits' = Append(bits, Start(p.nal))
          /\ last_sync_pos' = Len(bits')
          /\ prev_lost' = FALSE
          /\ status' = "SUCCESS"

StapLen(p) ==
  1 + p.invalid + Total([k \in DOMAIN p.nals |-> 2 + Len(p.nals[k])], Len(p.nals))

StapPieces(p) == [k \in DOMAIN p.nals |-> Start(p.nals[k])]

(***************************************************************************)
(* The loop over an aggregate looks for room before it writes a NAL unit,  *)
(* but only for a first byte: so many units it takes, and there may be no  *)
(* room for all of the last one.                                           *)
(***************************************************************************)
StapLeft(p, k) == Room - BytesOf(SubSeq(StapPieces(p), 1, k))

StapTaken(p) == Cardinality({k \in DOMAIN p.nals : StapLeft(p, k - 1) > 0})

(* The start code in front of an invalid size is written before the size   *)
(* is read, and is left behind bits_pos.                                   *)
MeetsInvalid(p) == p.invalid > 0 /\ StapLeft(p, Len(p.nals)) > 0

StapOverrun(p) ==
  StapLeft(p, StapTaken(p)) < (IF MeetsInvalid(p) THEN Len(nal_start_code) ELSE 0)

(* Variant of StapHasRoom: the start codes are forgotten. *)
StapHasRoomTight(p) == Room >= StapLen(p)

StapHasRoom(p) == Room >= StapLen(p) + 32

StapA(p) ==
  /\ p.kind = "STAP_A"
  /\ IF ~ StapHasRoom(p)
     THEN Abort("NO_ROOM")
     ELSE /\ bits' = bits \o SubSeq(StapPieces(p), 1, StapTaken(p))
          /\ last_sync_pos' = IF p.nals = <<>> THEN sync_pos ELSE Len(bits')
          /\ status' = IF StapOverrun(p) THEN "OVERRUN"
                       ELSE IF MeetsInvalid(p) THEN "EINVAL"
                       ELSE "SUCCESS"
          /\ prev_lost' = (MeetsInvalid(p) /\ prev_lost)

(* What a fragment adds: nothing, if it has no data and starts nothing. *)
FuPieces(p) ==
  IF p.S THEN <<Start(<<p.octet>> \o p.data)>>
  ELSE IF p.data = <<>> THEN <<>>
  ELSE <<More(p.data)>>

FuHasRoom(p) == Room >= 2 + Len(p.data) + Len(nal_start_code)

FuNoRoom(p) == ~ FuHasRoom(p) /\ Abort("NO_ROOM")

(* Variant of FuUsable: the last fragment is taken after a loss, too. *)
FuUsableLast(p) == p.S \/ p.E \/ ~ prev_lost

FuUsable(p) == p.S \/ ~ prev_lost

(* Variant of FuAppend: a loss is never forgotten. *)
FuAppendKeepsLost(p) ==
  /\ FuHasRoom(p)
  /\ FuUsable(p)
  /\ bits' = bits \o FuPieces(p)
  /\ last_sync_pos' = IF p.E THEN Len(bits') ELSE sync_pos
  /\ status' = "SUCCESS"
  /\ UNCHANGED prev_lost

FuAppend(p) ==
  /\ FuHasRoom(p)
  /\ FuUsable(p)
  /\ bits' = bits \o FuPieces(p)
  /\ last_sync_pos' = IF p.E THEN Len(bits') ELSE sync_pos
  /\ prev_lost' = FALSE
  /\ status' = "SUCCESS"

(* Variant of reverted: only the last piece is taken back. *)
RevertedOnePiece == SubSeq(bits, 1, bits_pos - 1)

reverted == SubSeq(bits, 1, sync_pos)

(* Variant of FuRevert: the loss is dealt with, and forgotten. *)
FuRevertForgets(p) ==
  /\ FuHasRoom(p)
  /\ ~ FuUsable(p)
  /\ bits' = reverted
  /\ last_sync_pos' = sync_pos
  /\ status' = "EIGNORED"
  /\ prev_lost' = FALSE

(***************************************************************************)
(* A fragment that does not start its NAL unit, after a loss: back to the  *)
(* last sync point, which is asserted not to lie ahead.  prev_lost stays.  *)
(***************************************************************************)
FuRevert(p) ==
  /\ FuHasRoom(p)
  /\ ~ FuUsable(p)
  /\ IF sync_pos > bits_pos
     THEN Abort("SYNC_AHEAD")
     ELSE /\ bits' = reverted
          /\ last_sync_pos' = sync_pos
          /\ status' = "EIGNORED"
          /\ UNCHANGED prev_lost

FuA(p) == p.kind = "FU_A" /\ (FuNoRoom(p) \/ FuAppend(p) \/ FuRevert(p))

(* Any other NAL unit type empties the bitstream. *)
NotSupported(p) ==
  /\ p.kind = "OTHER"
  /\ bits' = <<>>
  /\ last_sync_pos' = sync_pos
  /\ status' = "ENOTSUP"
  /\ UNCHANGED prev_lost

(* One call of pjmedia_h264_unpacketize with a payload. *)
Unpacketize(p) ==
  Running /\ (Short(p) \/ SingleNal(p) \/ StapA(p) \/ FuA(p) \/ NotSupported(p))

(* The application takes the bitstream and begins another: *bits_pos = 0. *)
NextPicture ==
  /\ Running
  /\ bits' = <<>>
  /\ UNCHANGED <<prev_lost, last_sync_pos, status>>

Next == Lost \/ NextPicture \/ \E p \in Payloads : Unpacketize(p)

Spec == Init /\ [][Next]_vars
-----------------------------------------------------------------------------
Piece == [start : BOOLEAN, data : Seq(Byte)]

Statuses ==
  {"SUCCESS", "EINVAL", "EIGNORED", "ENOTSUP", "NO_ROOM", "SYNC_AHEAD", "OVERRUN"}

(***************************************************************************)
(* The type of every variable.                                             *)
(***************************************************************************)
TypeOK ==
  /\ bits \in Seq(Piece)
  /\ prev_lost \in BOOLEAN
  /\ last_sync_pos \in Nat
  /\ status \in Statuses

(***************************************************************************)
(* The assertion on the way back to the sync point (h264_packetizer.c:607) *)
(* holds, although a new picture or an unsupported payload empties the     *)
(* bitstream and leaves the sync point where it was.                       *)
(***************************************************************************)
SyncNeverAhead == status # "SYNC_AHEAD"

(***************************************************************************)
(* The one kind of payload that is written behind the end of the bitstream *)
(* buffer is an aggregate of more than sixteen sizes: each of them takes   *)
(* two bytes and leaves four, and the room asked for is a flat 32 bytes    *)
(* more than the payload (h264_packetizer.c:529).  Everything else is      *)
(* asked for in full, a start code in front of nothing included.           *)
(***************************************************************************)
WithinBits ==
  [][ BytesOf(bits') > BitsLen \/ status' = "OVERRUN" =>
        \E p \in Payloads : StapA(p) /\ StapSizes(p) > 16 ]_vars

(***************************************************************************)
(* Going back never takes away a NAL unit that is complete: what lies in   *)
(* front of the sync point stays, unless the whole bitstream is dropped.   *)
(***************************************************************************)
CompleteUnitsKept ==
  [][ bits' = <<>> \/ IsPrefix(SubSeq(bits, 1, sync_pos), bits') ]_vars
=============================================================================
