----------------------------- MODULE H264Session -----------------------------
(***************************************************************************)
(* A sender, a channel and a receiver: the payloads that                   *)
(* pjmedia_h264_packetize produces reach pjmedia_h264_unpacketize in order,*)
(* or are lost, and then the application calls it with a null payload      *)
(* instead (h264_packetizer.h:169).  The bitstream buffer of the receiver  *)
(* is emptied for every picture; what the last picture left behind in      *)
(* prev_lost and last_sync_pos is not.                                     *)
(***************************************************************************)
EXTENDS Integers, Sequences, SequencesExt, RFC6184

CONSTANTS Mtu, Pictures, BitsLen

(***************************************************************************)
(* A NAL unit as H.264 defines it: its first bit is 0, its type is none of *)
(* those the payload format adds, no start code is in it (the encoder puts *)
(* emulation prevention bytes there), and it does not end in a zero byte.  *)
(***************************************************************************)
ProperUnit(unit) ==
  LET nal == unit.nal IN
  /\ nal # <<>>
  /\ nal[1] < 128 /\ nal[1] % 32 \in 1 .. 23
  /\ nal[Len(nal)] # 0
  /\ \A i \in 1 .. Len(nal)-2 : ~ (nal[i] = 0 /\ nal[i+1] = 0 /\ nal[i+2] = 1)

ASSUME MtuAssumption      == Mtu \in Nat /\ Mtu > 2
ASSUME PicturesAssumption ==
  \A pic \in Pictures :
    /\ pic \in Seq([code : {3, 4}, nal : Seq(0 .. 255)])
    /\ \A k \in DOMAIN pic : ProperUnit(pic[k])

VARIABLES
  picture, nals, buf, pos, sent_status, payloads,    (* the sender         *)
  bits, prev_lost, last_sync_pos, received_status,   (* the receiver       *)
  handed,   (* how many of the payloads have left the channel              *)
  lost      (* which of them were lost                                     *)

sender   == <<picture, nals, buf, pos, sent_status, payloads>>
receiver == <<bits, prev_lost, last_sync_pos, received_status>>
vars     == <<sender, receiver, handed, lost>>

Tx == INSTANCE H264Packetizer WITH
        status <- sent_status, mode <- "NON_INTERLEAVED", Modes <- {"NON_INTERLEAVED"}
Rx == INSTANCE H264Unpacketizer WITH status <- received_status, Payloads <- {}

(***************************************************************************)
(* How the receiver reads the octets of a payload.  The sender makes no    *)
(* aggregates: they are compiled out (HYT_PTT).                            *)
(***************************************************************************)
Read(payload) ==
  LET type == Rx!Type(payload[1]) IN
  CASE Len(payload) < 2 -> [kind |-> "SHORT"]
    [] Len(payload) >= 2 /\ type \in Rx!NAL_TYPE_SINGLE_NAL_MIN
                                       .. Rx!NAL_TYPE_SINGLE_NAL_MAX ->
         [kind |-> "SINGLE", nal |-> payload]
    [] Len(payload) >= 2 /\ type = Rx!NAL_TYPE_FU_A ->
         [kind  |-> "FU_A",
          octet |-> Rx!Nri(payload[1]) * 32 + Rx!Type(payload[2]),
          S     |-> Rx!SBit(payload[2]) = 1,
          E     |-> Rx!EBit(payload[2]) = 1,
          data  |-> SubSeq(payload, 3, Len(payload))]
    [] OTHER -> [kind |-> "OTHER"]

Init == Tx!Init /\ Rx!Init /\ handed = 0 /\ lost = {}

Send == Tx!Packetize /\ UNCHANGED <<receiver, handed, lost>>

Deliver ==
  /\ handed < Len(payloads)
  /\ Rx!Unpacketize(Read(payloads[handed + 1]))
  /\ handed' = handed + 1
  /\ UNCHANGED <<sender, lost>>

Lose ==
  /\ handed < Len(payloads)
  /\ Rx!Lost
  /\ handed' = handed + 1
  /\ lost' = lost \cup {handed + 1}
  /\ UNCHANGED sender

(* The sender begins a picture once the receiver has seen the last one. *)
NextPicture(pic) ==
  /\ handed = Len(payloads)
  /\ Tx!h264_test(pic)
  /\ Rx!NextPicture
  /\ handed' = 0
  /\ lost' = {}

Next == Send \/ Deliver \/ Lose \/ \E pic \in Pictures : NextPicture(pic)

Spec == Init /\ [][Next]_vars

(* Packets leave the channel one way or the other. *)
FairSpec == Spec /\ WF_vars(Send) /\ WF_vars(Deliver \/ Lose)
-----------------------------------------------------------------------------
(* The NAL units in a picture bitstream. *)
Join(units, p) ==
  IF p.start \/ units = <<>> THEN Append(units, p.data)
  ELSE Front(units) \o <<Last(units) \o p.data>>

Units(pieces) ==
  LET upto[k \in 0 .. Len(pieces)] ==
        IF k = 0 THEN <<>> ELSE Join(upto[k-1], pieces[k])
  IN  upto[Len(pieces)]

Received == Units(bits)

(* Those in front of the sync point. *)
Completed == Units(SubSeq(bits, 1, Rx!sync_pos))

(* Everything is sent and has left the channel. *)
Finished == pos = Len(picture) /\ handed = Len(payloads)

(* Which NAL unit payload k carries, and which units lost no payload. *)
StartsUnit(payload) == ~ IsFragment(payload) \/ StartBit(payload)
UnitIndex(k) == Cardinality({i \in 1 .. k : StartsUnit(payloads[i])})
Survives(n)  == \A k \in DOMAIN payloads : UnitIndex(k) = n => k \notin lost

NoneStraddled == \A k \in 1 .. Len(nals)-1 : ~ Tx!Straddled(k)

(***************************************************************************)
(* Every NAL unit that lost none of its payloads is in the picture: a loss *)
(* costs the unit it hits and no other.  When nothing was lost at all, the *)
(* receiver has the NAL units of the picture, in order and nothing else,   *)
(* whatever earlier pictures left in prev_lost and last_sync_pos.          *)
(***************************************************************************)
SurvivorsArrive ==
  Finished /\ NoneStraddled =>
    /\ \A n \in DOMAIN nals : Survives(n) => nals[n].nal \in ToSet(Received)
    /\ lost = {} => Received = Tx!NalBytes

(***************************************************************************)
(* No NAL unit is put together around a hole: each one in the bitstream,   *)
(* finished or not, is one of the sender's units or the beginning of one.  *)
(***************************************************************************)
NoSplice ==
  NoneStraddled =>
    \A unit \in ToSet(Received) :
      \E n \in DOMAIN nals : IsPrefix(unit, nals[n].nal)

(***************************************************************************)
(* The session implements NalTransfer: what lies in front of the sync      *)
(* point has arrived for good.                                             *)
(***************************************************************************)
Transfer ==
  INSTANCE NalTransfer WITH
    PictureNals <- {[k \in DOMAIN pic |-> pic[k].nal] : pic \in Pictures},
    sent        <- Tx!NalBytes,
    arrived     <- Completed

TransferSpec == Transfer!Spec

(***************************************************************************)
(* Every payload leaves the channel, so every picture is finished: neither *)
(* side keeps the other waiting, whatever is lost.                         *)
(***************************************************************************)
EveryPictureFinishes == []<> Finished

(***************************************************************************)
(* The receiver undoes what the sender does (h264_packetizer.h:24): every  *)
(* NAL unit of a picture of which nothing was lost arrives.                *)
(***************************************************************************)
ViceVersa == Finished /\ lost = {} => Received = Tx!NalBytes
=============================================================================
