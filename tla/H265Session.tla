----------------------------- MODULE H265Session -----------------------------
(***************************************************************************)
(* An H.265 sender, a channel and a receiver.  The payloads of             *)
(* pjmedia_h265_packetize travel in RTP packets, whose header the          *)
(* application writes, and reach pjmeida_h265_unpacketize in order or not  *)
(* at all; the receiver cannot be told of a loss.  Its buffer is emptied   *)
(* when it hands it over, and not when a picture begins.                   *)
(***************************************************************************)
EXTENDS Integers, Sequences, FiniteSets, SequencesExt

CONSTANTS
  PayloadSize, Pictures, Beyond,
  Earlier,       (* the bitstreams that may have been sent before          *)
  Extensions,    (* the lengths of the RTP header extension, in words      *)
  MaxPictures,   (* bound: how many pictures are sent, that one included   *)
  MaxPayloads    (* bound: how many payloads are made of one: h265_test    *)
                 (* never stops if a call makes an empty one               *)

ASSUME PayloadSizeAssumption == PayloadSize \in Nat /\ PayloadSize > 0
ASSUME BeyondAssumption      == \A s \in Beyond : s \in Seq(0 .. 255) /\ Len(s) = 5
ASSUME BoundsAssumption      == {MaxPictures, MaxPayloads} \subseteq Nat

VARIABLES
  nals, buf, buf_len, pos, msg_nal_type, msg_header_len, msg_fu_packet,
  sent_status, payloads,                             (* the sender         *)
  h265_buf, res,                                     (* the receiver       *)
  handed,   (* how many of the payloads have left the channel              *)
  lost,     (* which of them were lost                                     *)
  got,      (* what the receiver has written since the picture began       *)
  sent      (* how many pictures have been begun                           *)

sender   == <<nals, buf, buf_len, pos, msg_nal_type, msg_header_len,
              msg_fu_packet, sent_status, payloads>>
receiver == <<h265_buf, res>>
vars     == <<sender, receiver, handed, lost, got, sent>>

Tx == INSTANCE H265Packetizer WITH status <- sent_status
Rx == INSTANCE H265Unpacketizer

Init == Tx!Init /\ Rx!Init /\ handed = 0 /\ lost = {} /\ got = <<>> /\ sent = 0

Send ==
  /\ Len(payloads) < MaxPayloads
  /\ Tx!Packetize
  /\ UNCHANGED <<receiver, handed, lost, got, sent>>

(* What a call has written: the fragment that hands the buffer over is in  *)
(* it no more.                                                             *)
Written(payload) ==
  CASE res' = "OK"    -> <<Last(h265_buf')>>
    [] res' = "FRAME" -> <<[start |-> FALSE, data |-> Rx!data(payload)]>>
    [] OTHER          -> <<>>

(* A packet whose extension is too long is as good as lost. *)
Deliver(extension) ==
  /\ handed < Len(payloads)
  /\ LET packet == [extension |-> extension, payload |-> payloads[handed + 1]]
     IN  /\ Rx!Unpacketize(packet)
         /\ got' = got \o Written(packet.payload)
  /\ handed' = handed + 1
  /\ lost' = IF extension > Rx!MAX_EXTENSION_WORDS THEN lost \cup {handed + 1} ELSE lost
  /\ UNCHANGED <<sender, sent>>

Lose ==
  /\ handed < Len(payloads)
  /\ handed' = handed + 1
  /\ lost' = lost \cup {handed + 1}
  /\ UNCHANGED <<sender, receiver, got, sent>>

(* The sender begins a picture once the receiver has seen the last one. *)
NextPicture(pic) ==
  /\ handed = Len(payloads)
  /\ sent < MaxPictures
  /\ Tx!h265_test(pic)
  /\ handed' = 0 /\ lost' = {} /\ got' = <<>> /\ sent' = sent + 1
  /\ UNCHANGED receiver

Next ==
  \/ Send
  \/ \E extension \in Extensions : Deliver(extension)
  \/ Lose
  \/ sent = 0 /\ \E pic \in Earlier  : NextPicture(pic)
  \/ sent > 0 /\ \E pic \in Pictures : NextPicture(pic)

Spec == Init /\ [][Next]_vars
-----------------------------------------------------------------------------
(* Everything is sent and has left the channel. *)
Finished == sent > 0 /\ pos = buf_len /\ handed = Len(payloads)

(* The NAL units in what the receiver wrote. *)
Received ==
  FoldLeft(LAMBDA units, p :
             IF p.start \/ units = <<>> THEN Append(units, p.data)
             ELSE Front(units) \o <<Last(units) \o p.data>>,
           <<>>, got)

NalBytes == [k \in DOMAIN nals |-> nals[k].nal]

Size(k) == Len(nals[k].nal)
UnitType(k) == Tx!HeaderType(nals[k].nal[1])

(* NAL unit k is sent in fragments. *)
Fragmented(k) == ~ Tx!IsParameterSet(UnitType(k)) /\ Size(k) >= PayloadSize

(***************************************************************************)
(* NAL unit k is not fragmented and is cut in two all the same: with its   *)
(* start code, or the one that follows it, it is too long for one look.    *)
(***************************************************************************)
Split(k) ==
  /\ ~ Fragmented(k)
  /\ IF k = Len(nals)
     THEN Size(k) + nals[1].code > PayloadSize
     ELSE Size(k) + nals[1].code + nals[k+1].code > Tx!WITHIN_LENGTH

(* The receiver takes a NAL unit with this header and length. *)
Receivable(nal) ==
  /\ Len(nal) >= 3
  /\ Rx!Accepted(nal)
  /\ Rx!nal_type(nal) # 49

(* A fragment says nothing of the first bit of a header and its second octet. *)
KeepsHeader(nal) == nal[1] % 2 = 0 /\ nal[1] < 128 /\ nal[2] = 1

Faithful ==
  \A k \in DOMAIN nals :
    /\ nals[k].code = nals[1].code
    /\ ~ Split(k)
    /\ IF Fragmented(k) THEN KeepsHeader(nals[k].nal) ELSE Receivable(nals[k].nal)

StartsWithCode == nals # <<>> /\ nals[1].code # 0

(***************************************************************************)
(* No payload is longer than the window, which fits in the payload array   *)
(* of h265_test (h264_packetizer.h:278).                                   *)
(***************************************************************************)
PayloadFitsWindow == \A k \in DOMAIN payloads : Len(payloads[k]) <= Tx!WITHIN_LENGTH

(***************************************************************************)
(* When nothing was lost, the receiver has written the NAL units of the    *)
(* picture if, and only if, all start codes are as long as the first one,  *)
(* no unfragmented unit is cut in two, every unfragmented unit has a       *)
(* header the receiver accepts and every fragmented one has the header     *)
(* that the receiver makes up.                                             *)
(***************************************************************************)
HevcRoundTrip ==
  Finished /\ lost = {} /\ StartsWithCode =>
    (Received = NalBytes <=> Faithful)

(* Which NAL unit payload k carries, if each is carried as it should be. *)
StartsUnit(payload) == Rx!nal_type(payload) # 49 \/ Rx!first_fragment(payload)
UnitIndex(k) == Cardinality({i \in 1 .. k : StartsUnit(payloads[i])})
Survives(n)  == \A k \in DOMAIN payloads : UnitIndex(k) = n => k \notin lost

(***************************************************************************)
(* A NAL unit that lost none of its payloads is received, in its place;    *)
(* what a loss leaves of the units after it may hang on to it.             *)
(***************************************************************************)
SurvivorsReceived ==
  Finished /\ StartsWithCode /\ Faithful =>
    \A n \in DOMAIN nals :
      Survives(n) => \E unit \in ToSet(Received) : IsPrefix(nals[n].nal, unit)

(***************************************************************************)
(* A frame is handed over by the last fragment of a NAL unit, and by       *)
(* nothing else: at the end of a picture of which nothing was lost, the    *)
(* receiver still keeps the picture, or the end of it, exactly if the last *)
(* unit is not fragmented or fills its last payload to the last byte.      *)
(***************************************************************************)
HeldBack ==
  Finished /\ lost = {} /\ StartsWithCode /\ Faithful =>
    (h265_buf # <<>> <=>
       LET last == Len(nals) IN
       \/ ~ Fragmented(last)
       \/ (Size(last) + nals[1].code) % PayloadSize = 0)

(***************************************************************************)
(* Every call on a bitstream that starts with a start code and whose units *)
(* are not empty moves the position forward, or h265_test would spin.      *)
(***************************************************************************)
CallsAdvance ==
  [][ Tx!Looping /\ handed' = handed /\ sent' = sent /\ StartsWithCode
      /\ (\A k \in DOMAIN nals : Size(k) >= 1) => pos' > pos ]_vars

(***************************************************************************)
(* The E bit marks the last fragment (h264_packetizer.c:903): the last     *)
(* payload of a picture has it, if it is a fragment.                       *)
(***************************************************************************)
LastFragmentMarked ==
  Finished /\ StartsWithCode /\ Fragmented(Len(nals)) => Rx!last_fragment(Last(payloads))
=============================================================================
