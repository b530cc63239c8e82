----------------------------- MODULE H264Losses -----------------------------
(***************************************************************************)
(* H264Unpacketizer and where its losses were: a history variable that no  *)
(* guard reads.  It is kept apart from unpack_prev_lost, which is all that *)
(* the code remembers of them.                                             *)
(***************************************************************************)
EXTENDS H264Unpacketizer

VARIABLE
  holes   (* the places in the bitstream where a payload is missing        *)

HoleInit == Init /\ holes = {}
-----------------------------------------------------------------------------
(* A bitstream that is emptied begins with a hole if it ended in one. *)
HolesOfEmpty == IF bits_pos \in holes THEN {0} ELSE {}

(* A payload that is lost, or discarded as too short, leaves a hole where  *)
(* it would have gone; a fragment that makes the bitstream go back leaves  *)
(* one there.                                                              *)
HolesAfter(p) ==
  IF p.kind = "SHORT" THEN holes \cup {bits_pos}
  ELSE IF p.kind = "OTHER" THEN HolesOfEmpty
  ELSE IF status' = "EIGNORED" THEN {h \in holes : h < Len(bits')} \cup {Len(bits')}
  ELSE holes

HoleNext ==
  \/ Lost /\ holes' = holes \cup {bits_pos}
  \/ NextPicture /\ holes' = HolesOfEmpty
  \/ \E p \in Payloads : Unpacketize(p) /\ holes' = HolesAfter(p)

HoleSpec == HoleInit /\ [][HoleNext]_<<vars, holes>>
-----------------------------------------------------------------------------
(***************************************************************************)
(* No hole is ever bridged: what follows a place where a payload is        *)
(* missing starts a NAL unit, whatever losses, short payloads, aggregates  *)
(* with an invalid size, discarded fragments and new pictures lie between  *)
(* the loss and what is appended.  unpack_prev_lost is set in two places   *)
(* (h264_packetizer.c:473, 480, and 585 behind a failed assertion), cleared*)
(* in one (640) and left alone by every other early return; clearing it    *)
(* too early joins two NAL units.                                          *)
(***************************************************************************)
NoHoleBridged == \A h \in holes : h < Len(bits) => bits[h + 1].start
=============================================================================
