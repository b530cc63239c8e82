------------------------------- MODULE RFC6184 -------------------------------
(***************************************************************************)
(* The H.264 payload format as a strict receiver reads it: the reference   *)
(* the packetizer's output is held against.  It shares no definition with  *)
(* the repository's own receiver, pjmedia_h264_unpacketize.                *)
(***************************************************************************)
EXTENDS Integers, Sequences, SequencesExt

(* FU-A packets are recognised by their type, 28. *)
IsFragment(payload) == payload[1] % 32 = 28
StartBit(payload)   == payload[2] >= 128
EndBit(payload)     == payload[2] % 128 >= 64

(* The NRI and the type of the NAL unit that a fragment belongs to. *)
UnitOf(payload) == <<(payload[1] \div 32) % 4, payload[2] % 32>>

Data(payload) == SubSeq(payload, 3, Len(payload))

(***************************************************************************)
(* One more payload: nals are the NAL units received so far, part the      *)
(* bytes of the one being put together, and open says whether there is one.*)
(* Fragments count only from one that starts to one that ends.             *)
(***************************************************************************)
Receive(state, payload) ==
  LET octet == UnitOf(payload)[1] * 32 + UnitOf(payload)[2]
      part  == IF StartBit(payload) THEN <<octet>> \o Data(payload)
               ELSE state.part \o Data(payload)
  IN  CASE ~ IsFragment(payload) ->
             [nals |-> Append(state.nals, payload), part |-> <<>>, open |-> FALSE]
        [] IsFragment(payload) /\ ~ StartBit(payload) /\ ~ state.open -> state
        [] OTHER ->
             IF EndBit(payload)
             THEN [nals |-> Append(state.nals, part), part |-> <<>>, open |-> FALSE]
             ELSE [nals |-> state.nals, part |-> part, open |-> TRUE]

(* The NAL units that a sequence of payloads carries. *)
Reassemble(payloads) ==
  FoldLeft(Receive, [nals |-> <<>>, part |-> <<>>, open |-> FALSE], payloads).nals
=============================================================================
