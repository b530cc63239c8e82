-------------------------- MODULE MCH264Packetizer --------------------------
(***************************************************************************)
(* Bitstreams for H264Packetizer: the lengths that matter lie around the   *)
(* MTU and around the lengths at which a fragment more is needed.          *)
(***************************************************************************)
EXTENDS H264Packetizer

(* A NAL unit of the given length: an octet, then bytes that are all       *)
(* different, so that a lost, repeated or displaced byte shows.  The byte  *)
(* at offset zero, if there is one, is 0.                                  *)
Nal(octet, length, zero) ==
  [i \in 1 .. length |-> IF i = 1 THEN octet
                         ELSE IF i = zero /\ i < length THEN 0
                         ELSE octet + i]

Unit(code, nal) == [code |-> code, nal |-> nal]

IDR   == 101   (* NRI 3, type 5 *)
SLICE == 33    (* NRI 1, type 1 *)
SEI   == 6     (* NRI 0, type 6 *)

(* h264_test's bitstreams: one NAL unit each. *)
MCOneNal ==
  {<<Unit(code, Nal(octet, length, zero))>> :
     code \in {3, 4}, octet \in {IDR, SLICE, SEI}, length \in 1 .. 14, zero \in {0, 3, 4, 5}}

(* Access units of two NAL units, all lengths and start codes. *)
MCTwoNals ==
  {<<Unit(c1, Nal(IDR, l1, 0)), Unit(c2, Nal(SLICE, l2, 0))>> :
     c1 \in {3, 4}, c2 \in {3, 4}, l1 \in 1 .. 12, l2 \in 1 .. 9}

(* Access units of three. *)
MCThreeNals ==
  {<<Unit(4, Nal(SEI, l1, 0)), Unit(c2, Nal(IDR, l2, 0)), Unit(c3, Nal(SLICE, l3, 0))>> :
     c2 \in {3, 4}, c3 \in {3, 4}, l1 \in 1 .. 4, l2 \in {1, 5, 6, 8, 9}, l3 \in {1, 5, 6}}

(* Buffers that are not well-formed: no start code at the beginning, or    *)
(* nothing after the last one.                                             *)
MCMalformed ==
     {<<Unit(0, Nal(IDR, length, 0))>> : length \in 1 .. 8}
  \cup {<<Unit(3, Nal(octet, 1, 0)), Unit(3, <<>>)>> : octet \in {IDR, SEI}}

MCBitstreams == MCOneNal \cup MCTwoNals \cup MCThreeNals \cup MCMalformed

MCModes == {NON_INTERLEAVED, SINGLE_NAL}
=============================================================================
