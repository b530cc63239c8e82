---------------------------- MODULE MCH264Session ----------------------------
(* Pictures for H264Session: NAL units of one to four payloads. *)
EXTENDS H264Session

Nal(octet, length) == [i \in 1 .. length |-> octet + i - 1]

Unit(code, nal) == [code |-> code, nal |-> nal]

(* What h264_test sends: one NAL unit at a time. *)
MCSingles ==
  {<<Unit(4, Nal(octet, length))>> : octet \in {101, 33}, length \in 2 .. 12}

(* Access units of several NAL units, fragmented or not, none straddled at *)
(* an MTU of five.                                                         *)
MCAccessUnits ==
  {<<Unit(4, Nal(101, l1)), Unit(3, Nal(65, l2)), Unit(c3, Nal(33, l3))>> :
     l1 \in {2, 7}, l2 \in {2, 9}, c3 \in {3, 4}, l3 \in {3, 9}}

MCPictures == MCSingles \cup MCAccessUnits

(* A slice followed by an end-of-sequence NAL unit, which is one octet. *)
MCEndOfSequence == {<<Unit(4, Nal(101, 3)), Unit(3, <<10>>)>>}
=============================================================================
