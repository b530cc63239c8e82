---------------------------- MODULE MCH265Session ----------------------------
(* Pictures for H265Session, at a payload size of eight. *)
EXTENDS H265Session

(* A NAL unit of a type, with a second header octet and more octets. *)
Nal(type, second, length) ==
  [i \in 1 .. length |-> CASE i = 1 -> 2 * type [] i = 2 -> second
                           [] OTHER -> 2 + (i % 6)]

Unit(code, nal) == [code |-> code, nal |-> nal]

(* Every length up to three payloads, of a slice and of a parameter set. *)
MCSingles ==
  {<<Unit(code, Nal(type, 1, length))>> :
     code \in {3, 4}, type \in {1, 32}, length \in 2 .. 26}

(* A unit of every length in front of another one, with any start codes. *)
MCPairs ==
  {<<Unit(c1, Nal(type, 1, length)), Unit(c2, Nal(19, 1, 11))>> :
     c1 \in {3, 4}, c2 \in {3, 4}, type \in {21, 33}, length \in 3 .. 20}

(* Access units: parameter sets and slices, fragmented or not. *)
MCAccessUnits ==
  {<<Unit(code, Nal(32, 1, 3)), Unit(code, Nal(19, 1, l1)), Unit(code, Nal(1, 1, l2))>> :
     code \in {3, 4}, l1 \in {4, 9}, l2 \in {4, 9, 12}}

(* Headers that the receiver refuses or does not keep, a unit of three     *)
(* octets that looks like an empty fragment, zero bytes, no start code,    *)
(* and bitstreams that are too short or end in a bare start code.          *)
MCOdd ==
  {<<Unit(4, Nal(type, second, length))>> :
     type \in {1, 48, 50, 55}, second \in {0, 2, 9}, length \in {4, 9}}
  \cup {<<Unit(4, <<98, 1, 5>>)>>, <<Unit(4, <<98, 1, 197, 6>>)>>,
        <<Unit(4, <<2, 1, 0, 0, 3, 0, 0, 3, 0, 0, 3, 9>>)>>,
        <<Unit(0, <<9, 9, 9>>)>>,
        <<Unit(0, <<9, 9, 9, 9>>), Unit(3, Nal(1, 1, 5))>>,
        <<Unit(3, <<>>)>>, <<Unit(4, Nal(1, 1, 4)), Unit(3, <<>>)>>}

MCPictures == MCSingles \cup MCPairs \cup MCAccessUnits \cup MCOdd

(* One that stays in the receiver's buffer, and one that leaves a fragment *)
(* there when the others are lost.                                         *)
MCEarlier == {<<Unit(4, Nal(39, 1, 3))>>, <<Unit(3, Nal(1, 1, 9))>>}

(* A slice that fills two payloads, its start code counted, to the last byte. *)
MCExact == {<<Unit(4, Nal(19, 1, 12))>>}

(* Memory that was never written, and what a longer bitstream left there. *)
MCBeyond == {<<0, 0, 0, 0, 0>>, <<5, 6, 7, 2, 3>>}
=============================================================================
