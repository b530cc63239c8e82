------------------------------ MODULE MCProgram ------------------------------
(* Files for Program. *)
EXTENDS Program

(* Every file of up to eight bytes that can hold start codes. *)
Short == UNION {[1 .. n -> {0, 1, 101}] : n \in 0 .. 8}

Nal(octet, length) == [i \in 1 .. length |-> octet + i - 1]

Code(n) == IF n = 3 THEN <<0, 0, 1>> ELSE <<0, 0, 0, 1>>

(* Two NAL units, of one to four payloads at an MTU of five, behind nothing,*)
(* behind padding and behind bytes that are none of theirs.                *)
Long ==
  {front \o Code(c1) \o Nal(101, l1) \o Code(c2) \o Nal(65, l2) :
     front \in {<<>>, <<0, 0>>, <<7, 7, 7, 7>>}, c1 \in {3, 4}, c2 \in {3, 4},
     l1 \in {1, 4, 5, 6, 9, 12}, l2 \in {2, 5, 13}}

MCFiles == Short \cup Long \cup {Code(4) \o Nal(101, 30)}
=============================================================================
