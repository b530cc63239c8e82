------------------------- MODULE MCH264Unpacketizer -------------------------
(***************************************************************************)
(* Payloads for H264Unpacketizer, long enough for the bitstream buffer to  *)
(* fill up after a few of them.                                            *)
(***************************************************************************)
EXTENDS H264Losses

Data == [i \in 1 .. 15 |-> 10 + i]

Fragment(S, E, data) ==
  [kind |-> "FU_A", octet |-> 101, S |-> S, E |-> E, data |-> data]

(* An aggregate of n NAL units that are as short as can be: the most start *)
(* codes for its length.                                                   *)
Empty(n, invalid) ==
  [kind |-> "STAP_A", nals |-> [k \in 1 .. n |-> <<>>], invalid |-> invalid]

(* In a buffer of 72 bytes the loop leaves the last of 19 away, and writes *)
(* the last of the other 18 behind the end.                                *)
TooMany ==
  {Empty(19, 0), [kind |-> "STAP_A", nals |-> <<<<6>>>> \o Empty(17, 0).nals, invalid |-> 0]}

MCPayloads ==
  {[kind |-> "SHORT"], [kind |-> "OTHER"], [kind |-> "SINGLE", nal |-> <<6>> \o Data],
   Fragment(TRUE, FALSE, Data), Fragment(FALSE, FALSE, Data),
   Fragment(FALSE, TRUE, Data), Fragment(TRUE, TRUE, Data), Fragment(FALSE, FALSE, <<>>),
   [kind |-> "STAP_A", nals |-> <<<<6, 1>>, <<7>>>>, invalid |-> 0],
   [kind |-> "STAP_A", nals |-> <<<<6, 1, 2, 3>>>>,  invalid |-> 3],
   [kind |-> "STAP_A", nals |-> <<>>,                invalid |-> 2],
   Empty(16, 0), Empty(15, 1)} \cup TooMany
=============================================================================
