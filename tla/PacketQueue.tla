----------------------------- MODULE PacketQueue -----------------------------
(***************************************************************************)
(* What a packet list promises its reader: the packets that were added, in *)
(* that order, each of them once.                                          *)
(***************************************************************************)
EXTENDS Integers, Sequences

CONSTANTS
  Packets,   (* the packets that may be added                              *)
  NoPacket   (* what the reader holds before its first packet              *)

VARIABLES
  waiting,   (* the packets added and not yet read, oldest first           *)
  fetched    (* the packet that was read last                              *)

vars == <<waiting, fetched>>

Init == waiting = <<>> /\ fetched = NoPacket

Add(p) == waiting' = Append(waiting, p) /\ UNCHANGED fetched

Fetch ==
  /\ waiting # <<>>
  /\ fetched' = Head(waiting)
  /\ waiting' = Tail(waiting)

(* The list is emptied or closed, and whatever was on it is gone. *)
Drop == waiting' = <<>> /\ fetched' = NoPacket

Next == Fetch \/ Drop \/ \E p \in Packets : Add(p)

Spec == Init /\ [][Next]_vars
=============================================================================
