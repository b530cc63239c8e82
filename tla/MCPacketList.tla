---------------------------- MODULE MCPacketList ----------------------------
(* The nodes of PacketList are interchangeable. *)
EXTENDS PacketList, TLC

NodeSymmetry == Permutations(Nodes)
=============================================================================
