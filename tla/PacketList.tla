----------------------------- MODULE PacketList -----------------------------
(***************************************************************************)
(* The list of packets to send (packed/packets_list.c from line 197): a    *)
(* singly linked list of nodes, each of them a buffer of a memory list,    *)
(* and two counters that are to tell how far the reader is behind.  The    *)
(* buffers come from a MemoryPool, which MemoryList implements.            *)
(*                                                                         *)
(* Nothing in src/ calls these functions.  Their client is modelled after  *)
(* the loop of worker_thread_sendto: packets are added to a list that was  *)
(* created, or reset, unless it overflows, and a node is read, then taken  *)
(* off.  It is not kept until another one is behind it: the loop that      *)
(* should wait for that never does.  The last node, too, is taken off, and *)
(* list_current_write is left pointing to a buffer that was given back.    *)
(***************************************************************************)
EXTENDS Integers, Sequences, SequencesExt, LinkedLists

CONSTANTS
  Nodes,      (* the buffers the heap can give                             *)
  NoNode,     (* the null pointer                                          *)
  MaxLoop,    (* MAX_LOOP_NUM, where the counters wrap                     *)
  Word,       (* the number of values of a pj_uint32_t                     *)
  BufSize,    (* the lead of the writer that the client tolerates          *)
  MaxAdds     (* a bound: the packets the client adds after a reset        *)

ASSUME NodesAssumption  == IsFiniteSet(Nodes) /\ NoNode \notin Nodes
ASSUME CountsAssumption == {MaxLoop, BufSize, MaxAdds, Word} \subseteq Nat

(* The counters of a list that is not too long cannot be mistaken for each *)
(* other: with a pj_uint32_t and a MAX_LOOP_NUM of 4000000000, less than   *)
(* 294967296 packets.                                                      *)
ASSUME LeadAssumption == MaxLoop + BufSize < Word /\ 2 * BufSize < MaxLoop

VARIABLES
  list_write_size, list_send_size, write_loop_flg, send_loop_flg,
  list_current_send, list_current_write,   (* of the list header           *)
  next, packet,        (* of every node; packet 0 is rtp_buf_size = 0      *)
  used, free, given,   (* the memory list                                  *)
  status,              (* CLOSED, CREATED, OPEN, CRASHED or HANGS          *)
  held,                (* the client has read the node list_current_send   *)
  fetched,             (* the packet it read last                          *)
  added,               (* how many packets it has added                    *)
  wrapped,             (* whether a counter has wrapped                    *)
  spare                (* a node of the list is counted by no counter: the *)
                       (* one of a reset, or one that lies there for it    *)

counters == <<list_write_size, list_send_size, write_loop_flg, send_loop_flg>>
links    == <<list_current_send, list_current_write, next, packet>>
pool     == <<used, free, given>>
client   == <<held, fetched, added, wrapped, spare>>
vars     == <<counters, links, pool, status, client>>

Mem == INSTANCE MemoryPool WITH Blocks <- Nodes, NoBlock <- NoNode

Init ==
  /\ list_write_size = 0 /\ list_send_size = 0
  /\ write_loop_flg \in BOOLEAN /\ send_loop_flg \in BOOLEAN
  /\ list_current_send = NoNode /\ list_current_write = NoNode
  /\ next = [n \in Nodes |-> NoNode]
  /\ packet = [n \in Nodes |-> 0]
  /\ Mem!Init
  /\ status = "CLOSED"
  /\ held = FALSE /\ fetched = 0 /\ added = 0 /\ wrapped = FALSE /\ spare = FALSE
-----------------------------------------------------------------------------
(* The nodes from list_current_send on. *)
Sending == Chain(next, list_current_send, NoNode)

(* The list is a node that is linked to itself. *)
Looped == list_current_send # NoNode /\ next[list_current_send] = list_current_send

(* memory_list_malloc gives a node, memory_list_free takes it back unless  *)
(* it is not in use.                                                       *)
Malloc(node) == (Mem!New(node) \/ Mem!Reuse) /\ given' = node

FreeNode(node) ==
  IF node \in used THEN Mem!GiveBack(node) ELSE UNCHANGED pool

(* The difference of the counters as an int: write - send wraps first. *)
Difference(send, write) ==
  LET word == (write - send) % Word
  IN  IF 2 * word >= Word THEN word - Word ELSE word

(* Variant of packet_list_check_overflow: off by one. *)
CheckOverflowLate(send, write, bufsize) ==
  Difference(send, write) > bufsize + 1 \/ - Difference(send, write) > bufsize + 1

packet_list_check_overflow(send, write, bufsize) ==
  Difference(send, write) > bufsize \/ - Difference(send, write) > bufsize

(* packet_list_create leaves the two flags as they are. *)
packet_list_create ==
  /\ status = "CLOSED"
  /\ list_write_size' = 0 /\ list_send_size' = 0
  /\ list_current_send' = NoNode /\ list_current_write' = NoNode
  /\ status' = "CREATED"
  /\ UNCHANGED <<write_loop_flg, send_loop_flg, next, packet, pool, client>>

packet_list_destroy ==
  /\ status \in {"CREATED", "OPEN"}
  /\ Mem!Destroy
  /\ list_write_size' = 0 /\ list_send_size' = 0
  /\ write_loop_flg' = FALSE /\ send_loop_flg' = FALSE
  /\ list_current_send' = NoNode /\ list_current_write' = NoNode
  /\ status' = "CLOSED"
  /\ held' = FALSE /\ fetched' = 0 /\ added' = 0 /\ wrapped' = FALSE /\ spare' = FALSE
  /\ UNCHANGED <<next, packet>>

(* The buffers of a list that is reset: the nodes on it are given back one *)
(* after the other, then one is taken for the node it begins with.         *)
Recycle(node) ==
  LET freed == Only(Sending, used)
      all   == free \o freed
  IN  /\ node = IF all = <<>> THEN node ELSE Head(all)
      /\ node \notin used \ ToSet(freed)
      /\ used' = (used \ ToSet(freed)) \cup {node}
      /\ free' = IF all = <<>> THEN <<>> ELSE Tail(all)
      /\ given' = node

(* Variant of ResetLinks: the list still ends where it ended. *)
ResetLinksStale(node) ==
  /\ list_current_send' = node
  /\ next' = [next EXCEPT ![node] = NoNode]
  /\ packet' = [packet EXCEPT ![node] = 0]
  /\ list_current_write' = IF list_current_write = NoNode THEN node ELSE list_current_write

ResetLinks(node) ==
  /\ list_current_send' = node
  /\ list_current_write' = node
  /\ next' = [next EXCEPT ![node] = NoNode]
  /\ packet' = [packet EXCEPT ![node] = 0]

(* A list that is reset begins with a node of no bytes. *)
packet_list_reset ==
  /\ status \in {"CREATED", "OPEN"}
  /\ ~ Looped
  /\ \E node \in Nodes : Recycle(node) /\ ResetLinks(node)
  /\ list_write_size' = 0 /\ list_send_size' = 0
  /\ write_loop_flg' = FALSE /\ send_loop_flg' = FALSE
  /\ status' = "OPEN"
  /\ held' = FALSE /\ fetched' = 0 /\ added' = 0 /\ wrapped' = FALSE /\ spare' = TRUE

(* The loop over the nodes of a list that is linked to itself never ends.  *)
ResetHangs ==
  /\ status = "OPEN"
  /\ Looped
  /\ FreeNode(list_current_send)
  /\ status' = "HANGS"
  /\ UNCHANGED <<counters, links, client>>

(* Variant of Linked: the node still points where it pointed. *)
LinkedStale(node) ==
  IF list_current_write = NoNode THEN next
  ELSE [next EXCEPT ![list_current_write] = node]

(* Where list_current_write->next, if there is such a node, is set: that   *)
(* node may have been given back, and may be the one that is added.        *)
Linked(node) ==
  LET fresh == [next EXCEPT ![node] = NoNode]
  IN  IF list_current_write = NoNode THEN fresh
      ELSE [fresh EXCEPT ![list_current_write] = node]

(* The client adds a packet while the writer's lead is small enough. *)
MayAdd ==
  /\ status \in {"CREATED", "OPEN"}
  /\ added < MaxAdds
  /\ ~ packet_list_check_overflow(list_send_size, list_write_size, BufSize)

WriteCount == IF list_write_size = MaxLoop THEN 0 ELSE list_write_size + 1

packet_list_node_add ==
  /\ MayAdd
  /\ \E node \in Nodes :
       /\ Malloc(node)
       /\ packet' = [packet EXCEPT ![node] = added + 1]
       /\ next' = Linked(node)
       /\ list_current_send' = IF list_current_send = NoNode THEN node
                               ELSE list_current_send
       /\ list_current_write' = node
  /\ list_write_size' = WriteCount
  /\ write_loop_flg' = (list_write_size = MaxLoop)
  /\ wrapped' = (wrapped \/ list_write_size = MaxLoop)
  /\ added' = added + 1
  /\ status' = "OPEN"
  /\ UNCHANGED <<list_send_size, send_loop_flg, held, fetched, spare>>

(* No memory for the list or for a node: the null pointer is used all the  *)
(* same.                                                                   *)
NullNode ==
  /\ status = "CREATED" \/ MayAdd
  /\ Mem!OutOfMemory
  /\ status' = "CRASHED"
  /\ UNCHANGED <<counters, links, client>>

(* The client reads the first node: the packet on it, if it has bytes. *)
packet_list_node_get ==
  /\ status = "OPEN"
  /\ ~ held
  /\ list_current_send # NoNode
  /\ held' = TRUE
  /\ fetched' = IF packet[list_current_send] = 0 THEN fetched
                ELSE packet[list_current_send]
  /\ UNCHANGED <<counters, links, pool, status, added, wrapped, spare>>

(* The client takes off the node it has read, and waits for nothing. *)
MayOffset == status = "OPEN" /\ held

(* Variant of SendCount: a packet counts when it is sent, too. *)
SendCountTwice == IF list_send_size = MaxLoop THEN 0 ELSE list_send_size + 2

SendCount ==
  IF list_send_size = MaxLoop THEN 0
  ELSE IF list_send_size < list_write_size THEN list_send_size + 1
  ELSE list_send_size

packet_list_node_offset ==
  /\ MayOffset
  /\ list_send_size' = SendCount
  /\ send_loop_flg' = (list_send_size = MaxLoop \/ send_loop_flg)
  /\ list_current_send' = next[list_current_send]
  /\ FreeNode(list_current_send)
  /\ held' = FALSE
  /\ wrapped' = (wrapped \/ list_send_size = MaxLoop)
  /\ spare' = (spare /\ next[list_current_send] # NoNode)
  /\ UNCHANGED <<list_write_size, write_loop_flg, list_current_write, next, packet,
                 status, fetched, added>>

Next ==
  \/ packet_list_create \/ packet_list_destroy \/ packet_list_reset \/ ResetHangs
  \/ packet_list_node_add \/ NullNode
  \/ packet_list_node_get \/ packet_list_node_offset

Spec == Init /\ [][Next]_vars
-----------------------------------------------------------------------------
(***************************************************************************)
(* The type of every variable.                                             *)
(***************************************************************************)
TypeOK ==
  /\ {list_write_size, list_send_size} \subseteq 0 .. MaxLoop
  /\ {write_loop_flg, send_loop_flg, held, wrapped, spare} \subseteq BOOLEAN
  /\ {list_current_send, list_current_write, given} \subseteq Nodes \cup {NoNode}
  /\ next \in [Nodes -> Nodes \cup {NoNode}]
  /\ packet \in [Nodes -> 0 .. MaxAdds]
  /\ used \subseteq Nodes
  /\ ToSet(free) \subseteq Nodes
  /\ status \in {"CLOSED", "CREATED", "OPEN", "CRASHED", "HANGS"}
  /\ {fetched, added} \subseteq 0 .. MaxAdds

(***************************************************************************)
(* The nodes of an open list are exactly the buffers in use, and it ends   *)
(* at list_current_write: none is read or written after it was given back, *)
(* although a node that is taken off is not unlinked, and none is          *)
(* forgotten.  A list that is linked to itself is the exception, and there *)
(* is one only when the list was emptied and the memory list has a single  *)
(* buffer: it is given again, and is still list_current_write.             *)
(***************************************************************************)
ListInUse ==
  status = "OPEN" =>
    IF Looped THEN Cardinality(used) + Len(free) = 1
    ELSE /\ ToSet(Sending) = used
         /\ Sending # <<>> => /\ Last(Sending) = list_current_write
                              /\ next[list_current_write] = NoNode

(* The nodes that the counters count. *)
Counted == Cardinality(used) - (IF spare THEN 1 ELSE 0)

(***************************************************************************)
(* Until a counter wraps they tell how many packets are on the list, also  *)
(* after it was emptied and when it is linked to itself: list_send_size    *)
(* does not count the last node of a list that was reset, nor a node that  *)
(* is sent again.  (Once list_write_size has wrapped to 0, list_send_size  *)
(* stands still, for it only counts while it is smaller.)                  *)
(***************************************************************************)
CountsAgree ==
  status = "OPEN" /\ ~ wrapped => list_write_size - list_send_size = Counted

(***************************************************************************)
(* A client that asks packet_list_check_overflow before it adds a packet   *)
(* never has more than bufsize + 1 packets on the list, also when the      *)
(* counters have wrapped, the list was emptied or it is linked to itself.  *)
(***************************************************************************)
LeadBounded == status = "OPEN" => Counted <= BufSize + 1

(***************************************************************************)
(* The list is a PacketQueue as long as it is not linked to itself: every  *)
(* packet is read once and in order, whatever buffers are used again, and  *)
(* also when list_current_write, a buffer that was given back, is linked   *)
(* to the packet that is added next.                                       *)
(***************************************************************************)
Unread ==
  LET read  == Sending # <<>> /\ (held \/ packet[Head(Sending)] = 0)
      nodes == IF read THEN Tail(Sending) ELSE Sending
  IN  [k \in DOMAIN nodes |-> packet[nodes[k]]]

Queue ==
  INSTANCE PacketQueue WITH
    Packets <- 1 .. MaxAdds, NoPacket <- 0, waiting <- Unread

QueueStep == Queue!Next \/ UNCHANGED Queue!vars

QueueUnlessLooped ==
  Queue!Init /\ [][ Looped \/ Looped' \/ QueueStep ]_vars
=============================================================================
