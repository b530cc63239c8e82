--------------------------- MODULE PacketListProofs ---------------------------
(***************************************************************************)
(* Theorems about PacketList, for every finite heap, every MAX_LOOP_NUM,   *)
(* and every lead of the writer that the counters can tell.                *)
(***************************************************************************)
EXTENDS PacketList, LinkedListTheorems, FiniteSetTheorems

(* A buffer that was given back is not on the list, and given back once. *)
FreeNodes ==
  /\ free \in Seq(Nodes)
  /\ \A j, k \in 1 .. Len(free) : free[j] = free[k] => j = k
  /\ \A k \in 1 .. Len(free) : free[k] \notin used

(***************************************************************************)
(* What the counters say of a list of n packets.  When list_write_size has *)
(* wrapped they agree again only if list_send_size had come to             *)
(* MAX_LOOP_NUM, too, and list_send_size wraps alone when there is nothing *)
(* on the list that it counts; as long as they are far apart the client    *)
(* adds nothing.                                                           *)
(***************************************************************************)
Counts(n) ==
  /\ n \in Nat /\ n <= BufSize + 1
  /\ \/ list_write_size - list_send_size = n
     \/ /\ wrapped /\ list_write_size = 0
        /\ list_send_size >= MaxLoop - BufSize
        /\ list_send_size = MaxLoop => n = 1
     \/ wrapped /\ list_write_size = MaxLoop /\ n = 0

(* c are the nodes of the list, the first of which may have no bytes.  The *)
(* last node of a list that was emptied is still list_current_write, and   *)
(* is the buffer that was given back last.                                 *)
OpenList(c) ==
  /\ list_current_write \in Nodes
  /\ c = <<>> => /\ free # <<>> /\ free[Len(free)] = list_current_write
                 /\ ~ spare /\ ~ held
  /\ c # <<>> => list_current_write = c[Len(c)]
  /\ used = ToSet(c)
  /\ \A k \in 1 .. Len(c) : k # 1 => packet[c[k]] # 0

ClosedList(c) ==
  /\ c = <<>> /\ used = {} /\ free = <<>>
  /\ list_current_write = NoNode /\ ~ spare /\ ~ held

ListIs(c) ==
  /\ IsChain(c, next, list_current_send, NoNode)
  /\ status = "OPEN" => OpenList(c)
  /\ status \in {"CLOSED", "CREATED"} => ClosedList(c)

(* A list that is linked to itself is the only buffer there is. *)
LoopedList ==
  /\ Looped /\ list_current_write = list_current_send
  /\ \/ used = {list_current_send} /\ free = <<>>
     \/ used = {} /\ free = <<list_current_send>>
  /\ packet[list_current_send] # 0
  /\ ~ spare
  /\ status \notin {"CLOSED", "CREATED"}

CountsNow == status # "HANGS" => Counts(Counted)

IInv == TypeOK /\ FreeNodes /\ CountsNow /\ (LoopedList \/ ListIs(Sending))
-----------------------------------------------------------------------------
(* What the facts about the list say of its nodes. *)
LEMMA ListFacts ==
  ASSUME TypeOK, NEW c, ListIs(c)
  PROVE  /\ next \in [Nodes -> Nodes \cup {NoNode}]
         /\ c \in Seq(Nodes) /\ Len(c) \in Nat /\ DOMAIN c = 1 .. Len(c)
         /\ (c = <<>> <=> Len(c) = 0)
         /\ \A k \in 1 .. Len(c) : c[k] \in Nodes /\ c[k] # NoNode
         /\ list_current_send = IF c = <<>> THEN NoNode ELSE c[1]
         /\ \A k \in 1 .. Len(c) : next[c[k]] = IF k = Len(c) THEN NoNode ELSE c[k+1]
         /\ \A j, k \in 1 .. Len(c) : c[j] = c[k] => j = k
<1>1. next \in [Nodes -> Nodes \cup {NoNode}]
  BY DEF TypeOK
<1>2. IsChain(c, next, list_current_send, NoNode)
  BY DEF ListIs
<1>3. c \in Seq(Nodes) /\ Len(c) \in Nat /\ DOMAIN c = 1 .. Len(c)
  BY <1>1, <1>2 DEF IsChain
<1>4. \A k \in 1 .. Len(c) : c[k] \in Nodes /\ c[k] # NoNode
  BY <1>3, NodesAssumption
<1>5. c = <<>> <=> Len(c) = 0
  BY <1>3, EmptySeq
<1> QED
  BY <1>1, <1>2, <1>3, <1>4, <1>5 DEF IsChain

(* Such a list is not linked to itself. *)
LEMMA NotLooped ==
  ASSUME TypeOK, NEW c, ListIs(c)
  PROVE  ~ Looped
<1> SUFFICES ASSUME Looped PROVE FALSE
  OBVIOUS
<1>1. /\ c \in Seq(Nodes) /\ Len(c) \in Nat
      /\ (c = <<>> <=> Len(c) = 0)
      /\ list_current_send = (IF c = <<>> THEN NoNode ELSE c[1])
      /\ \A k \in 1 .. Len(c) : next[c[k]] = IF k = Len(c) THEN NoNode ELSE c[k+1]
      /\ \A j, k \in 1 .. Len(c) : c[j] = c[k] => j = k
  BY ListFacts
<1>2. list_current_send # NoNode /\ next[list_current_send] = list_current_send
  BY DEF Looped
<1>3. PICK n \in Nat : n = Len(c) /\ n # 0 /\ list_current_send = c[1]
  BY <1>1, <1>2
<1>4. 1 \in 1 .. n /\ next[c[1]] = IF 1 = n THEN NoNode ELSE c[1+1]
  BY <1>1, <1>3
<1>5. n # 1 /\ c[2] = c[1]
  BY <1>2, <1>3, <1>4
<1>6. 2 \in 1 .. n
  BY <1>3, <1>5
<1> QED
  BY <1>1, <1>3, <1>4, <1>5, <1>6

LEMMA NotLoopedAfter ==
  ASSUME TypeOK', NEW c, ListIs(c)'
  PROVE  ~ Looped'
<1> SUFFICES ASSUME Looped' PROVE FALSE
  OBVIOUS
<1>1. next' \in [Nodes -> Nodes \cup {NoNode}]
  BY DEF TypeOK
<1>2. IsChain(c, next', list_current_send', NoNode)
  BY DEF ListIs
<1>3. c \in Seq(Nodes)
  BY <1>1, <1>2 DEF IsChain
<1>4. list_current_send' # NoNode /\ next'[list_current_send'] = list_current_send'
  BY DEF Looped
<1>5. PICK n \in Nat : n = Len(c) /\ n # 0 /\ list_current_send' = c[1]
  BY <1>2, <1>3, <1>4, EmptySeq DEF IsChain
<1>6. 1 \in 1 .. n /\ next'[c[1]] = IF 1 = n THEN NoNode ELSE c[1+1]
  BY <1>2, <1>5 DEF IsChain
<1>7. n # 1 /\ c[2] = c[1]
  BY <1>4, <1>5, <1>6
<1>8. 2 \in 1 .. n
  BY <1>5, <1>7
<1> QED
  BY <1>2, <1>5, <1>6, <1>7, <1>8 DEF IsChain

(* Such a list is what Sending is, in this state and in the next. *)
LEMMA TheList ==
  ASSUME TypeOK, NEW c, ListIs(c)
  PROVE  Sending = c
BY NodesAssumption, ChainIs DEF TypeOK, ListIs, Sending

LEMMA TheListAfter ==
  ASSUME TypeOK', NEW c, ListIs(c)'
  PROVE  Sending' = c
BY NodesAssumption, ChainIs DEF TypeOK, ListIs, Sending

(* The two remainders that packet_list_check_overflow meets. *)
LEMMA Remainders ==
  ASSUME NEW m \in Nat \ {0}
  PROVE  /\ \A x \in 0 .. m - 1 : x % m = x
         /\ \A x \in 1 .. m - 1 : (- x) % m = m - x
<1>1. ASSUME NEW x \in 0 .. m - 1 PROVE x % m = x
  BY SMTT(60)
<1>2. ASSUME NEW x \in 1 .. m - 1 PROVE (- x) % m = m - x
  BY SMTT(60)
<1> QED
  BY <1>1, <1>2

(***************************************************************************)
(* What packet_list_check_overflow tolerates is no more than bufsize       *)
(* between the counters, though it takes their difference modulo Word.     *)
(***************************************************************************)
LEMMA Tolerated ==
  ASSUME NEW s \in 0 .. MaxLoop, NEW w \in 0 .. MaxLoop,
         ~ packet_list_check_overflow(s, w, BufSize)
  PROVE  (w >= s => w - s <= BufSize) /\ (w < s => s - w <= BufSize)
<1> USE CountsAssumption, LeadAssumption
<1>1. CASE w >= s
  <2>1. w - s \in 0 .. Word - 1 /\ Word \in Nat \ {0}
    BY <1>1
  <2>2. (w - s) % Word = w - s
    BY <2>1, Remainders
  <2> QED
    BY <1>1, <2>1, <2>2 DEF packet_list_check_overflow, Difference
<1>2. CASE w < s
  <2>1. s - w \in 1 .. Word - 1 /\ w - s = - (s - w) /\ Word \in Nat \ {0}
    BY <1>2
  <2>2. (- (s - w)) % Word = Word - (s - w)
    BY <2>1, Remainders
  <2>3. (w - s) % Word = Word - (s - w)
    BY <2>1, <2>2
  <2> QED
    BY <1>2, <2>1, <2>3 DEF packet_list_check_overflow, Difference
<1> QED
  BY <1>1, <1>2
-----------------------------------------------------------------------------
(* The memory list: what it gives was free. *)
LEMMA MallocGives ==
  ASSUME TypeOK, FreeNodes, NEW node \in Nodes, Malloc(node)
  PROVE  /\ node \notin used /\ used' = used \cup {node} /\ given' = node
         /\ FreeNodes' /\ ToSet(free') \subseteq Nodes
<1>1. /\ free \in Seq(Nodes) /\ Len(free) \in Nat
      /\ \A j, k \in 1 .. Len(free) : free[j] = free[k] => j = k
      /\ \A k \in 1 .. Len(free) : free[k] \notin used
  BY LenProperties DEF FreeNodes
<1>2. given' = node
  BY DEF Malloc
<1>3. CASE Mem!New(node)
  <2>1. free = <<>> /\ free' = <<>> /\ node \notin used /\ used' = used \cup {node}
    BY <1>3 DEF Mem!New
  <2> QED
    BY <1>2, <2>1 DEF FreeNodes, ToSet
<1>4. CASE Mem!Reuse
  <2>1. /\ free # <<>> /\ node = Head(free) /\ free' = Tail(free)
        /\ used' = used \cup {node}
    BY <1>2, <1>4 DEF Mem!Reuse
  <2>2. /\ node = free[1] /\ 1 \in 1 .. Len(free)
        /\ free' \in Seq(Nodes) /\ Len(free') = Len(free) - 1
        /\ \A k \in 1 .. Len(free) - 1 : free'[k] = free[k+1]
    BY <1>1, <2>1, HeadTailProperties
  <2>3. \A k \in 1 .. Len(free') :
          k + 1 \in 1 .. Len(free) /\ k + 1 # 1 /\ free'[k] = free[k+1]
    BY <1>1, <2>2
  <2>4. \A j, k \in 1 .. Len(free') : free'[j] = free'[k] => j = k
    BY <1>1, <2>3
  <2>5. \A k \in 1 .. Len(free') : free'[k] \notin used'
    BY <1>1, <2>1, <2>2, <2>3
  <2>6. ToSet(free') \subseteq Nodes
    BY <2>2, LenProperties DEF ToSet
  <2> QED
    BY <1>1, <1>2, <2>1, <2>2, <2>4, <2>5, <2>6 DEF FreeNodes
<1> QED
  BY <1>3, <1>4 DEF Malloc

LEMMA FreeNodeTakes ==
  ASSUME TypeOK, FreeNodes, NEW node \in used, FreeNode(node)
  PROVE  /\ used' = used \ {node} /\ given' = given
         /\ FreeNodes' /\ ToSet(free') \subseteq Nodes
<1>1. /\ free \in Seq(Nodes) /\ Len(free) \in Nat
      /\ \A j, k \in 1 .. Len(free) : free[j] = free[k] => j = k
      /\ \A k \in 1 .. Len(free) : free[k] \notin used
  BY LenProperties DEF FreeNodes
<1>2. node \in Nodes
  BY DEF TypeOK
<1>3. used' = used \ {node} /\ free' = Append(free, node) /\ given' = given
  BY DEF FreeNode, Mem!GiveBack
<1>4. /\ free' \in Seq(Nodes) /\ Len(free') = Len(free) + 1
      /\ \A k \in 1 .. Len(free) : free'[k] = free[k]
      /\ free'[Len(free)+1] = node
  BY <1>1, <1>2, <1>3, AppendProperties
<1>5. \A k \in 1 .. Len(free') :
        \/ k \in 1 .. Len(free) /\ free'[k] = free[k] /\ free[k] \notin used
        \/ k = Len(free) + 1 /\ free'[k] = node
  BY <1>1, <1>4
<1>6. ASSUME NEW j \in 1 .. Len(free'), NEW k \in 1 .. Len(free'), free'[j] = free'[k]
      PROVE  j = k
  BY <1>1, <1>5, <1>6
<1>7. \A k \in 1 .. Len(free') : free'[k] \notin used'
  BY <1>3, <1>5
<1>8. ToSet(free') \subseteq Nodes
  BY <1>4, LenProperties DEF ToSet
<1> QED
  BY <1>3, <1>4, <1>6, <1>7, <1>8 DEF FreeNodes

(* The node of a list that is linked to itself is given back. *)
LEMMA LoopFrees ==
  ASSUME TypeOK, FreeNodes, LoopedList, FreeNode(list_current_send)
  PROVE  /\ used' = {} /\ free' = <<list_current_send>> /\ given' = given
         /\ FreeNodes' /\ ToSet(free') \subseteq Nodes
<1>1. CASE used = {list_current_send} /\ free = <<>>
  <2>1. /\ used' = used \ {list_current_send} /\ given' = given
        /\ FreeNodes' /\ ToSet(free') \subseteq Nodes
    BY <1>1, FreeNodeTakes
  <2>2. free' = Append(free, list_current_send)
    BY <1>1 DEF FreeNode, Mem!GiveBack
  <2> QED
    BY <1>1, <2>1, <2>2
<1>2. CASE used = {} /\ free = <<list_current_send>>
  <2>1. UNCHANGED <<used, free, given>>
    BY <1>2 DEF FreeNode, pool
  <2> QED
    BY <1>2, <2>1 DEF FreeNodes, TypeOK
<1> QED
  BY <1>1, <1>2 DEF LoopedList

(* A reset: whatever the list was, its node is the only one in use.  The   *)
(* node may be one that was on the list.                                   *)
LEMMA RecycleGives ==
  ASSUME TypeOK, FreeNodes, NEW c, ListIs(c), status \in {"CREATED", "OPEN"},
         NEW node \in Nodes, Recycle(node)
  PROVE  /\ used' = {node} /\ given' = node
         /\ FreeNodes' /\ ToSet(free') \subseteq Nodes
<1>1. Sending = c
  BY TheList
<1>2. /\ c \in Seq(Nodes) /\ Len(c) \in Nat /\ DOMAIN c = 1 .. Len(c)
      /\ (c = <<>> <=> Len(c) = 0)
      /\ \A j, k \in 1 .. Len(c) : c[j] = c[k] => j = k
  BY ListFacts
<1>3. used = ToSet(c)
  <2>1. CASE status = "OPEN"
    BY <2>1 DEF ListIs, OpenList
  <2>2. CASE status = "CREATED"
    BY <2>2 DEF ListIs, ClosedList, ToSet
  <2> QED
    BY <2>1, <2>2
<1>4. \A k \in 1 .. Len(c) : c[k] \in used
  BY <1>2, <1>3 DEF ToSet
<1>5. Only(Sending, used) = c
  BY <1>1, <1>2, <1>4, OnlyAll
<1> DEFINE all == free \o c
<1>6. /\ node = IF all = <<>> THEN node ELSE Head(all)
      /\ used' = (used \ ToSet(c)) \cup {node}
      /\ free' = IF all = <<>> THEN <<>> ELSE Tail(all)
      /\ given' = node
  BY <1>5 DEF Recycle
<1>7. used' = {node}
  BY <1>3, <1>6
<1>8. /\ free \in Seq(Nodes) /\ Len(free) \in Nat
      /\ \A j, k \in 1 .. Len(free) : free[j] = free[k] => j = k
      /\ \A j \in 1 .. Len(free), k \in 1 .. Len(c) : free[j] # c[k]
  BY <1>4, LenProperties DEF FreeNodes
<1>9. /\ all \in Seq(Nodes) /\ Len(all) = Len(free) + Len(c)
      /\ \A j, k \in 1 .. Len(all) : all[j] = all[k] => j = k
  BY <1>2, <1>8, InOneRow
<1> HIDE DEF all
<1>10. CASE all = <<>>
  BY <1>6, <1>7, <1>10 DEF FreeNodes, ToSet
<1>11. CASE all # <<>>
  <2>1. /\ node = all[1] /\ 1 \in 1 .. Len(all) /\ Len(all) \in Nat
        /\ free' \in Seq(Nodes) /\ Len(free') = Len(all) - 1
        /\ \A k \in 1 .. Len(all) - 1 : free'[k] = all[k+1]
    BY <1>6, <1>9, <1>11, HeadTailProperties, LenProperties
  <2>2. \A k \in 1 .. Len(free') :
          k + 1 \in 1 .. Len(all) /\ k + 1 # 1 /\ free'[k] = all[k+1]
    BY <2>1
  <2>3. \A j, k \in 1 .. Len(free') : free'[j] = free'[k] => j = k
    BY <1>9, <2>1, <2>2
  <2>4. \A k \in 1 .. Len(free') : free'[k] \notin used'
    BY <1>7, <1>9, <2>1, <2>2
  <2>5. ToSet(free') \subseteq Nodes
    BY <2>1, LenProperties DEF ToSet
  <2> QED
    BY <1>6, <1>7, <2>1, <2>3, <2>4, <2>5 DEF FreeNodes
<1> QED
  BY <1>10, <1>11
-----------------------------------------------------------------------------
(* The nodes that are counted, when buffers are taken and given back. *)
LEMMA UsedFinite ==
  ASSUME TypeOK
  PROVE  IsFiniteSet(used) /\ Cardinality(used) \in Nat
BY NodesAssumption, FS_Subset, FS_CardinalityType DEF TypeOK

LEMMA CountedAdd ==
  ASSUME TypeOK, NEW node, node \notin used, used' = used \cup {node}, spare' = spare
  PROVE  Counted' = Counted + 1
<1>1. Cardinality(used') = Cardinality(used) + 1 /\ Cardinality(used) \in Nat
  BY UsedFinite, FS_AddElement
<1> QED
  BY <1>1 DEF Counted

LEMMA CountedNone ==
  ASSUME used = {}, ~ spare
  PROVE  Counted = 0
<1>1. Cardinality(used) = 0
  BY FS_EmptySet
<1> QED
  BY <1>1 DEF Counted

LEMMA CountedNoneAfter ==
  ASSUME used' = {}, ~ spare'
  PROVE  Counted' = 0
<1>1. Cardinality(used') = 0
  BY FS_EmptySet
<1> QED
  BY <1>1 DEF Counted

(* packet_list_create and packet_list_destroy leave no list. *)
LEMMA CreateStep ==
  ASSUME TypeOK, FreeNodes, CountsNow, NEW c, ListIs(c), packet_list_create
  PROVE  TypeOK' /\ FreeNodes' /\ CountsNow' /\ ListIs(<<>>)' /\ c = <<>>
<1> USE CountsAssumption
<1>1. IsChain(<<>>, next', NoNode, NoNode)
  BY EmptyChain
<1>2. /\ status = "CLOSED" /\ status' = "CREATED"
      /\ list_write_size' = 0 /\ list_send_size' = 0
      /\ list_current_send' = NoNode /\ list_current_write' = NoNode
      /\ UNCHANGED <<write_loop_flg, send_loop_flg, next, packet, used, free, given,
                     held, fetched, added, wrapped, spare>>
  BY DEF packet_list_create, pool, client
<1>3. ClosedList(c)
  BY <1>2 DEF ListIs
<1>4. ListIs(<<>>)'
  BY <1>1, <1>2, <1>3 DEF ListIs, ClosedList
<1>5. FreeNodes'
  BY <1>2 DEF FreeNodes
<1>6. TypeOK'
  BY <1>2 DEF TypeOK
<1>7. CountsNow'
  <2>1. Counted' = 0
    BY <1>2, <1>3, CountedNoneAfter DEF ClosedList
  <2> QED
    BY <1>2, <2>1 DEF CountsNow, Counts
<1> QED
  BY <1>3, <1>4, <1>5, <1>6, <1>7 DEF ClosedList

LEMMA DestroyStep ==
  ASSUME TypeOK, packet_list_destroy
  PROVE  TypeOK' /\ FreeNodes' /\ CountsNow' /\ ListIs(<<>>)'
<1> USE CountsAssumption
<1>1. IsChain(<<>>, next', NoNode, NoNode)
  BY EmptyChain
<1>2. /\ status' = "CLOSED"
      /\ list_write_size' = 0 /\ list_send_size' = 0
      /\ write_loop_flg' = FALSE /\ send_loop_flg' = FALSE
      /\ list_current_send' = NoNode /\ list_current_write' = NoNode
      /\ held' = FALSE /\ fetched' = 0 /\ added' = 0 /\ wrapped' = FALSE
      /\ spare' = FALSE
      /\ used' = {} /\ free' = <<>> /\ given' = NoNode
      /\ next' = next /\ packet' = packet
  BY DEF packet_list_destroy, Mem!Destroy
<1>3. ListIs(<<>>)'
  BY <1>1, <1>2 DEF ListIs, ClosedList
<1>4. FreeNodes'
  BY <1>2 DEF FreeNodes
<1>5. TypeOK'
  <2>1. {write_loop_flg', send_loop_flg', held', wrapped', spare'} \subseteq BOOLEAN
    BY <1>2
  <2>2. ToSet(free') \subseteq Nodes
    BY <1>2 DEF ToSet
  <2>3. /\ {list_write_size', list_send_size'} \subseteq 0 .. MaxLoop
        /\ {fetched', added'} \subseteq 0 .. MaxAdds
    BY <1>2
  <2>4. /\ next' \in [Nodes -> Nodes \cup {NoNode}]
        /\ packet' \in [Nodes -> 0 .. MaxAdds]
    BY <1>2 DEF TypeOK
  <2> QED
    BY <1>2, <2>1, <2>2, <2>3, <2>4 DEF TypeOK
<1>6. CountsNow'
  <2>1. Counted' = 0
    BY <1>2, CountedNoneAfter
  <2> QED
    BY <1>2, <2>1 DEF CountsNow, Counts
<1> QED
  BY <1>3, <1>4, <1>5, <1>6

(* packet_list_reset: a list of one node, without bytes. *)
LEMMA ResetStep ==
  ASSUME TypeOK, FreeNodes, NEW c, ListIs(c), packet_list_reset
  PROVE  /\ TypeOK' /\ FreeNodes' /\ CountsNow'
         /\ \E node \in Nodes : ListIs(<<node>>)' /\ packet'[node] = 0
<1> USE CountsAssumption, NodesAssumption
<1>1. PICK node \in Nodes : Recycle(node) /\ ResetLinks(node)
  BY DEF packet_list_reset
<1>2. /\ status \in {"CREATED", "OPEN"} /\ status' = "OPEN"
      /\ list_write_size' = 0 /\ list_send_size' = 0
      /\ write_loop_flg' = FALSE /\ send_loop_flg' = FALSE
      /\ held' = FALSE /\ fetched' = 0 /\ added' = 0 /\ wrapped' = FALSE
      /\ spare' = TRUE
  BY DEF packet_list_reset
<1>3. /\ list_current_send' = node /\ list_current_write' = node
      /\ next' = [next EXCEPT ![node] = NoNode]
      /\ packet' = [packet EXCEPT ![node] = 0]
  BY <1>1 DEF ResetLinks
<1>4. /\ used' = {node} /\ given' = node
      /\ FreeNodes' /\ ToSet(free') \subseteq Nodes
  BY <1>1, <1>2, RecycleGives
<1>5. next' \in [Nodes -> Nodes \cup {NoNode}] /\ packet' \in [Nodes -> 0 .. MaxAdds]
  BY <1>3 DEF TypeOK
<1>6. next'[node] = NoNode /\ packet'[node] = 0
  BY <1>3 DEF TypeOK
<1>7. IsChain(<<node>>, next', node, NoNode)
  BY <1>5, <1>6 DEF IsChain
<1>8. OpenList(<<node>>)'
  BY <1>2, <1>3, <1>4 DEF OpenList, ToSet
<1>9. ListIs(<<node>>)'
  BY <1>2, <1>3, <1>7, <1>8 DEF ListIs
<1>10. TypeOK'
  <2>1. /\ {list_write_size', list_send_size'} \subseteq 0 .. MaxLoop
        /\ {fetched', added'} \subseteq 0 .. MaxAdds
    BY <1>2
  <2>2. {write_loop_flg', send_loop_flg', held', wrapped', spare'} \subseteq BOOLEAN
    BY <1>2
  <2> QED
    BY <1>2, <1>3, <1>4, <1>5, <2>1, <2>2 DEF TypeOK
<1>11. CountsNow'
  <2>1. Counted' = 0
    <3>1. Cardinality(used') = 1
      BY <1>4, FS_Singleton
    <3> QED
      BY <1>2, <3>1 DEF Counted
  <2> QED
    BY <1>2, <2>1 DEF CountsNow, Counts
<1> QED
  BY <1>4, <1>6, <1>9, <1>10, <1>11

(* It hangs on a list that is linked to itself. *)
LEMMA HangStep ==
  ASSUME TypeOK, FreeNodes, LoopedList, ResetHangs
  PROVE  TypeOK' /\ FreeNodes' /\ CountsNow' /\ LoopedList'
<1>1. /\ FreeNode(list_current_send) /\ status' = "HANGS"
      /\ UNCHANGED <<list_write_size, list_send_size, write_loop_flg, send_loop_flg,
                     list_current_send, list_current_write, next, packet,
                     held, fetched, added, wrapped, spare>>
  BY DEF ResetHangs, counters, links, client
<1>2. /\ used' = {} /\ free' = <<list_current_send>> /\ given' = given
      /\ FreeNodes' /\ ToSet(free') \subseteq Nodes
  BY <1>1, LoopFrees
<1>3. LoopedList'
  BY <1>1, <1>2 DEF LoopedList, Looped
<1>4. TypeOK'
  BY <1>1, <1>2 DEF TypeOK
<1> QED
  BY <1>1, <1>2, <1>3, <1>4 DEF CountsNow

(* What the counters become. *)
LEMMA CountsAdd ==
  ASSUME TypeOK, NEW n, Counts(n), MayAdd, list_write_size' = WriteCount,
         wrapped' = (wrapped \/ list_write_size = MaxLoop), list_send_size' = list_send_size
  PROVE  Counts(n + 1)' /\ list_write_size' \in 0 .. MaxLoop
<1> USE CountsAssumption, LeadAssumption
<1>1. list_write_size \in 0 .. MaxLoop /\ list_send_size \in 0 .. MaxLoop /\ n \in Nat
  BY DEF TypeOK, Counts
<1>2. /\ list_write_size >= list_send_size => list_write_size - list_send_size <= BufSize
      /\ list_write_size < list_send_size => list_send_size - list_write_size <= BufSize
  BY <1>1, Tolerated DEF MayAdd
<1>3. \/ list_write_size - list_send_size = n
      \/ list_write_size = MaxLoop /\ n = 0
  BY <1>1, <1>2 DEF Counts
<1>4. n <= BufSize
  BY <1>1, <1>2, <1>3
<1>5. CASE list_write_size = MaxLoop
  <2>1. list_write_size' = 0 /\ wrapped'
    BY <1>5 DEF WriteCount
  <2>2. list_send_size >= MaxLoop - BufSize /\ (list_send_size = MaxLoop => n = 0)
    BY <1>1, <1>2, <1>3, <1>5
  <2>3. list_send_size' >= MaxLoop - BufSize /\ (list_send_size' = MaxLoop => n + 1 = 1)
    BY <1>1, <2>2
  <2>4. n + 1 \in Nat /\ n + 1 <= BufSize + 1
    BY <1>1, <1>4
  <2> QED
    BY <2>1, <2>3, <2>4 DEF Counts
<1>6. CASE list_write_size # MaxLoop
  <2>1. list_write_size' = list_write_size + 1
    BY <1>6 DEF WriteCount
  <2> QED
    BY <1>1, <1>3, <1>4, <1>6, <2>1 DEF Counts
<1> QED
  BY <1>5, <1>6

LEMMA CountsOffset ==
  ASSUME TypeOK, NEW n, Counts(n), list_send_size' = SendCount,
         list_write_size' = list_write_size,
         wrapped' = (wrapped \/ list_send_size = MaxLoop)
  PROVE  /\ n = 0 => Counts(0)'
         /\ n # 0 => Counts(n - 1)'
         /\ list_send_size' \in 0 .. MaxLoop
<1> USE CountsAssumption, LeadAssumption
<1>1. /\ list_write_size \in 0 .. MaxLoop /\ list_send_size \in 0 .. MaxLoop
      /\ n \in Nat /\ n <= BufSize + 1
  BY DEF TypeOK, Counts
<1> DEFINE m == IF n = 0 THEN 0 ELSE n - 1
<1>2. m \in Nat /\ m <= BufSize + 1
  BY <1>1
<1>3. list_send_size' \in 0 .. MaxLoop
  BY <1>1 DEF SendCount
<1>4. CASE list_write_size - list_send_size = n
  <2>1. CASE n # 0
    <3>1. list_send_size' = list_send_size + 1
      BY <1>1, <1>4, <2>1 DEF SendCount
    <3> QED
      BY <1>1, <1>2, <1>3, <1>4, <2>1, <3>1 DEF Counts
  <2>2. CASE n = 0 /\ list_send_size = MaxLoop
    <3>1. list_write_size' = MaxLoop
      BY <1>1, <1>4, <2>2
    <3>2. wrapped'
      BY <2>2
    <3> QED
      BY <1>2, <1>3, <2>2, <3>1, <3>2 DEF Counts
  <2>3. CASE n = 0 /\ list_send_size # MaxLoop
    <3>1. list_send_size' = list_send_size
      BY <1>1, <1>4, <2>3 DEF SendCount
    <3> QED
      BY <1>1, <1>2, <1>3, <1>4, <2>3, <3>1 DEF Counts
  <2> QED
    BY <2>1, <2>2, <2>3
<1>5. CASE /\ wrapped /\ list_write_size = 0
           /\ list_send_size >= MaxLoop - BufSize
           /\ list_send_size = MaxLoop => n = 1
  <2>1. CASE list_send_size = MaxLoop
    <3>1. list_send_size' = 0 /\ n = 1 /\ list_write_size' = 0
      BY <1>5, <2>1 DEF SendCount
    <3> QED
      BY <1>3, <3>1 DEF Counts
  <2>2. CASE list_send_size # MaxLoop
    <3>0. wrapped'
      BY <1>5
    <3>1. list_send_size' = list_send_size /\ list_write_size' = 0
      BY <1>1, <1>5, <2>2 DEF SendCount
    <3>2. /\ list_send_size' >= MaxLoop - BufSize
          /\ list_send_size' # MaxLoop
      BY <1>5, <2>2, <3>1
    <3> QED
      BY <1>2, <1>3, <3>0, <3>1, <3>2 DEF Counts
  <2> QED
    BY <2>1, <2>2
<1>6. CASE wrapped /\ list_write_size = MaxLoop /\ n = 0
  BY <1>2, <1>3, <1>6 DEF Counts
<1> QED
  BY <1>3, <1>4, <1>5, <1>6 DEF Counts

(* packet_list_node_add, whatever the list is: the counters, the pool and  *)
(* what does not depend on where the node goes.                            *)
LEMMA AddCounts ==
  ASSUME TypeOK, FreeNodes, CountsNow, packet_list_node_add
  PROVE  /\ TypeOK' /\ FreeNodes' /\ CountsNow' /\ added + 1 \in 1 .. MaxAdds
         /\ status \in {"CREATED", "OPEN"} /\ status' = "OPEN"
         /\ fetched' = fetched /\ held' = held /\ spare' = spare
         /\ \E node \in Nodes :
              /\ Malloc(node) /\ node \notin used /\ used' = used \cup {node}
              /\ packet' = [packet EXCEPT ![node] = added + 1]
              /\ next' = Linked(node) /\ list_current_write' = node
              /\ list_current_send' = IF list_current_send = NoNode THEN node
                                      ELSE list_current_send
<1> USE CountsAssumption, NodesAssumption
<1>1. PICK node \in Nodes :
        /\ Malloc(node)
        /\ packet' = [packet EXCEPT ![node] = added + 1]
        /\ next' = Linked(node)
        /\ list_current_send' = IF list_current_send = NoNode THEN node
                                ELSE list_current_send
        /\ list_current_write' = node
  BY DEF packet_list_node_add
<1>2. /\ MayAdd /\ status \in {"CREATED", "OPEN"} /\ status' = "OPEN" /\ added < MaxAdds
      /\ list_write_size' = WriteCount /\ list_send_size' = list_send_size
      /\ write_loop_flg' = (list_write_size = MaxLoop) /\ send_loop_flg' = send_loop_flg
      /\ wrapped' = (wrapped \/ list_write_size = MaxLoop)
      /\ added' = added + 1 /\ fetched' = fetched /\ held' = held /\ spare' = spare
  BY DEF packet_list_node_add, MayAdd
<1>3. /\ node \notin used /\ used' = used \cup {node} /\ given' = node
      /\ FreeNodes' /\ ToSet(free') \subseteq Nodes
  BY <1>1, MallocGives
<1>4. PICK n : n = Counted
  OBVIOUS
<1>5. Counts(n)
  BY <1>2, <1>4 DEF CountsNow
<1>6. Counts(n + 1)' /\ list_write_size' \in 0 .. MaxLoop
  BY <1>2, <1>5, CountsAdd
<1>7. CountsNow'
  <2>1. Counted' = n + 1
    BY <1>2, <1>3, <1>4, CountedAdd
  <2> QED
    BY <1>6, <2>1 DEF CountsNow, Counts
<1>8. added + 1 \in 1 .. MaxAdds
  BY <1>2 DEF TypeOK
<1>9. next' \in [Nodes -> Nodes \cup {NoNode}]
  <2>1. next \in [Nodes -> Nodes \cup {NoNode}]
    BY DEF TypeOK
  <2>2. [next EXCEPT ![node] = NoNode] \in [Nodes -> Nodes \cup {NoNode}]
    BY <2>1
  <2> DEFINE fresh == [next EXCEPT ![node] = NoNode]
  <2>3. [fresh EXCEPT ![list_current_write] = node] \in [Nodes -> Nodes \cup {NoNode}]
    <3> HIDE DEF fresh
    <3> QED BY <2>2 DEF fresh
  <2> QED
    BY <1>1, <2>2, <2>3 DEF Linked
<1>10. packet' \in [Nodes -> 0 .. MaxAdds]
  BY <1>1, <1>8 DEF TypeOK
<1>11. TypeOK'
  <2>1. {write_loop_flg', send_loop_flg', held', wrapped', spare'} \subseteq BOOLEAN
    BY <1>2 DEF TypeOK
  <2>2. {list_current_send', list_current_write', given'} \subseteq Nodes \cup {NoNode}
    BY <1>1, <1>3 DEF TypeOK
  <2>3. used' \subseteq Nodes
    BY <1>3 DEF TypeOK
  <2>4. {fetched', added'} \subseteq 0 .. MaxAdds
    BY <1>2, <1>8 DEF TypeOK
  <2>5. {list_write_size', list_send_size'} \subseteq 0 .. MaxLoop
    BY <1>2, <1>6 DEF TypeOK
  <2> QED
    BY <1>2, <1>3, <1>9, <1>10, <2>1, <2>2, <2>3, <2>4, <2>5 DEF TypeOK
<1> QED
  BY <1>1, <1>2, <1>3, <1>7, <1>8, <1>11

(* The node that is put on a list of none, or on none yet: it is the only  *)
(* one, unless it is the buffer that list_current_write points to.         *)
LEMMA AddFirst ==
  ASSUME TypeOK, FreeNodes, CountsNow, ListIs(<<>>), packet_list_node_add
  PROVE  /\ ~ held
         /\ \/ LoopedList'
            \/ \E node \in Nodes :
                 /\ ListIs(<<node>>)'
                 /\ packet' = [packet EXCEPT ![node] = added + 1]
<1> USE NodesAssumption
<1>1. /\ TypeOK' /\ added + 1 # 0
      /\ status \in {"CREATED", "OPEN"} /\ status' = "OPEN" /\ spare' = spare
  BY AddCounts
<1>2. PICK node \in Nodes :
        /\ Malloc(node) /\ node \notin used /\ used' = used \cup {node}
        /\ packet' = [packet EXCEPT ![node] = added + 1]
        /\ next' = Linked(node) /\ list_current_write' = node
        /\ list_current_send' = IF list_current_send = NoNode THEN node
                                ELSE list_current_send
  BY AddCounts
<1>3. /\ list_current_send = NoNode /\ next \in [Nodes -> Nodes \cup {NoNode}]
      /\ packet \in [Nodes -> 0 .. MaxAdds] /\ next' \in [Nodes -> Nodes \cup {NoNode}]
  BY <1>1 DEF ListIs, IsChain, TypeOK
<1>4. used = {} /\ ~ spare /\ ~ held
  BY <1>1 DEF ListIs, OpenList, ClosedList, ToSet
<1>5. list_current_send' = node /\ used' = {node} /\ packet'[node] # 0
  BY <1>1, <1>2, <1>3, <1>4
<1>6. CASE list_current_write = node
  <2>1. status = "OPEN"
    BY <1>1, <1>6 DEF ListIs, ClosedList
  <2>2. free # <<>> /\ free[Len(free)] = node
    BY <1>6, <2>1 DEF ListIs, OpenList
  <2>3. node = Head(free) /\ free' = Tail(free)
    BY <1>2, <2>2 DEF Malloc, Mem!New, Mem!Reuse
  <2>4. PICK n \in Nat : n = Len(free) /\ n # 0 /\ free \in Seq(Nodes)
    BY <2>2, LenProperties, EmptySeq DEF FreeNodes
  <2>5. Head(free) = free[1] /\ 1 \in 1 .. n /\ n \in 1 .. n
    BY <2>2, <2>4, HeadTailProperties
  <2>6. n = 1
    BY <2>2, <2>3, <2>4, <2>5 DEF FreeNodes
  <2>7. free' = <<>>
    <3>1. Tail(free) \in Seq(Nodes) /\ Len(Tail(free)) = n - 1
      BY <2>2, <2>4, HeadTailProperties
    <3>2. Len(Tail(free)) = 0
      BY <2>6, <3>1
    <3> QED
      BY <2>3, <3>1, <3>2, EmptySeq
  <2>8. next'[node] = node
    BY <1>2, <1>3, <1>6 DEF Linked
  <2> QED
    BY <1>1, <1>2, <1>4, <1>5, <2>7, <2>8 DEF LoopedList, Looped
<1>7. CASE list_current_write # node
  <2>1. next'[node] = NoNode
    BY <1>2, <1>3, <1>7 DEF Linked
  <2>2. IsChain(<<node>>, next', node, NoNode)
    BY <1>3, <2>1 DEF IsChain
  <2>3. OpenList(<<node>>)'
    BY <1>2, <1>5 DEF OpenList, ToSet
  <2>4. ListIs(<<node>>)'
    BY <1>1, <1>5, <2>2, <2>3 DEF ListIs
  <2> QED
    BY <1>2, <1>4, <2>4
<1> QED
  BY <1>6, <1>7

(* Put on a list of some, it is the last. *)
LEMMA AddLast ==
  ASSUME TypeOK, FreeNodes, CountsNow, NEW c, c # <<>>, ListIs(c), packet_list_node_add
  PROVE  \E node \in Nodes :
           /\ ListIs(Append(c, node))'
           /\ \A k \in 1 .. Len(c) : c[k] # node
           /\ packet' = [packet EXCEPT ![node] = added + 1]
<1> USE CountsAssumption, NodesAssumption
<1>1. /\ TypeOK' /\ added + 1 # 0
      /\ status \in {"CREATED", "OPEN"} /\ status' = "OPEN" /\ spare' = spare
  BY AddCounts
<1>2. PICK node \in Nodes :
        /\ Malloc(node) /\ node \notin used /\ used' = used \cup {node}
        /\ packet' = [packet EXCEPT ![node] = added + 1]
        /\ next' = Linked(node) /\ list_current_write' = node
        /\ list_current_send' = IF list_current_send = NoNode THEN node
                                ELSE list_current_send
  BY AddCounts
<1>3. OpenList(c)
  BY <1>1 DEF ListIs, ClosedList
<1>4. /\ next \in [Nodes -> Nodes \cup {NoNode}]
      /\ c \in Seq(Nodes) /\ Len(c) \in Nat /\ DOMAIN c = 1 .. Len(c)
      /\ (c = <<>> <=> Len(c) = 0)
      /\ \A k \in 1 .. Len(c) : c[k] \in Nodes /\ c[k] # NoNode
      /\ list_current_send = IF c = <<>> THEN NoNode ELSE c[1]
  BY ListFacts
<1>5. list_current_write = c[Len(c)] /\ Len(c) \in 1 .. Len(c) /\ Len(c) # 0
  BY <1>3, <1>4 DEF OpenList
<1>7. \A k \in 1 .. Len(c) : c[k] # node
  BY <1>2, <1>3, <1>4 DEF OpenList, ToSet
<1>8. list_current_write \in Nodes /\ list_current_write # NoNode
  BY <1>4, <1>5
<1>9. next' = PutLast(next, c, list_current_write, node, NoNode)
  BY <1>2, <1>5, <1>8 DEF Linked, PutLast
<1>10. IsChain(Append(c, node), PutLast(next, c, list_current_write, node, NoNode),
               IF c = <<>> THEN node ELSE list_current_send, NoNode)
  <2>1. IsChain(c, next, list_current_send, NoNode)
    BY DEF ListIs
  <2>2. /\ next \in [Nodes -> Nodes \cup {NoNode}] /\ NoNode \notin Nodes
        /\ \A k \in 1 .. Len(c) : c[k] # node
        /\ \A k \in 1 .. Len(c) : next[c[k]] = next[c[k]]
        /\ c # <<>> => list_current_write = c[Len(c)]
    BY <1>4, <1>5, <1>7
  <2> QED
    BY <2>1, <2>2, ChainPutLast
<1>11. list_current_send' = list_current_send
  BY <1>2, <1>4, <1>5
<1>12. IsChain(Append(c, node), next', list_current_send', NoNode)
  BY <1>9, <1>10, <1>11
<1> DEFINE d == Append(c, node)
<1>13. /\ Len(d) = Len(c) + 1 /\ d # <<>> /\ d[Len(c)+1] = node
       /\ \A k \in 1 .. Len(c) : d[k] = c[k]
  BY <1>4, AppendProperties
<1>14. ToSet(d) = ToSet(c) \cup {node}
  BY <1>4, SetOfAppend
<1> HIDE DEF d
<1>17. \A k \in 1 .. Len(c) + 1 : k # 1 => packet'[d[k]] # 0
  <2> SUFFICES ASSUME NEW k \in 1 .. Len(c) + 1, k # 1 PROVE packet'[d[k]] # 0
    OBVIOUS
  <2>1. packet \in [Nodes -> 0 .. MaxAdds]
    BY DEF TypeOK
  <2>2. CASE k = Len(c) + 1
    BY <1>1, <1>2, <1>13, <2>1, <2>2
  <2>3. CASE k \in 1 .. Len(c)
    <3>1. packet[c[k]] # 0
      BY <1>3, <2>3 DEF OpenList
    <3> QED
      BY <1>2, <1>4, <1>7, <1>13, <2>1, <2>3, <3>1
  <2> QED
    BY <1>4, <2>2, <2>3
<1>19. OpenList(d)'
  BY <1>2, <1>3, <1>13, <1>14, <1>17 DEF OpenList
<1>20. ListIs(d)'
  BY <1>1, <1>12, <1>19 DEF ListIs, d
<1> QED
  BY <1>2, <1>7, <1>20 DEF d

(* Put on a list that is linked to itself, it is the same again, or        *)
(* another one that ends the loop.                                         *)
LEMMA AddLooped ==
  ASSUME TypeOK, FreeNodes, CountsNow, LoopedList, packet_list_node_add
  PROVE  LoopedList' \/ \E c : ListIs(c)'
<1> USE NodesAssumption
<1>1. /\ TypeOK' /\ added + 1 # 0
      /\ status \in {"CREATED", "OPEN"} /\ status' = "OPEN" /\ spare' = spare
  BY AddCounts
<1>2. PICK node \in Nodes :
        /\ Malloc(node) /\ node \notin used /\ used' = used \cup {node}
        /\ packet' = [packet EXCEPT ![node] = added + 1]
        /\ next' = Linked(node) /\ list_current_write' = node
        /\ list_current_send' = IF list_current_send = NoNode THEN node
                                ELSE list_current_send
  BY AddCounts
<1>3. PICK w \in Nodes :
        w = list_current_send /\ w # NoNode /\ list_current_write = w /\ next[w] = w
  BY DEF LoopedList, Looped, TypeOK
<1>4. /\ next \in [Nodes -> Nodes \cup {NoNode}] /\ packet \in [Nodes -> 0 .. MaxAdds]
      /\ next' \in [Nodes -> Nodes \cup {NoNode}] /\ packet[w] # 0 /\ ~ spare
      /\ list_current_send' = w
  BY <1>1, <1>2, <1>3 DEF TypeOK, LoopedList
<1>5. CASE used = {} /\ free = <<w>>
  <2>1. node = w /\ free' = <<>>
    <3>1. Head(free) = w /\ Tail(free) = <<>> /\ free # <<>>
      BY <1>5
    <3> QED
      BY <1>2, <3>1 DEF Malloc, Mem!New, Mem!Reuse
  <2>2. next'[w] = w /\ packet'[w] # 0
    BY <1>1, <1>2, <1>3, <1>4, <2>1 DEF Linked
  <2> QED
    BY <1>1, <1>2, <1>3, <1>4, <1>5, <2>1, <2>2 DEF LoopedList, Looped
<1>6. CASE used = {w} /\ free = <<>>
  <2>1. node # w
    BY <1>2, <1>6
  <2>2. next'[w] = node /\ next'[node] = NoNode
    BY <1>2, <1>3, <1>4, <2>1 DEF Linked
  <2> DEFINE c == <<w, node>>
  <2>3. Len(c) = 2 /\ c[1] = w /\ c[2] = node /\ DOMAIN c = 1 .. 2 /\ c \in Seq(Nodes)
        /\ c # <<>>
    OBVIOUS
  <2> HIDE DEF c
  <2>4. IsChain(c, next', list_current_send', NoNode)
    <3>1. \A k \in 1 .. 2 : k = 1 \/ k = 2
      OBVIOUS
    <3>2. \A j, k \in 1 .. Len(c) : c[j] = c[k] => j = k
      BY <2>1, <2>3, <3>1
    <3>3. \A k \in 1 .. Len(c) : next'[c[k]] = IF k = Len(c) THEN NoNode ELSE c[k+1]
      BY <2>2, <2>3, <3>1
    <3>4. DOMAIN next' = Nodes
      BY <1>4
    <3> QED
      BY <1>4, <2>3, <3>2, <3>3, <3>4 DEF IsChain
  <2>5. ToSet(c) = {w, node}
    BY <2>3 DEF ToSet
  <2>6. packet'[node] # 0
    BY <1>1, <1>2, <1>4
  <2>7. OpenList(c)'
    <3>1. \A k \in 1 .. Len(c) : k # 1 => packet'[c[k]] # 0
      BY <2>3, <2>6
    <3>2. used' = ToSet(c) /\ list_current_write' = c[Len(c)] /\ list_current_write' \in Nodes
      BY <1>2, <1>6, <2>3, <2>5
    <3> QED
      BY <2>3, <3>1, <3>2 DEF OpenList
  <2>8. ListIs(c)'
    BY <1>1, <2>4, <2>7 DEF ListIs
  <2> QED
    BY <2>8
<1> QED
  BY <1>3, <1>5, <1>6 DEF LoopedList

(* packet_list_node_get: the packet of the first node, if it has bytes. *)
LEMMA GetStep ==
  ASSUME TypeOK, FreeNodes, CountsNow, packet_list_node_get
  PROVE  /\ TypeOK' /\ FreeNodes' /\ CountsNow'
         /\ LoopedList => LoopedList'
         /\ \A c : ListIs(c) =>
              /\ ListIs(c)'
              /\ c # <<>> /\ ~ held /\ held' /\ packet' = packet
              /\ fetched' = IF packet[c[1]] = 0 THEN fetched ELSE packet[c[1]]
<1>1. /\ status = "OPEN" /\ ~ held /\ list_current_send # NoNode /\ held' = TRUE
      /\ fetched' = IF packet[list_current_send] = 0 THEN fetched
                    ELSE packet[list_current_send]
      /\ UNCHANGED <<list_write_size, list_send_size, write_loop_flg, send_loop_flg,
                     list_current_send, list_current_write, next, packet,
                     used, free, given, status, added, wrapped, spare>>
  BY DEF packet_list_node_get, counters, links, pool
<1>2. LoopedList => LoopedList'
  BY <1>1 DEF LoopedList, Looped
<1>3. ASSUME NEW c, ListIs(c)
      PROVE  ListIs(c)' /\ c # <<>> /\ list_current_send = c[1]
  <2>1. c # <<>> /\ list_current_send = c[1]
    BY <1>1, <1>3, ListFacts
  <2>2. ListIs(c)'
    BY <1>1, <1>3, <2>1 DEF ListIs, OpenList, ClosedList
  <2> QED
    BY <2>1, <2>2
<1>4. FreeNodes' /\ CountsNow'
  BY <1>1 DEF FreeNodes, CountsNow, Counts, Counted
<1>5. fetched' \in 0 .. MaxAdds
  <2>1. list_current_send \in Nodes
    BY <1>1 DEF TypeOK
  <2>2. packet[list_current_send] \in 0 .. MaxAdds
    BY <2>1 DEF TypeOK
  <2> QED
    BY <1>1, <2>2 DEF TypeOK
<1>6. TypeOK'
  BY <1>1, <1>5 DEF TypeOK
<1> QED
  BY <1>1, <1>2, <1>3, <1>4, <1>6

(* packet_list_node_offset, what it does to the counters: it counts a      *)
(* packet if one is left that they count.                                  *)
LEMMA OffsetCounts ==
  ASSUME TypeOK, CountsNow, packet_list_node_offset,
         Counted' = IF Counted = 0 THEN 0 ELSE Counted - 1
  PROVE  CountsNow' /\ list_send_size' \in 0 .. MaxLoop
<1>1. /\ status = "OPEN" /\ list_send_size' = SendCount
      /\ list_write_size' = list_write_size
      /\ wrapped' = (wrapped \/ list_send_size = MaxLoop)
  BY DEF packet_list_node_offset, MayOffset
<1>2. PICK n : n = Counted
  OBVIOUS
<1>3. Counts(n)
  BY <1>1, <1>2 DEF CountsNow
<1>4. (n = 0 => Counts(0)') /\ (n # 0 => Counts(n - 1)') /\ list_send_size' \in 0 .. MaxLoop
  BY <1>1, <1>3, CountsOffset
<1>5. CASE n = 0
  <2>1. Counted' = 0
    BY <1>2, <1>5
  <2> QED
    BY <1>4, <1>5, <2>1 DEF CountsNow, Counts
<1>6. CASE n # 0
  <2>1. Counted' = n - 1
    BY <1>2, <1>6
  <2> QED
    BY <1>4, <1>6, <2>1 DEF CountsNow, Counts
<1> QED
  BY <1>5, <1>6

LEMMA OffsetType ==
  ASSUME TypeOK, packet_list_node_offset, list_send_size' \in 0 .. MaxLoop,
         list_current_send \in Nodes, used' \subseteq used, given' = given,
         ToSet(free') \subseteq Nodes
  PROVE  TypeOK'
<1>1. /\ status = "OPEN" /\ held' = FALSE
      /\ send_loop_flg' = (list_send_size = MaxLoop \/ send_loop_flg)
      /\ list_current_send' = next[list_current_send]
      /\ wrapped' = (wrapped \/ list_send_size = MaxLoop)
      /\ spare' = (spare /\ next[list_current_send] # NoNode)
      /\ UNCHANGED <<list_write_size, write_loop_flg, list_current_write, next, packet,
                     status, fetched, added>>
  BY DEF packet_list_node_offset, MayOffset
<1>2. {write_loop_flg', send_loop_flg', held', wrapped', spare'} \subseteq BOOLEAN
  BY <1>1 DEF TypeOK
<1>3. {list_current_send', list_current_write', given'} \subseteq Nodes \cup {NoNode}
  BY <1>1 DEF TypeOK
<1>4. /\ {list_write_size', list_send_size'} \subseteq 0 .. MaxLoop
      /\ {fetched', added'} \subseteq 0 .. MaxAdds
      /\ next' \in [Nodes -> Nodes \cup {NoNode}] /\ packet' \in [Nodes -> 0 .. MaxAdds]
  BY <1>1 DEF TypeOK
<1>5. used' \subseteq Nodes /\ status' \in {"CLOSED", "CREATED", "OPEN", "CRASHED", "HANGS"}
  BY <1>1 DEF TypeOK
<1> QED
  BY <1>2, <1>3, <1>4, <1>5 DEF TypeOK

(* The first node goes, whether there is another one or not. *)
LEMMA OffsetStep ==
  ASSUME TypeOK, FreeNodes, CountsNow, NEW c, ListIs(c), packet_list_node_offset
  PROVE  /\ TypeOK' /\ FreeNodes' /\ CountsNow' /\ ListIs(Tail(c))'
         /\ c # <<>> /\ held /\ ~ held' /\ packet' = packet /\ fetched' = fetched
<1> USE NodesAssumption
<1>1. /\ status = "OPEN" /\ held /\ held' = FALSE
      /\ list_current_send' = next[list_current_send]
      /\ FreeNode(list_current_send)
      /\ spare' = (spare /\ next[list_current_send] # NoNode)
      /\ UNCHANGED <<list_write_size, write_loop_flg, list_current_write, next, packet,
                     status, fetched, added>>
  BY DEF packet_list_node_offset, MayOffset
<1>2. OpenList(c) /\ c # <<>>
  BY <1>1 DEF ListIs, OpenList
<1>3. /\ next \in [Nodes -> Nodes \cup {NoNode}]
      /\ c \in Seq(Nodes) /\ Len(c) \in Nat /\ DOMAIN c = 1 .. Len(c)
      /\ (c = <<>> <=> Len(c) = 0)
      /\ \A k \in 1 .. Len(c) : c[k] \in Nodes /\ c[k] # NoNode
      /\ list_current_send = (IF c = <<>> THEN NoNode ELSE c[1])
      /\ \A k \in 1 .. Len(c) : next[c[k]] = IF k = Len(c) THEN NoNode ELSE c[k+1]
      /\ \A j, k \in 1 .. Len(c) : c[j] = c[k] => j = k
  BY ListFacts
<1>0. PICK n \in Nat : n = Len(c) /\ n # 0
  BY <1>2, <1>3
<1>4. 1 \in 1 .. Len(c) /\ list_current_send = c[1] /\ c[1] \in Nodes
  <2>1. 1 \in 1 .. Len(c)
    BY <1>0
  <2> QED
    BY <1>2, <1>3, <2>1
<1>5. next[c[1]] = IF n = 1 THEN NoNode ELSE c[2]
  BY <1>0, <1>3, <1>4
<1> DEFINE d == Without(c, 1)
<1>6. d = Tail(c)
  BY <1>2, <1>3, WithoutFirst
<1>7. /\ d \in Seq(Nodes) /\ Len(d) = n - 1
      /\ \A k \in 1 .. n - 1 : d[k] = c[k+1]
  <2>1. /\ Tail(c) \in Seq(Nodes) /\ Len(Tail(c)) = Len(c) - 1
        /\ \A k \in 1 .. Len(c) - 1 : Tail(c)[k] = c[k+1]
    BY <1>2, <1>3, HeadTailProperties
  <2> HIDE DEF d
  <2> QED
    BY <1>0, <1>6, <2>1
<1>8. c[1] \in used
  BY <1>2, <1>3, <1>4 DEF OpenList, ToSet
<1>9. /\ used' = used \ {c[1]} /\ given' = given /\ free' = Append(free, c[1])
      /\ FreeNodes' /\ ToSet(free') \subseteq Nodes
  BY <1>1, <1>4, <1>8, FreeNodeTakes DEF FreeNode, Mem!GiveBack
<1>10. IsChain(d, next', list_current_send', NoNode)
  <2>1. ASSUME NEW k \in 1 .. Len(c), k # 1
        PROVE  next[c[k]] = IF k = 1 - 1 THEN next[c[1]] ELSE next[c[k]]
    BY <2>1
  <2>2. IsChain(c, next, list_current_send, NoNode)
    BY DEF ListIs
  <2>3. IsChain(d, next, IF 1 = 1 THEN next[list_current_send] ELSE list_current_send, NoNode)
    BY <1>3, <1>4, <2>1, <2>2, ChainWithout
  <2> QED
    BY <1>1, <2>3
<1>11. ToSet(d) = ToSet(c) \ {c[1]}
  BY <1>3, <1>4, SetOfWithout
<1> HIDE DEF d
<1>12. Counted' = IF Counted = 0 THEN 0 ELSE Counted - 1
  <2>1. Counted \in Nat
    BY <1>1 DEF CountsNow, Counts
  <2>2. /\ Cardinality(used') = Cardinality(used) - 1
        /\ Cardinality(used) \in Nat /\ Cardinality(used') \in Nat
    BY <1>8, <1>9, UsedFinite, FS_RemoveElement, FS_CardinalityType
  <2>3. spare \in BOOLEAN
    BY DEF TypeOK
  <2>4. CASE n = 1
    <3>1. ~ spare'
      BY <1>1, <1>4, <1>5, <2>4
    <3>2. used' = {}
      BY <1>2, <1>9, <1>11, <1>7, <2>4, EmptySeq DEF OpenList, ToSet
    <3>3. Cardinality(used') = 0
      BY <3>2, FS_EmptySet
    <3>4. Cardinality(used) = 1 /\ Counted' = 0
      BY <2>2, <3>1, <3>3 DEF Counted
    <3> QED
      BY <2>1, <3>4 DEF Counted
  <2>5. CASE n # 1
    <3>1. 2 \in 1 .. n /\ c[2] # c[1] /\ c[2] \in used
      <4>1. 2 \in 1 .. n
        BY <1>0, <2>5
      <4>2. c[2] # c[1]
        BY <1>0, <1>3, <1>4, <4>1
      <4> QED
        BY <1>0, <1>2, <1>3, <4>1, <4>2 DEF OpenList, ToSet
    <3>2. next[c[1]] # NoNode
      BY <1>0, <1>3, <1>5, <2>5, <3>1
    <3>3. spare' = spare
      BY <1>1, <1>4, <2>3, <3>2
    <3>4. Cardinality(used') # 0
      <4>1. c[2] \in used'
        BY <1>9, <3>1
      <4>2. IsFiniteSet(used')
        BY <1>9, UsedFinite, FS_Subset
      <4> QED
        BY <4>1, <4>2, FS_EmptySet
    <3>5. Counted' = Cardinality(used') - (IF spare THEN 1 ELSE 0)
      BY <3>3 DEF Counted
    <3> QED
      BY <2>2, <3>4, <3>5 DEF Counted
  <2> QED
    BY <2>4, <2>5
<1>13. CountsNow' /\ list_send_size' \in 0 .. MaxLoop
  BY <1>12, OffsetCounts
<1>14. \A k \in 1 .. Len(d) : packet[d[k]] # 0
  <2> SUFFICES ASSUME NEW k \in 1 .. n - 1 PROVE packet[d[k]] # 0
    BY <1>7
  <2>1. k + 1 \in 1 .. n /\ k + 1 # 1 /\ d[k] = c[k+1]
    BY <1>0, <1>7
  <2> QED
    BY <1>0, <1>2, <2>1 DEF OpenList
<1>15. OpenList(d)'
  <2>1. list_current_write' = c[n] /\ list_current_write' \in Nodes
    BY <1>0, <1>1, <1>2 DEF OpenList
  <2>2. used' = ToSet(d)
    BY <1>2, <1>9, <1>11 DEF OpenList
  <2>3. d # <<>> => list_current_write' = d[Len(d)]
    <3>1. CASE n = 1
      BY <1>7, <3>1, EmptySeq
    <3>2. CASE n # 1
      <4>1. n - 1 \in 1 .. n - 1
        BY <1>0, <3>2
      <4> QED
        BY <1>7, <2>1, <4>1
    <3> QED
      BY <3>1, <3>2
  <2>4. ASSUME d = <<>>
        PROVE  /\ free' # <<>> /\ free'[Len(free')] = list_current_write'
               /\ ~ spare' /\ ~ held'
    <3>0. Len(d) = 0
      BY <2>4
    <3>1. n = 1
      <4>1. n - 1 = 0
        BY <1>7, <3>0
      <4>2. n \in Nat
        BY <1>0
      <4> QED
        BY <4>1, <4>2
    <3>2. free \in Seq(Nodes)
      BY DEF FreeNodes
    <3>3. free' # <<>> /\ free'[Len(free')] = c[1]
      BY <1>4, <1>9, <3>2, AppendProperties
    <3> QED
      BY <1>1, <1>4, <1>5, <2>1, <3>1, <3>3
  <2> QED
    BY <1>1, <1>14, <2>1, <2>2, <2>3, <2>4 DEF OpenList
<1>16. ListIs(d)'
  BY <1>1, <1>10, <1>15 DEF ListIs
<1>17. TypeOK'
  BY <1>4, <1>9, <1>13, OffsetType
<1> QED
  BY <1>1, <1>2, <1>6, <1>9, <1>13, <1>16, <1>17

(* The node that is linked to itself is there again. *)
LEMMA OffsetLooped ==
  ASSUME TypeOK, FreeNodes, CountsNow, LoopedList, packet_list_node_offset
  PROVE  TypeOK' /\ FreeNodes' /\ CountsNow' /\ LoopedList'
<1>1. /\ status = "OPEN"
      /\ list_current_send' = next[list_current_send]
      /\ FreeNode(list_current_send)
      /\ spare' = (spare /\ next[list_current_send] # NoNode)
      /\ UNCHANGED <<list_current_write, next, packet, status>>
  BY DEF packet_list_node_offset, MayOffset
<1>2. PICK w \in Nodes : w = list_current_send /\ next[w] = w
  BY DEF LoopedList, Looped, TypeOK
<1>3. /\ used' = {} /\ free' = <<w>> /\ given' = given
      /\ FreeNodes' /\ ToSet(free') \subseteq Nodes
  BY <1>1, <1>2, LoopFrees
<1>4. LoopedList'
  BY <1>1, <1>2, <1>3 DEF LoopedList, Looped
<1>5. Counted' = 0 /\ Counted \in {0, 1}
  <2>1. Counted' = 0
    BY <1>3, <1>4, CountedNoneAfter DEF LoopedList
  <2>2. Cardinality(used) \in {0, 1} /\ ~ spare
    BY FS_Singleton, FS_EmptySet DEF LoopedList
  <2> QED
    BY <2>1, <2>2 DEF Counted
<1>6. CountsNow' /\ list_send_size' \in 0 .. MaxLoop
  BY <1>5, OffsetCounts
<1>7. TypeOK'
  BY <1>2, <1>3, <1>6, OffsetType
<1> QED
  BY <1>3, <1>4, <1>6, <1>7

(* No memory, or a step of somebody else. *)
LEMMA SameStep ==
  ASSUME TypeOK, FreeNodes, CountsNow, NullNode \/ UNCHANGED vars
  PROVE  /\ TypeOK' /\ FreeNodes' /\ CountsNow'
         /\ LoopedList => LoopedList'
         /\ \A c : ListIs(c) => ListIs(c)'
         /\ packet' = packet /\ held' = held /\ fetched' = fetched
<1>1. /\ UNCHANGED <<list_write_size, list_send_size, write_loop_flg, send_loop_flg,
                     list_current_send, list_current_write, next, packet,
                     used, free, held, fetched, added, wrapped, spare>>
      /\ given' \in {given, NoNode}
      /\ status' = status \/ (status' = "CRASHED" /\ status # "HANGS")
  <2>1. CASE NullNode
    <3>1. status \in {"CREATED", "OPEN"}
      BY <2>1 DEF NullNode, MayAdd
    <3> QED
      BY <2>1, <3>1 DEF NullNode, Mem!OutOfMemory, counters, links, client
  <2>2. CASE UNCHANGED vars
    BY <2>2 DEF vars, counters, links, pool, client
  <2> QED
    BY <2>1, <2>2
<1>2. ASSUME NEW c, ListIs(c) PROVE ListIs(c)'
  BY <1>1, <1>2 DEF ListIs, OpenList, ClosedList
<1>3. LoopedList => LoopedList'
  BY <1>1 DEF LoopedList, Looped
<1>4. FreeNodes' /\ CountsNow'
  BY <1>1 DEF FreeNodes, CountsNow, Counts, Counted
<1>5. TypeOK'
  BY <1>1 DEF TypeOK
<1> QED
  BY <1>1, <1>2, <1>3, <1>4, <1>5
-----------------------------------------------------------------------------
LEMMA InvInit == Init => IInv /\ ListIs(<<>>)
<1> SUFFICES ASSUME Init PROVE IInv /\ ListIs(<<>>)
  OBVIOUS
<1> USE CountsAssumption
<1>1. IsChain(<<>>, next, NoNode, NoNode)
  BY EmptyChain
<1>2. used = {} /\ free = <<>> /\ given = NoNode
  BY DEF Init, Mem!Init
<1>3. ListIs(<<>>)
  BY <1>1, <1>2 DEF Init, ListIs, ClosedList
<1>4. FreeNodes
  BY <1>2 DEF FreeNodes
<1>5. TypeOK
  <2>1. {write_loop_flg, send_loop_flg, held, wrapped, spare} \subseteq BOOLEAN
    BY DEF Init
  <2>2. ToSet(free) \subseteq Nodes
    BY <1>2 DEF ToSet
  <2> QED
    BY <1>2, <2>1, <2>2 DEF Init, TypeOK
<1>6. Sending = <<>>
  BY <1>3, <1>5, TheList
<1>7. CountsNow
  <2>1. Counted = 0
    BY <1>2, CountedNone DEF Init
  <2> QED
    BY <2>1 DEF Init, CountsNow, Counts
<1> QED
  BY <1>3, <1>4, <1>5, <1>6, <1>7 DEF IInv

LEMMA InvStep == IInv /\ [Next]_vars => IInv'
<1> SUFFICES ASSUME IInv, [Next]_vars PROVE IInv'
  OBVIOUS
<1>1. PICK c : c = Sending
  OBVIOUS
<1>2. TypeOK /\ FreeNodes /\ CountsNow /\ (LoopedList \/ ListIs(c))
  BY <1>1 DEF IInv
<1>3. SUFFICES TypeOK' /\ FreeNodes' /\ CountsNow' /\ (LoopedList' \/ \E d : ListIs(d)')
  <2>1. CASE LoopedList'
    BY <1>3, <2>1 DEF IInv
  <2>2. ASSUME NEW d, ListIs(d)' PROVE IInv'
    <3>1. Sending' = d
      BY <1>3, <2>2, TheListAfter
    <3> QED
      BY <1>3, <2>2, <3>1 DEF IInv
  <2> QED
    BY <1>3, <2>1, <2>2
<1>4. CASE packet_list_destroy
  BY <1>2, <1>4, DestroyStep
<1>5. CASE packet_list_node_add
  <2>1. TypeOK' /\ FreeNodes' /\ CountsNow'
    BY <1>2, <1>5, AddCounts
  <2>2. LoopedList' \/ \E d : ListIs(d)'
    BY <1>2, <1>5, AddFirst, AddLast, AddLooped
  <2> QED
    BY <2>1, <2>2
<1>6. CASE packet_list_node_get
  BY <1>2, <1>6, GetStep
<1>7. CASE NullNode \/ UNCHANGED vars
  BY <1>2, <1>7, SameStep
<1>8. CASE LoopedList
  <2>1. ~ packet_list_create /\ ~ packet_list_reset
    BY <1>8 DEF LoopedList, packet_list_create, packet_list_reset
  <2>2. CASE ResetHangs
    BY <1>2, <1>8, <2>2, HangStep
  <2>3. CASE packet_list_node_offset
    BY <1>2, <1>8, <2>3, OffsetLooped
  <2> QED
    BY <1>4, <1>5, <1>6, <1>7, <2>1, <2>2, <2>3 DEF Next
<1>9. CASE ListIs(c)
  <2>1. ~ ResetHangs
    BY <1>2, <1>9, NotLooped DEF ResetHangs
  <2>2. CASE packet_list_create
    BY <1>2, <1>9, <2>2, CreateStep
  <2>3. CASE packet_list_reset
    BY <1>2, <1>9, <2>3, ResetStep
  <2>4. CASE packet_list_node_offset
    BY <1>2, <1>9, <2>4, OffsetStep
  <2> QED
    BY <1>4, <1>5, <1>6, <1>7, <2>1, <2>2, <2>3, <2>4 DEF Next
<1> QED
  BY <1>2, <1>8, <1>9

LEMMA Invariance == Spec => []IInv
BY InvInit, InvStep, PTL DEF Spec
-----------------------------------------------------------------------------
(***************************************************************************)
(* The pointers point to nodes and the counters stay where they wrap.      *)
(***************************************************************************)
THEOREM TypeCorrect == Spec => []TypeOK
<1>1. IInv => TypeOK
  BY DEF IInv
<1> QED
  BY <1>1, Invariance, PTL

(***************************************************************************)
(* The nodes of an open list are the buffers in use, and it ends where the *)
(* next packet is put; one that is linked to itself is the only buffer.    *)
(***************************************************************************)
THEOREM InUse == Spec => []ListInUse
<1>1. ASSUME IInv PROVE ListInUse
  <2> SUFFICES ASSUME status = "OPEN"
               PROVE  IF Looped THEN Cardinality(used) + Len(free) = 1
                      ELSE /\ ToSet(Sending) = used
                           /\ Sending # <<>> => /\ Last(Sending) = list_current_write
                                                /\ next[list_current_write] = NoNode
    BY DEF ListInUse
  <2> DEFINE c == Sending
  <2>1. CASE LoopedList
    <3>1. \/ Cardinality(used) = 1 /\ Len(free) = 0
          \/ Cardinality(used) = 0 /\ Len(free) = 1
      <4>1. CASE used = {list_current_send} /\ free = <<>>
        <5>1. Cardinality({list_current_send}) = 1
          BY FS_Singleton
        <5>2. Len(<<>>) = 0
          OBVIOUS
        <5> QED
          BY <4>1, <5>1, <5>2
      <4>2. CASE used = {} /\ free = <<list_current_send>>
        <5>1. Cardinality({}) = 0
          BY FS_EmptySet
        <5>2. Len(<<list_current_send>>) = 1
          OBVIOUS
        <5> QED
          BY <4>2, <5>1, <5>2
      <4> QED
        BY <2>1, <4>1, <4>2 DEF LoopedList
    <3>2. Cardinality(used) + Len(free) = 1
      <4>1. CASE Cardinality(used) = 1 /\ Len(free) = 0
        BY <4>1
      <4>2. CASE Cardinality(used) = 0 /\ Len(free) = 1
        BY <4>2
      <4> QED
        BY <3>1, <4>1, <4>2
    <3> QED
      BY <2>1, <3>2 DEF LoopedList
  <2>2. CASE ListIs(c)
    <3>1. ~ Looped
      BY <1>1, <2>2, NotLooped DEF IInv
    <3>2. OpenList(c)
      BY <2>2 DEF ListIs
    <3>3. /\ Len(c) \in Nat /\ (c = <<>> <=> Len(c) = 0)
          /\ \A k \in 1 .. Len(c) : next[c[k]] = IF k = Len(c) THEN NoNode ELSE c[k+1]
      BY <1>1, <2>2, ListFacts DEF IInv
    <3>4. c # <<>> => Len(c) \in 1 .. Len(c)
      BY <3>3
    <3> HIDE DEF c
    <3>5. c # <<>> => Last(c) = list_current_write /\ next[list_current_write] = NoNode
      BY <3>2, <3>3, <3>4 DEF OpenList, Last
    <3> QED
      BY <3>1, <3>2, <3>5 DEF OpenList, c
  <2> QED
    BY <1>1, <2>1, <2>2 DEF IInv
<1> QED
  BY <1>1, Invariance, PTL

(***************************************************************************)
(* Until a counter wraps they tell how many packets are on the list.       *)
(***************************************************************************)
THEOREM Agree == Spec => []CountsAgree
<1>1. IInv => CountsAgree
  BY DEF IInv, CountsNow, Counts, CountsAgree
<1> QED
  BY <1>1, Invariance, PTL

(***************************************************************************)
(* A client that asks packet_list_check_overflow never has more than       *)
(* bufsize + 1 packets on the list, also when the counters have wrapped    *)
(* and no longer agree.                                                    *)
(***************************************************************************)
THEOREM Bounded == Spec => []LeadBounded
<1>1. IInv => LeadBounded
  BY DEF IInv, CountsNow, Counts, LeadBounded
<1> QED
  BY <1>1, Invariance, PTL
-----------------------------------------------------------------------------
(* The packets on the nodes of a list c. *)
PacketsOf(c) == [k \in 1 .. Len(c) |-> packet[c[k]]]

(* What waits to be read, of a list c. *)
LEMMA UnreadIs ==
  ASSUME TypeOK, NEW c, ListIs(c)
  PROVE  /\ c = <<>> => Unread = <<>>
         /\ c # <<>> /\ (held \/ packet[c[1]] = 0) => Unread = PacketsOf(Tail(c))
         /\ c # <<>> /\ ~ held /\ packet[c[1]] # 0 => Unread = PacketsOf(c)
<1>1. Sending = c
  BY TheList
<1>2. c \in Seq(Nodes) /\ DOMAIN c = 1 .. Len(c)
  BY ListFacts
<1>3. c # <<>> => Head(c) = c[1] /\ Tail(c) \in Seq(Nodes) /\ DOMAIN Tail(c) = 1 .. Len(Tail(c))
  BY <1>2, HeadTailProperties, LenProperties
<1> QED
  BY <1>1, <1>2, <1>3 DEF Unread, PacketsOf

LEMMA UnreadIsAfter ==
  ASSUME TypeOK', NEW c, ListIs(c)'
  PROVE  /\ c = <<>> => Unread' = <<>>
         /\ c # <<>> /\ (held' \/ packet'[c[1]] = 0) => Unread' = PacketsOf(Tail(c))'
         /\ c # <<>> /\ ~ held' /\ packet'[c[1]] # 0 => Unread' = PacketsOf(c)'
<1>1. Sending' = c
  BY TheListAfter
<1>2. next' \in [Nodes -> Nodes \cup {NoNode}]
  BY DEF TypeOK
<1>3. c \in Seq(Nodes) /\ DOMAIN c = 1 .. Len(c)
  BY <1>2 DEF ListIs, IsChain
<1>4. c # <<>> => Head(c) = c[1] /\ Tail(c) \in Seq(Nodes) /\ DOMAIN Tail(c) = 1 .. Len(Tail(c))
  BY <1>3, HeadTailProperties, LenProperties
<1> QED
  BY <1>1, <1>3, <1>4 DEF Unread, PacketsOf

(* packet_list_node_add appends to what waits, wherever that begins. *)
LEMMA PacketsAppend ==
  ASSUME TypeOK, NEW e \in Seq(Nodes), NEW node \in Nodes, NEW p,
         \A k \in 1 .. Len(e) : e[k] # node,
         packet' = [packet EXCEPT ![node] = p]
  PROVE  PacketsOf(Append(e, node))' = Append(PacketsOf(e), p)
<1> DEFINE d == Append(e, node)
           q == PacketsOf(e)
           S == 0 .. MaxAdds
<1>1. packet \in [Nodes -> S]
  BY DEF TypeOK
<1>2. PICK n \in Nat : n = Len(e)
  BY LenProperties
<1>3. /\ Len(d) = n + 1 /\ d[n+1] = node
      /\ \A k \in 1 .. n : d[k] = e[k] /\ e[k] \in Nodes /\ e[k] # node
  BY <1>2, AppendProperties
<1>4. packet'[node] = p /\ \A x \in Nodes : x # node => packet'[x] = packet[x]
  BY <1>1
<1>5. q = [k \in 1 .. n |-> packet[e[k]]]
  BY <1>2 DEF PacketsOf
<1>6. q \in Seq(S) /\ Len(q) = n
  <2>1. \A k \in 1 .. n : packet[e[k]] \in S
    BY <1>1, <1>3
  <2> QED
    BY <1>5, <2>1
<1> HIDE DEF q, d
<1>7. /\ Append(q, p) \in Seq(S \cup {p}) /\ Len(Append(q, p)) = n + 1
      /\ Append(q, p)[n+1] = p /\ \A k \in 1 .. n : Append(q, p)[k] = q[k]
  <2>1. q \in Seq(S \cup {p})
    <3>1. \A k \in 1 .. n : packet[e[k]] \in S \cup {p}
      BY <1>1, <1>3
    <3> QED
      BY <1>5, <3>1
  <2> QED
    BY <1>6, <2>1, AppendProperties
<1>8. PacketsOf(d)' = [k \in 1 .. n + 1 |-> packet'[d[k]]]
  BY <1>3 DEF PacketsOf
<1>9. ASSUME NEW k \in 1 .. n + 1 PROVE packet'[d[k]] = Append(q, p)[k]
  <2>1. CASE k = n + 1
    BY <1>3, <1>4, <1>7, <2>1
  <2>2. CASE k \in 1 .. n
    BY <1>3, <1>4, <1>5, <1>7, <2>2
  <2>3. k = n + 1 \/ k \in 1 .. n
    OBVIOUS
  <2> QED
    BY <2>1, <2>2, <2>3
<1>10. PacketsOf(d)' = Append(q, p)
  <2> DEFINE a == Append(q, p)
  <2> HIDE DEF a
  <2>1. a \in Seq(S \cup {p}) /\ Len(a) = n + 1
    BY <1>7 DEF a
  <2>2. a = [k \in 1 .. n + 1 |-> a[k]]
    BY <2>1
  <2> QED
    BY <1>8, <1>9, <2>2 DEF a
<1> QED
  BY <1>10 DEF d, q

LEMMA PacketsTail ==
  ASSUME TypeOK, NEW c \in Seq(Nodes), c # <<>>
  PROVE  /\ PacketsOf(c) # <<>> /\ Head(PacketsOf(c)) = packet[c[1]]
         /\ Tail(PacketsOf(c)) = PacketsOf(Tail(c))
<1> DEFINE q == PacketsOf(c)
           t == Tail(c)
           S == 0 .. MaxAdds
<1>1. packet \in [Nodes -> S]
  BY DEF TypeOK
<1>2. PICK n \in Nat : n = Len(c) /\ n # 0
  BY LenProperties, EmptySeq
<1>3. /\ t \in Seq(Nodes) /\ Len(t) = n - 1 /\ \A k \in 1 .. n - 1 : t[k] = c[k+1]
  BY <1>2, HeadTailProperties
<1>4. q = [k \in 1 .. n |-> packet[c[k]]]
  BY <1>2 DEF PacketsOf
<1>5. q \in Seq(S) /\ Len(q) = n
  <2>1. \A k \in 1 .. n : packet[c[k]] \in S
    BY <1>1, <1>2
  <2> QED
    BY <1>4, <2>1
<1>6. PacketsOf(t) = [k \in 1 .. n - 1 |-> packet[t[k]]]
  BY <1>3 DEF PacketsOf
<1> HIDE DEF q, t
<1>7. q # <<>>
  BY <1>2, <1>5
<1>8. /\ Head(q) = q[1] /\ Tail(q) \in Seq(S) /\ Len(Tail(q)) = n - 1
      /\ \A k \in 1 .. n - 1 : Tail(q)[k] = q[k+1]
  BY <1>5, <1>7, HeadTailProperties
<1>9. ASSUME NEW k \in 1 .. n - 1 PROVE Tail(q)[k] = packet[t[k]]
  <2>1. k + 1 \in 1 .. n
    BY <1>2
  <2> QED
    BY <1>3, <1>4, <1>8, <2>1
<1>11. Tail(q) = PacketsOf(t)
  <2> DEFINE a == Tail(q)
  <2> HIDE DEF a
  <2>1. a \in Seq(S) /\ Len(a) = n - 1
    BY <1>8 DEF a
  <2>2. a = [k \in 1 .. n - 1 |-> a[k]]
    BY <2>1
  <2> QED
    BY <1>6, <1>9, <2>2 DEF a
<1>12. Head(q) = packet[c[1]]
  BY <1>2, <1>4, <1>8
<1> QED
  BY <1>7, <1>11, <1>12 DEF q, t

(* packet_list_node_add appends a packet to what waits. *)
LEMMA UnreadAdd ==
  ASSUME TypeOK, FreeNodes, CountsNow, NEW c, ListIs(c), packet_list_node_add, ~ Looped'
  PROVE  Unread' = Append(Unread, added + 1)
<1>1. TypeOK' /\ added + 1 \in 1 .. MaxAdds /\ held' = held
  BY AddCounts
<1>2. c \in Seq(Nodes) /\ \A k \in 1 .. Len(c) : c[k] \in Nodes
  BY ListFacts
<1>3. CASE c = <<>>
  <2>1. ~ held /\ Unread = <<>>
    BY <1>3, AddFirst, UnreadIs
  <2>2. PICK node \in Nodes :
          ListIs(<<node>>)' /\ packet' = [packet EXCEPT ![node] = added + 1]
    <3>1. ~ LoopedList'
      BY DEF LoopedList
    <3> QED
      BY <1>3, <3>1, AddFirst
  <2>3. packet'[node] # 0
    BY <1>1, <2>2 DEF TypeOK
  <2>4. <<node>> # <<>> /\ <<node>>[1] = node /\ Append(<<>>, node) = <<node>>
        /\ <<>> \in Seq(Nodes) /\ \A k \in 1 .. Len(<<>>) : <<>>[k] # node
    OBVIOUS
  <2>5. Unread' = PacketsOf(<<node>>)'
    BY <1>1, <2>1, <2>2, <2>3, <2>4, UnreadIsAfter
  <2>6. PacketsOf(Append(<<>>, node))' = Append(PacketsOf(<<>>), added + 1)
    BY <2>2, <2>4, PacketsAppend
  <2>7. PacketsOf(<<>>) = <<>>
    BY DEF PacketsOf
  <2> QED
    BY <2>1, <2>4, <2>5, <2>6, <2>7
<1>4. CASE c # <<>>
  <2>1. PICK node \in Nodes :
          /\ ListIs(Append(c, node))'
          /\ \A k \in 1 .. Len(c) : c[k] # node
          /\ packet' = [packet EXCEPT ![node] = added + 1]
    BY <1>4, AddLast
  <2>2. PICK n \in Nat : n = Len(c) /\ n # 0
    BY <1>2, <1>4, LenProperties, EmptySeq
  <2>3. /\ Append(c, node) # <<>> /\ Append(c, node)[1] = c[1]
        /\ Tail(Append(c, node)) = Append(Tail(c), node)
    BY <1>2, <1>4, <2>2, AppendProperties, HeadTailAppend
  <2>4. /\ Tail(c) \in Seq(Nodes)
        /\ \A k \in 1 .. Len(Tail(c)) : Tail(c)[k] # node
    <3>1. /\ Tail(c) \in Seq(Nodes) /\ Len(Tail(c)) = n - 1
          /\ \A k \in 1 .. n - 1 : Tail(c)[k] = c[k+1]
      BY <1>2, <1>4, <2>2, HeadTailProperties
    <3>2. \A k \in 1 .. n - 1 : k + 1 \in 1 .. n
      BY <2>2
    <3> QED
      BY <2>1, <2>2, <3>1, <3>2
  <2>5. packet'[c[1]] = packet[c[1]]
    BY <1>2, <2>1, <2>2 DEF TypeOK
  <2>6. CASE held \/ packet[c[1]] = 0
    <3>1. Unread = PacketsOf(Tail(c))
      BY <1>4, <2>6, UnreadIs
    <3>2. Unread' = PacketsOf(Tail(Append(c, node)))'
      BY <1>1, <2>1, <2>3, <2>5, <2>6, UnreadIsAfter
    <3>3. PacketsOf(Append(Tail(c), node))' = Append(PacketsOf(Tail(c)), added + 1)
      BY <2>1, <2>4, PacketsAppend
    <3> QED
      BY <2>3, <3>1, <3>2, <3>3
  <2>7. CASE ~ held /\ packet[c[1]] # 0
    <3>1. Unread = PacketsOf(c)
      BY <1>4, <2>7, UnreadIs
    <3>2. Unread' = PacketsOf(Append(c, node))'
      BY <1>1, <2>1, <2>3, <2>5, <2>7, UnreadIsAfter
    <3>3. PacketsOf(Append(c, node))' = Append(PacketsOf(c), added + 1)
      BY <1>2, <2>1, PacketsAppend
    <3> QED
      BY <3>1, <3>2, <3>3
  <2> QED
    BY <2>6, <2>7
<1> QED
  BY <1>3, <1>4

(* Taking off a node that was read leaves alone what waits. *)
LEMMA UnreadOffset ==
  ASSUME TypeOK, FreeNodes, CountsNow, NEW c, ListIs(c), packet_list_node_offset
  PROVE  Unread' = Unread
<1>1. /\ TypeOK' /\ ListIs(Tail(c))' /\ c # <<>>
      /\ held /\ ~ held' /\ packet' = packet
  BY OffsetStep
<1>2. c \in Seq(Nodes)
  BY ListFacts
<1>3. PICK n \in Nat : n = Len(c) /\ n # 0
  BY <1>1, <1>2, LenProperties, EmptySeq
<1>4. /\ Tail(c) \in Seq(Nodes) /\ Len(Tail(c)) = n - 1
      /\ \A k \in 1 .. n - 1 : Tail(c)[k] = c[k+1]
  BY <1>1, <1>2, <1>3, HeadTailProperties
<1>5. Unread = PacketsOf(Tail(c))
  BY <1>1, UnreadIs
<1>6. PacketsOf(Tail(c))' = PacketsOf(Tail(c))
  BY <1>1 DEF PacketsOf
<1>7. CASE n = 1
  <2>0. Len(Tail(c)) = 0
    BY <1>4, <1>7
  <2>1. Tail(c) = <<>>
    BY <1>4, <2>0, EmptySeq
  <2>2. Unread' = <<>>
    BY <1>1, <2>1, UnreadIsAfter
  <2>3. PacketsOf(<<>>) = <<>>
    BY DEF PacketsOf
  <2> QED
    BY <1>5, <2>1, <2>2, <2>3
<1>8. CASE n # 1
  <2>1. 2 \in 1 .. n /\ 1 \in 1 .. n - 1 /\ n - 1 # 0
    BY <1>3, <1>8
  <2>2. Tail(c) # <<>> /\ Tail(c)[1] = c[2]
    <3>1. Len(Tail(c)) # 0 /\ Tail(c)[1] = c[1+1]
      BY <1>4, <2>1
    <3>2. Tail(c) # <<>>
      BY <1>4, <3>1, EmptySeq
    <3> QED
      BY <3>1, <3>2
  <2>3. packet'[c[2]] # 0
    <3>1. OpenList(c)
      BY DEF packet_list_node_offset, MayOffset, ListIs
    <3> QED
      BY <1>1, <1>3, <2>1, <3>1 DEF OpenList
  <2>4. Unread' = PacketsOf(Tail(c))'
    BY <1>1, <2>2, <2>3, UnreadIsAfter
  <2> QED
    BY <1>5, <1>6, <2>4
<1> QED
  BY <1>7, <1>8

(***************************************************************************)
(* The list implements a queue as long as it is not linked to itself: its  *)
(* reader gets every packet that was added, once and in that order,        *)
(* whatever buffers are used again and however often the list is emptied.  *)
(***************************************************************************)
THEOREM Implements == Spec => QueueUnlessLooped
<1> USE DEF QueueStep
<1>1. Init => Queue!Init
  <2> SUFFICES ASSUME Init PROVE Queue!Init
    OBVIOUS
  <2>1. Unread = <<>>
    BY InvInit, UnreadIs DEF IInv
  <2> QED
    BY <2>1 DEF Init, Queue!Init
<1>2. IInv /\ [Next]_vars => [Looped \/ Looped' \/ QueueStep]_vars
  <2> SUFFICES ASSUME IInv, Next, ~ Looped, ~ Looped' PROVE QueueStep
    OBVIOUS
  <2>1. PICK c : c = Sending
    OBVIOUS
  <2>2. TypeOK /\ FreeNodes /\ CountsNow /\ ListIs(c)
    BY <2>1 DEF IInv, LoopedList
  <2>3. c \in Seq(Nodes)
    BY <2>2, ListFacts
  <2>4. CASE packet_list_create
    <3>1. TypeOK' /\ ListIs(<<>>)' /\ c = <<>>
      BY <2>2, <2>4, CreateStep
    <3>2. Unread = <<>> /\ Unread' = <<>>
      BY <2>2, <3>1, UnreadIs, UnreadIsAfter
    <3> QED
      BY <2>4, <3>2 DEF packet_list_create, client, Queue!vars
  <2>5. CASE packet_list_destroy
    <3>1. TypeOK' /\ ListIs(<<>>)'
      BY <2>2, <2>5, DestroyStep
    <3>2. Unread' = <<>>
      BY <3>1, UnreadIsAfter
    <3> QED
      BY <2>5, <3>2 DEF packet_list_destroy, Queue!Next, Queue!Drop
  <2>6. CASE packet_list_reset
    <3>1. PICK node \in Nodes : TypeOK' /\ ListIs(<<node>>)' /\ packet'[node] = 0
      BY <2>2, <2>6, ResetStep
    <3>2. Unread' = PacketsOf(Tail(<<node>>))'
      BY <3>1, UnreadIsAfter
    <3>3. Tail(<<node>>) = <<>>
      OBVIOUS
    <3>4. PacketsOf(<<>>)' = <<>>
      BY DEF PacketsOf
    <3> QED
      BY <2>6, <3>2, <3>3, <3>4 DEF packet_list_reset, Queue!Next, Queue!Drop
  <2>7. CASE packet_list_node_add
    <3>1. added + 1 \in 1 .. MaxAdds /\ fetched' = fetched
      BY <2>2, <2>7, AddCounts
    <3>2. Unread' = Append(Unread, added + 1)
      BY <2>2, <2>7, UnreadAdd
    <3>3. Queue!Add(added + 1)
      BY <3>1, <3>2 DEF Queue!Add
    <3> QED
      BY <3>1, <3>3 DEF Queue!Next
  <2>8. CASE packet_list_node_get
    <3>1. /\ TypeOK' /\ ListIs(c)' /\ c # <<>> /\ ~ held /\ held' /\ packet' = packet
          /\ fetched' = IF packet[c[1]] = 0 THEN fetched ELSE packet[c[1]]
      BY <2>2, <2>8, GetStep
    <3>2. Unread' = PacketsOf(Tail(c))'
      BY <3>1, UnreadIsAfter
    <3>3. PacketsOf(Tail(c))' = PacketsOf(Tail(c))
      BY <3>1 DEF PacketsOf
    <3>4. CASE packet[c[1]] = 0
      <4>1. Unread = PacketsOf(Tail(c))
        BY <2>2, <3>1, <3>4, UnreadIs
      <4> QED
        BY <3>1, <3>2, <3>3, <3>4, <4>1 DEF Queue!vars
    <3>5. CASE packet[c[1]] # 0
      <4>1. Unread = PacketsOf(c)
        BY <2>2, <3>1, <3>5, UnreadIs
      <4>2. /\ PacketsOf(c) # <<>> /\ Head(PacketsOf(c)) = packet[c[1]]
            /\ Tail(PacketsOf(c)) = PacketsOf(Tail(c))
        BY <2>2, <2>3, <3>1, PacketsTail
      <4>3. Queue!Fetch
        BY <3>1, <3>2, <3>3, <3>5, <4>1, <4>2 DEF Queue!Fetch
      <4> QED
        BY <4>3 DEF Queue!Next
    <3> QED
      BY <3>4, <3>5
  <2>9. CASE packet_list_node_offset
    BY <2>2, <2>9, OffsetStep, UnreadOffset DEF Queue!vars
  <2>10. CASE NullNode
    <3>1. TypeOK' /\ ListIs(c)' /\ packet' = packet /\ held' = held /\ fetched' = fetched
      BY <2>2, <2>10, SameStep
    <3>2. Sending = c /\ Sending' = c
      BY <2>2, <3>1, TheList, TheListAfter
    <3> QED
      BY <3>1, <3>2 DEF Queue!vars, Unread
  <2>11. ~ ResetHangs
    BY <2>2 DEF ResetHangs
  <2> QED
    BY <2>4, <2>5, <2>6, <2>7, <2>8, <2>9, <2>10, <2>11 DEF Next
<1> QED
  BY <1>1, <1>2, Invariance, PTL DEF Spec, QueueUnlessLooped
=============================================================================
