----------------------------- MODULE MemoryList -----------------------------
(***************************************************************************)
(* The pool of packet buffers (packed/packets_list.c): two doubly linked   *)
(* lists, of the blocks in use and of the blocks to be used again.  A      *)
(* block stands for its memory_block and for the buffer it points to.      *)
(***************************************************************************)
EXTENDS Integers, Sequences, SequencesExt, LinkedLists

CONSTANTS
  Blocks,    (* the blocks the heap can give                               *)
  NoBlock    (* the null pointer                                           *)

ASSUME BlocksAssumption == IsFiniteSet(Blocks) /\ NoBlock \notin Blocks

VARIABLES
  free_head, free_last, used_head, used_last,   (* of the memory_list      *)
  next, prev,                                   (* of every memory_block   *)
  heap,      (* the blocks the heap has given and not got back             *)
  result,    (* what the last memory_list_malloc returned                  *)
  asserts    (* the lines of the pj_asserts that have failed               *)

links == <<free_head, free_last, used_head, used_last, next, prev>>
vars  == <<links, heap, result, asserts>>

Init ==
  /\ free_head = NoBlock /\ free_last = NoBlock
  /\ used_head = NoBlock /\ used_last = NoBlock
  /\ next = [b \in Blocks |-> NoBlock]
  /\ prev = [b \in Blocks |-> NoBlock]
  /\ heap = {}
  /\ result = NoBlock
  /\ asserts = {}
-----------------------------------------------------------------------------
(* The two lists, as the loop while (block != NULL) block = block->next    *)
(* finds their blocks.                                                     *)
UsedList == Chain(next, used_head, NoBlock)
FreeList == Chain(next, free_head, NoBlock)

Check(line, condition) == IF condition THEN {} ELSE {line}

(* memory_list_malloc with no block to use again: a new one, at the end of *)
(* the used list.                                                          *)
MallocNew(b) ==
  /\ free_head = NoBlock
  /\ b \notin heap
  /\ heap' = heap \cup {b}
  /\ used_last' = b
  /\ IF used_last = NoBlock
     THEN /\ used_head' = b
          /\ next' = [next EXCEPT ![b] = NoBlock]
          /\ prev' = [prev EXCEPT ![b] = NoBlock]
     ELSE /\ next' = [next EXCEPT ![b] = NoBlock, ![used_last] = b]
          /\ prev' = [prev EXCEPT ![b] = used_last]
          /\ UNCHANGED used_head
  /\ result' = b
  /\ UNCHANGED <<free_head, free_last, asserts>>

(* One of its two calls of malloc fails: nothing is kept. *)
MallocFails ==
  /\ free_head = NoBlock
  /\ result' = NoBlock
  /\ UNCHANGED <<links, heap, asserts>>

(* The first free block moves to the end of the used list.  free_last is   *)
(* left as it is.                                                          *)
MallocReuse ==
  LET b     == free_head
      after == next[b]
  IN  /\ b # NoBlock
      /\ free_head' = after
      /\ used_last' = b
      /\ used_head' = IF used_last = NoBlock THEN b ELSE used_head
      /\ next' = IF used_last = NoBlock
                 THEN [next EXCEPT ![b] = NoBlock]
                 ELSE [next EXCEPT ![b] = NoBlock, ![used_last] = b]
      /\ prev' = IF after = NoBlock
                 THEN [prev EXCEPT ![b] = used_last]
                 ELSE [prev EXCEPT ![after] = NoBlock, ![b] = used_last]
      /\ asserts' = asserts \cup
           Check(78, used_last = NoBlock \/ next[used_last] = NoBlock)
      /\ result' = b
      /\ UNCHANGED <<free_last, heap>>

(* The two halves of memory_list_free, as the functions they make of next  *)
(* and prev: out of the used list, then to the end of the free list.       *)
NextKept(b)        == next        \* variant of NextUnlinked: not unlinked
PrevKept(b)        == prev        \* variant of PrevUnlinked: not unlinked
UsedLastStale(b)   ==             \* variants of UsedLastWithout: not updated
  IF next[b] # NoBlock \/ b # used_head THEN used_last ELSE NoBlock
UsedLastStaleHead(b) ==
  IF next[b] # NoBlock \/ b = used_head THEN used_last ELSE prev[b]

NextUnlinked(b) ==
  IF b = used_head THEN next ELSE [next EXCEPT ![prev[b]] = next[b]]

PrevUnlinked(b) ==
  IF next[b] = NoBlock THEN prev
  ELSE [prev EXCEPT ![next[b]] = IF b = used_head THEN NoBlock ELSE prev[b]]

UsedLastWithout(b) ==
  IF next[b] # NoBlock THEN used_last
  ELSE IF b = used_head THEN NoBlock
  ELSE prev[b]

FreeAsserts(b) ==
  Check(98, b = used_head => prev[b] = NoBlock)
    \cup Check(105, b = used_head /\ next[b] = NoBlock => b = used_last)
    \cup Check(115, b # used_head /\ next[b] = NoBlock => b = used_last)

(* memory_list_free of a buffer that is on the used list. *)
Free(b) ==
  /\ b \in ToSet(UsedList)
  /\ asserts' = asserts \cup FreeAsserts(b)
  /\ used_head' = IF b = used_head THEN next[b] ELSE used_head
  /\ used_last' = UsedLastWithout(b)
  /\ IF free_head = NoBlock
     THEN /\ free_head' = b
          /\ next' = [NextUnlinked(b) EXCEPT ![b] = NoBlock]
          /\ prev' = [PrevUnlinked(b) EXCEPT ![b] = NoBlock]
     ELSE /\ next' = [NextUnlinked(b) EXCEPT ![b] = NoBlock, ![free_last] = b]
          /\ prev' = [PrevUnlinked(b) EXCEPT ![b] = free_last]
          /\ UNCHANGED free_head
  /\ free_last' = b
  /\ UNCHANGED <<heap, result>>

(* memory_list_destroy gives the blocks of both lists back to the heap,    *)
(* and memory_list_create begins with an empty list.                       *)
Destroy ==
  /\ heap' = heap \ (ToSet(UsedList) \cup ToSet(FreeList))
  /\ free_head' = NoBlock /\ free_last' = NoBlock
  /\ used_head' = NoBlock /\ used_last' = NoBlock
  /\ next' = [b \in Blocks |-> NoBlock]
  /\ prev' = [b \in Blocks |-> NoBlock]
  /\ result' = NoBlock
  /\ UNCHANGED asserts

Next ==
  \/ MallocFails \/ MallocReuse \/ Destroy
  \/ \E b \in Blocks : MallocNew(b) \/ Free(b)

Spec == Init /\ [][Next]_vars
-----------------------------------------------------------------------------
(***************************************************************************)
(* The type of every variable: a pointer of the pool, free_last included,  *)
(* points to a block that the heap has given.                              *)
(***************************************************************************)
TypeOK ==
  /\ {free_head, free_last, used_head, used_last, result} \subseteq heap \cup {NoBlock}
  /\ next \in [Blocks -> Blocks \cup {NoBlock}]
  /\ prev \in [Blocks -> Blocks \cup {NoBlock}]
  /\ heap \in SUBSET Blocks
  /\ asserts \in SUBSET {78, 98, 105, 115}

(***************************************************************************)
(* No pj_assert of memory_list_malloc and memory_list_free ever fails      *)
(* (packets_list.c:78, 98, 105, 115), though free_last may point to a      *)
(* block that is in use again.                                             *)
(***************************************************************************)
AssertsHold == asserts = {}

(***************************************************************************)
(* Every block the heap has given is on exactly one of the lists, once:    *)
(* destroying the pool frees each of them and none of them twice.          *)
(***************************************************************************)
NothingLeaks ==
  /\ IsInjective(UsedList \o FreeList)
  /\ ToSet(UsedList \o FreeList) = heap

(***************************************************************************)
(* The prev pointers of the used list are the inverse of its next pointers *)
(* and used_last is its last block, so unlinking a block in the middle     *)
(* leaves the others linked.                                               *)
(***************************************************************************)
Linked ==
  /\ used_last = IF UsedList = <<>> THEN NoBlock ELSE Last(UsedList)
  /\ \A k \in DOMAIN UsedList :
       prev[UsedList[k]] = IF k = 1 THEN NoBlock ELSE UsedList[k-1]

(***************************************************************************)
(* The list is a MemoryPool: buffers are reused in the order in which they *)
(* were given back and never handed out twice.                             *)
(***************************************************************************)
Pool == INSTANCE MemoryPool WITH
          used  <- ToSet(UsedList),
          free  <- FreeList,
          given <- result

PoolSpec == Pool!Spec
=============================================================================
