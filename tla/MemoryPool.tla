----------------------------- MODULE MemoryPool -----------------------------
(***************************************************************************)
(* What a memory_list promises: a block that was given back is handed out  *)
(* again, oldest first, before a new one is made; a block is never in the  *)
(* hands of two users, and giving back what is not in use does nothing.    *)
(***************************************************************************)
EXTENDS Integers, Sequences

CONSTANTS Blocks, NoBlock

VARIABLES
  used,   (* the blocks in use                                             *)
  free,   (* the blocks that were given back, oldest first                 *)
  given   (* what the last request got, NoBlock if nothing                 *)

vars == <<used, free, given>>

Init == used = {} /\ free = <<>> /\ given = NoBlock

New(b) ==
  /\ free = <<>>
  /\ b \notin used
  /\ used' = used \cup {b}
  /\ given' = b
  /\ UNCHANGED free

Reuse ==
  /\ free # <<>>
  /\ given' = Head(free)
  /\ free' = Tail(free)
  /\ used' = used \cup {Head(free)}

OutOfMemory == free = <<>> /\ given' = NoBlock /\ UNCHANGED <<used, free>>

GiveBack(b) ==
  /\ b \in used
  /\ used' = used \ {b}
  /\ free' = Append(free, b)
  /\ UNCHANGED given

Destroy == used' = {} /\ free' = <<>> /\ given' = NoBlock

Next ==
  \/ Reuse \/ OutOfMemory \/ Destroy
  \/ \E b \in Blocks : New(b) \/ GiveBack(b)

Spec == Init /\ [][Next]_vars
=============================================================================
