----------------------------- MODULE LinkedLists -----------------------------
(***************************************************************************)
(* Singly linked lists: next is the function of the next pointers of all   *)
(* nodes there are, head the pointer to the first node, null the null      *)
(* pointer.                                                                *)
(***************************************************************************)
EXTENDS Integers, Sequences, FiniteSets

(* x, f[x], f[f[x]], ... *)
Iterate(f, x) ==
  LET at[n \in Nat] == IF n = 0 THEN x ELSE f[at[n-1]]
  IN  at

NextOf(next, null) ==
  [n \in DOMAIN next \cup {null} |-> IF n = null THEN null ELSE next[n]]

(* The nodes that a loop  while (n != NULL) n = n->next  comes to, in that *)
(* order; cut behind the first repetition, if it would not end.            *)
Chain(next, head, null) ==
  LET at     == Iterate(NextOf(next, null), head)
      places == {n \in 0 .. Cardinality(DOMAIN next) : at[n] # null}
  IN  [k \in 1 .. Cardinality(places) |-> at[k-1]]

(* The elements of s that are in S, as the calls of a loop over s that do  *)
(* nothing for the others leave them.                                      *)
Only(s, S) ==
  LET kept[k \in 0 .. Len(s)] ==
        IF k = 0 THEN <<>>
        ELSE IF s[k] \in S THEN Append(kept[k-1], s[k]) ELSE kept[k-1]
  IN  kept[Len(s)]

(* s is the list from head on, and the list ends.                          *)
IsChain(s, next, head, null) ==
  /\ s \in Seq(DOMAIN next)
  /\ head = IF s = <<>> THEN null ELSE s[1]
  /\ \A k \in 1 .. Len(s) : next[s[k]] = IF k = Len(s) THEN null ELSE s[k+1]
  /\ \A j, k \in 1 .. Len(s) : s[j] = s[k] => j = k
=============================================================================
