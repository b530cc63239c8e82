--------------------------- MODULE MemoryListProofs ---------------------------
(***************************************************************************)
(* Theorems about MemoryList, for every finite heap.                       *)
(***************************************************************************)
EXTENDS MemoryList, LinkedListTheorems

LastOf(s) == IF s = <<>> THEN NoBlock ELSE s[Len(s)]

(* pv is what prev is to be for the blocks of s. *)
BackLinks(s, pv) ==
  \A k \in 1 .. Len(s) : pv[s[k]] = IF k = 1 THEN NoBlock ELSE s[k-1]

(***************************************************************************)
(* u is the used list and f the free list: no block is on both, and        *)
(* together they are what the heap has given.  Nothing is said of the prev *)
(* pointers of the free list, which nobody reads, and of free_last when    *)
(* that list is empty.                                                     *)
(***************************************************************************)
Lists(u, f) ==
  /\ IsChain(u, next, used_head, NoBlock)
  /\ IsChain(f, next, free_head, NoBlock)
  /\ \A j \in 1 .. Len(u), k \in 1 .. Len(f) : u[j] # f[k]
  /\ used_last = LastOf(u)
  /\ f # <<>> => free_last = LastOf(f)
  /\ BackLinks(u, prev)
  /\ heap = ToSet(u) \cup ToSet(f)

IInv == TypeOK /\ AssertsHold /\ Lists(UsedList, FreeList)
-----------------------------------------------------------------------------
(* The prev pointers and the last block when a list changes. *)
LEMMA BackLinksAppend ==
  ASSUME NEW s \in Seq(Blocks), NEW b \in Blocks, NEW pv, NEW pv1,
         BackLinks(s, pv), \A k \in 1 .. Len(s) : pv1[s[k]] = pv[s[k]],
         pv1[b] = LastOf(s)
  PROVE  BackLinks(Append(s, b), pv1) /\ LastOf(Append(s, b)) = b
<1> DEFINE t == Append(s, b)
<1>1. /\ t \in Seq(Blocks) /\ Len(t) = Len(s) + 1 /\ t # <<>> /\ Len(s) \in Nat
      /\ \A k \in 1 .. Len(s) : t[k] = s[k]
      /\ t[Len(s)+1] = b
  BY AppendProperties, LenProperties
<1> HIDE DEF t
<1>2. ASSUME NEW k \in 1 .. Len(s) + 1
      PROVE  pv1[t[k]] = IF k = 1 THEN NoBlock ELSE t[k-1]
  <2>1. CASE k = Len(s) + 1
    <3>1. CASE s = <<>>
      BY <1>1, <2>1, <3>1 DEF LastOf
    <3>2. CASE s # <<>>
      <4>1. Len(s) \in 1 .. Len(s) /\ k # 1 /\ k - 1 = Len(s)
        BY <1>1, <2>1, <3>2, EmptySeq
      <4> QED
        BY <1>1, <2>1, <3>2, <4>1 DEF LastOf
    <3> QED
      BY <3>1, <3>2
  <2>2. CASE k # Len(s) + 1
    <3>1. k \in 1 .. Len(s) /\ (k # 1 => k - 1 \in 1 .. Len(s))
      BY <1>1, <2>2
    <3> QED
      BY <1>1, <3>1 DEF BackLinks
  <2> QED
    BY <2>1, <2>2
<1>3. BackLinks(t, pv1)
  BY <1>1, <1>2 DEF BackLinks
<1>4. LastOf(t) = b
  BY <1>1 DEF LastOf
<1> QED
  BY <1>3, <1>4 DEF t

LEMMA BackLinksWithout ==
  ASSUME NEW s \in Seq(Blocks), NEW i \in 1 .. Len(s), NEW pv, NEW pv1,
         BackLinks(s, pv),
         \A k \in 1 .. Len(s) : k # i => pv1[s[k]] = IF k = i + 1 THEN pv[s[i]] ELSE pv[s[k]]
  PROVE  /\ BackLinks(Without(s, i), pv1)
         /\ LastOf(Without(s, i)) =
              IF i # Len(s) THEN LastOf(s) ELSE IF i = 1 THEN NoBlock ELSE s[i-1]
<1> DEFINE t == Without(s, i)
           L == Len(s)
<1>1. /\ t \in Seq(Blocks) /\ L \in Nat /\ L >= 1 /\ s # <<>> /\ Len(t) = L - 1
      /\ \A k \in 1 .. L - 1 : t[k] = IF k < i THEN s[k] ELSE s[k+1]
  BY WithoutType, LenProperties
<1> HIDE DEF t
<1>2. ASSUME NEW k \in 1 .. L - 1
      PROVE  pv1[t[k]] = IF k = 1 THEN NoBlock ELSE t[k-1]
  <2>1. k \in 1 .. L /\ k + 1 \in 1 .. L
    BY <1>1
  <2>2. CASE k < i
    <3>1. t[k] = s[k] /\ k # i /\ k # i + 1
      BY <1>1, <2>2
    <3>2. pv1[s[k]] = IF k = 1 THEN NoBlock ELSE s[k-1]
      BY <2>1, <3>1 DEF BackLinks
    <3>3. k # 1 => k - 1 \in 1 .. L - 1 /\ k - 1 < i
      BY <1>1, <2>2
    <3> QED
      BY <1>1, <3>1, <3>2, <3>3
  <2>3. CASE k = i
    <3>1. t[k] = s[k+1] /\ k + 1 # i /\ k + 1 = i + 1
      BY <1>1, <2>3
    <3>2. pv1[s[k+1]] = IF i = 1 THEN NoBlock ELSE s[i-1]
      BY <2>1, <3>1 DEF BackLinks
    <3>3. k # 1 => k - 1 \in 1 .. L - 1 /\ k - 1 < i
      BY <1>1, <2>3
    <3> QED
      BY <1>1, <2>3, <3>1, <3>2, <3>3
  <2>4. CASE k > i
    <3>1. t[k] = s[k+1] /\ k + 1 # i /\ k + 1 # i + 1 /\ k # 1 /\ k + 1 # 1
      BY <1>1, <2>4
    <3>2. pv1[s[k+1]] = s[(k+1)-1]
      BY <2>1, <3>1 DEF BackLinks
    <3>3. k - 1 \in 1 .. L - 1 /\ ~ (k - 1 < i) /\ (k - 1) + 1 = k /\ (k+1)-1 = k
      BY <1>1, <2>4
    <3>4. t[k-1] = s[(k-1)+1]
      BY <1>1, <3>3
    <3> QED
      BY <3>1, <3>2, <3>3, <3>4
  <2> QED
    BY <1>1, <2>2, <2>3, <2>4
<1>3. BackLinks(t, pv1)
  BY <1>1, <1>2 DEF BackLinks
<1>4. LastOf(t) = IF i # L THEN LastOf(s) ELSE IF i = 1 THEN NoBlock ELSE s[i-1]
  <2>1. CASE L = 1
    BY <1>1, <2>1 DEF LastOf
  <2>2. CASE L # 1
    <3>1. t # <<>> /\ L - 1 \in 1 .. L - 1 /\ (L - 1) + 1 = L /\ (i # L <=> ~ (L - 1 < i))
      BY <1>1, <2>2
    <3>2. LastOf(t) = IF L - 1 < i THEN s[L-1] ELSE s[L]
      BY <1>1, <3>1 DEF LastOf
    <3> QED
      BY <1>1, <2>2, <3>1, <3>2 DEF LastOf
  <2> QED
    BY <2>1, <2>2
<1> QED
  BY <1>3, <1>4 DEF t
-----------------------------------------------------------------------------
(* What the facts about the two lists say of the pointers. *)
LEMMA ListFacts ==
  ASSUME TypeOK, NEW u, NEW f, Lists(u, f)
  PROVE  /\ next \in [Blocks -> Blocks \cup {NoBlock}]
         /\ prev \in [Blocks -> Blocks \cup {NoBlock}]
         /\ u \in Seq(Blocks) /\ Len(u) \in Nat /\ DOMAIN u = 1 .. Len(u)
         /\ f \in Seq(Blocks) /\ Len(f) \in Nat /\ DOMAIN f = 1 .. Len(f)
         /\ \A k \in 1 .. Len(u) : u[k] \in Blocks /\ u[k] # NoBlock /\ u[k] \in heap
         /\ \A k \in 1 .. Len(f) : f[k] \in Blocks /\ f[k] # NoBlock /\ f[k] \in heap
         /\ used_head = (IF u = <<>> THEN NoBlock ELSE u[1])
         /\ free_head = (IF f = <<>> THEN NoBlock ELSE f[1])
         /\ \A j, k \in 1 .. Len(u) : u[j] = u[k] => j = k
         /\ \A j, k \in 1 .. Len(f) : f[j] = f[k] => j = k
         /\ (used_last = NoBlock) <=> (u = <<>>)
         /\ (free_head = NoBlock) <=> (f = <<>>)
<1> USE BlocksAssumption
<1>1. /\ next \in [Blocks -> Blocks \cup {NoBlock}]
      /\ prev \in [Blocks -> Blocks \cup {NoBlock}]
  BY DEF TypeOK
<1>2. IsChain(u, next, used_head, NoBlock) /\ IsChain(f, next, free_head, NoBlock)
  BY DEF Lists
<1>3. /\ u \in Seq(Blocks) /\ Len(u) \in Nat /\ DOMAIN u = 1 .. Len(u)
      /\ f \in Seq(Blocks) /\ Len(f) \in Nat /\ DOMAIN f = 1 .. Len(f)
  BY <1>1, <1>2 DEF IsChain
<1>4. /\ \A k \in 1 .. Len(u) : u[k] \in Blocks /\ u[k] # NoBlock /\ u[k] \in heap
      /\ \A k \in 1 .. Len(f) : f[k] \in Blocks /\ f[k] # NoBlock /\ f[k] \in heap
  BY <1>3 DEF Lists, ToSet
<1>5. u # <<>> => Len(u) \in 1 .. Len(u) /\ 1 \in 1 .. Len(u)
  BY <1>3
<1>6. f # <<>> => 1 \in 1 .. Len(f)
  BY <1>3
<1> QED
  BY <1>1, <1>2, <1>3, <1>4, <1>5, <1>6 DEF Lists, LastOf, IsChain

(* Two sequences that are the lists are what UsedList and FreeList are. *)
LEMMA TheLists ==
  ASSUME TypeOK, NEW u, NEW f, Lists(u, f)
  PROVE  UsedList = u /\ FreeList = f
BY BlocksAssumption, ChainIs DEF TypeOK, Lists, UsedList, FreeList

(* The same of the state after a step. *)
LEMMA TheListsAfter ==
  ASSUME TypeOK', NEW u, NEW f, Lists(u, f)'
  PROVE  UsedList' = u /\ FreeList' = f
BY BlocksAssumption, ChainIs DEF TypeOK, Lists, UsedList, FreeList
-----------------------------------------------------------------------------
(* memory_list_malloc takes a new block: it is put at the end of the used  *)
(* list.                                                                   *)
LEMMA NewStep ==
  ASSUME TypeOK, AssertsHold, NEW u, NEW f, Lists(u, f), NEW b \in Blocks, MallocNew(b)
  PROVE  /\ TypeOK' /\ AssertsHold' /\ Lists(Append(u, b), f)'
         /\ f = <<>> /\ b \notin ToSet(u)
<1> USE BlocksAssumption
<1>1. /\ next \in [Blocks -> Blocks \cup {NoBlock}]
      /\ prev \in [Blocks -> Blocks \cup {NoBlock}]
      /\ u \in Seq(Blocks) /\ Len(u) \in Nat /\ DOMAIN u = 1 .. Len(u)
      /\ \A k \in 1 .. Len(u) : u[k] \in Blocks /\ u[k] # NoBlock /\ u[k] \in heap
      /\ used_head = (IF u = <<>> THEN NoBlock ELSE u[1])
      /\ \A j, k \in 1 .. Len(u) : u[j] = u[k] => j = k
      /\ (used_last = NoBlock) <=> (u = <<>>)
      /\ (free_head = NoBlock) <=> (f = <<>>)
  BY ListFacts
<1>2. f = <<>>
  BY <1>1 DEF MallocNew
<1>3. \A k \in 1 .. Len(u) : u[k] # b
  BY <1>1 DEF MallocNew
<1>4. b \notin ToSet(u)
  BY <1>1, <1>3 DEF ToSet
<1>5. used_last = LastOf(u) /\ (u # <<>> => used_last = u[Len(u)] /\ Len(u) \in 1 .. Len(u))
  BY <1>1 DEF Lists, LastOf
<1>6. /\ next' = PutLast(next, u, used_last, b, NoBlock)
      /\ prev' = [prev EXCEPT ![b] = used_last]
      /\ used_head' = (IF u = <<>> THEN b ELSE used_head) /\ used_last' = b
      /\ heap' = heap \cup {b} /\ result' = b /\ asserts' = asserts
      /\ free_head' = free_head /\ free_last' = free_last
  BY <1>1 DEF MallocNew, PutLast
<1>7. IsChain(u, next, used_head, NoBlock)
  BY DEF Lists
<1>8. /\ PutLast(next, u, used_last, b, NoBlock) \in [Blocks -> Blocks \cup {NoBlock}]
      /\ IsChain(Append(u, b), PutLast(next, u, used_last, b, NoBlock),
                 IF u = <<>> THEN b ELSE used_head, NoBlock)
  <2>1. /\ next \in [Blocks -> Blocks \cup {NoBlock}] /\ NoBlock \notin Blocks
        /\ \A k \in 1 .. Len(u) : u[k] # b
        /\ \A k \in 1 .. Len(u) : next[u[k]] = next[u[k]]
        /\ u # <<>> => used_last = u[Len(u)]
    BY <1>1, <1>3, <1>5
  <2> QED
    BY <1>7, <2>1, ChainPutLast
<1>9. /\ next' \in [Blocks -> Blocks \cup {NoBlock}]
      /\ prev' \in [Blocks -> Blocks \cup {NoBlock}]
      /\ IsChain(Append(u, b), next', used_head', NoBlock)
  BY <1>1, <1>5, <1>6, <1>8
<1>10. IsChain(f, next', free_head', NoBlock)
  BY <1>1, <1>2, <1>6, EmptyChain
<1>11. BackLinks(Append(u, b), prev') /\ LastOf(Append(u, b)) = b
  <2>1. prev'[b] = LastOf(u) /\ \A k \in 1 .. Len(u) : prev'[u[k]] = prev[u[k]]
    BY <1>1, <1>3, <1>5, <1>6
  <2>2. BackLinks(u, prev)
    BY DEF Lists
  <2> QED
    BY <1>1, <2>1, <2>2, BackLinksAppend
<1>12. heap' = ToSet(Append(u, b)) \cup ToSet(f)
  <2>1. heap = ToSet(u) \cup ToSet(f)
    BY DEF Lists
  <2> QED
    BY <1>1, <1>6, <2>1, SetOfAppend
<1>13. Lists(Append(u, b), f)'
  BY <1>2, <1>6, <1>9, <1>10, <1>11, <1>12 DEF Lists
<1>14. TypeOK'
  BY <1>6, <1>9 DEF TypeOK
<1> QED
  BY <1>2, <1>4, <1>6, <1>13, <1>14 DEF AssertsHold

(* memory_list_malloc takes the first free block. *)
LEMMA ReuseStep ==
  ASSUME TypeOK, AssertsHold, NEW u, NEW f, Lists(u, f), MallocReuse
  PROVE  /\ TypeOK' /\ AssertsHold' /\ f # <<>>
         /\ Lists(Append(u, f[1]), Without(f, 1))' /\ result' = f[1]
<1> USE BlocksAssumption
<1>1. /\ next \in [Blocks -> Blocks \cup {NoBlock}]
      /\ prev \in [Blocks -> Blocks \cup {NoBlock}]
      /\ u \in Seq(Blocks) /\ Len(u) \in Nat /\ DOMAIN u = 1 .. Len(u)
      /\ f \in Seq(Blocks) /\ Len(f) \in Nat /\ DOMAIN f = 1 .. Len(f)
      /\ \A k \in 1 .. Len(u) : u[k] \in Blocks /\ u[k] # NoBlock /\ u[k] \in heap
      /\ \A k \in 1 .. Len(f) : f[k] \in Blocks /\ f[k] # NoBlock /\ f[k] \in heap
      /\ used_head = (IF u = <<>> THEN NoBlock ELSE u[1])
      /\ free_head = (IF f = <<>> THEN NoBlock ELSE f[1])
      /\ \A j, k \in 1 .. Len(u) : u[j] = u[k] => j = k
      /\ \A j, k \in 1 .. Len(f) : f[j] = f[k] => j = k
      /\ (used_last = NoBlock) <=> (u = <<>>)
      /\ (free_head = NoBlock) <=> (f = <<>>)
  BY ListFacts
<1> DEFINE b == f[1]
           after == next[b]
           g == Without(f, 1)
<1>2. f # <<>> /\ free_head = b /\ 1 \in 1 .. Len(f) /\ b \in Blocks /\ b \in heap
  BY <1>1 DEF MallocReuse
<1>3. \A k \in 1 .. Len(u) : u[k] # b
  BY <1>2 DEF Lists
<1>4. used_last = LastOf(u) /\ (u # <<>> => used_last = u[Len(u)] /\ Len(u) \in 1 .. Len(u))
  BY <1>1 DEF Lists, LastOf
<1>5. IsChain(u, next, used_head, NoBlock) /\ IsChain(f, next, free_head, NoBlock)
  BY DEF Lists
<1>6. after = IF Len(f) = 1 THEN NoBlock ELSE f[2]
  <2>1. next[f[1]] = IF 1 = Len(f) THEN NoBlock ELSE f[1+1]
    BY <1>2, <1>5 DEF IsChain
  <2> QED
    BY <1>1, <2>1
<1>7. \A k \in 1 .. Len(u) : u[k] # after
  <2>1. Len(f) # 1 => 2 \in 1 .. Len(f)
    BY <1>1, <1>2
  <2> QED
    BY <1>1, <1>6, <2>1 DEF Lists
<1>8. /\ next' = PutLast(next, u, used_last, b, NoBlock)
      /\ prev' = IF after = NoBlock THEN [prev EXCEPT ![b] = used_last]
                 ELSE [prev EXCEPT ![after] = NoBlock, ![b] = used_last]
      /\ used_head' = (IF u = <<>> THEN b ELSE used_head) /\ used_last' = b
      /\ free_head' = after /\ free_last' = free_last
      /\ heap' = heap /\ result' = b
      /\ asserts' = asserts \cup Check(78, used_last = NoBlock \/ next[used_last] = NoBlock)
  BY <1>1, <1>2 DEF MallocReuse, PutLast
<1> HIDE DEF b, after, g
<1>9. /\ PutLast(next, u, used_last, b, NoBlock) \in [Blocks -> Blocks \cup {NoBlock}]
      /\ \A x \in Blocks : x # b /\ (u # <<>> => x # used_last) =>
                           PutLast(next, u, used_last, b, NoBlock)[x] = next[x]
      /\ IsChain(Append(u, b), PutLast(next, u, used_last, b, NoBlock),
                 IF u = <<>> THEN b ELSE used_head, NoBlock)
  <2>1. /\ next \in [Blocks -> Blocks \cup {NoBlock}] /\ NoBlock \notin Blocks
        /\ b \in Blocks
        /\ \A k \in 1 .. Len(u) : u[k] # b
        /\ \A k \in 1 .. Len(u) : next[u[k]] = next[u[k]]
        /\ u # <<>> => used_last = u[Len(u)]
    BY <1>1, <1>2, <1>3, <1>4
  <2>2. IsChain(u, next, used_head, NoBlock)
    BY <1>5
  <2>3. IsChain(Append(u, b), PutLast(next, u, used_last, b, NoBlock),
                IF u = <<>> THEN b ELSE used_head, NoBlock)
    BY <2>1, <2>2, ChainPutLast
  <2>4. PutLast(next, u, used_last, b, NoBlock) \in [Blocks -> Blocks \cup {NoBlock}]
    BY <2>1, <2>2, ChainPutLast
  <2>5. \A x \in Blocks : x # b /\ (u # <<>> => x # used_last) =>
                         PutLast(next, u, used_last, b, NoBlock)[x] = next[x]
    BY <1>1, <1>4, <2>1 DEF PutLast
  <2> QED
    BY <2>3, <2>4, <2>5
<1>10. after \in Blocks \cup {NoBlock} /\ used_last \in Blocks \cup {NoBlock}
  BY <1>1, <1>2, <1>4 DEF after
<1>11. /\ next' \in [Blocks -> Blocks \cup {NoBlock}]
       /\ prev' \in [Blocks -> Blocks \cup {NoBlock}]
       /\ IsChain(Append(u, b), next', used_head', NoBlock)
       /\ \A x \in Blocks : x # b /\ (u # <<>> => x # used_last) => next'[x] = next[x]
  BY <1>1, <1>2, <1>8, <1>9, <1>10
<1>12. \A k \in 1 .. Len(f) : k # 1 => next'[f[k]] = next[f[k]]
  <2> SUFFICES ASSUME NEW k \in 1 .. Len(f), k # 1 PROVE next'[f[k]] = next[f[k]]
    OBVIOUS
  <2>1. f[k] # b
    BY <1>1, <1>2 DEF b
  <2>2. u # <<>> => f[k] # used_last
    BY <1>4 DEF Lists
  <2> QED
    BY <1>1, <1>11, <2>1, <2>2
<1>13. IsChain(g, next', free_head', NoBlock)
  <2>1. ASSUME NEW k \in 1 .. Len(f), k # 1
        PROVE  next'[f[k]] = IF k = 1 - 1 THEN next[f[1]] ELSE next[f[k]]
    BY <1>12, <2>1
  <2>2. IsChain(Without(f, 1), next', IF 1 = 1 THEN next[free_head] ELSE free_head, NoBlock)
    BY <1>1, <1>2, <1>5, <1>11, <2>1, ChainWithout
  <2> QED
    BY <1>2, <1>8, <2>2 DEF g, after
<1>14. /\ g \in Seq(Blocks) /\ Len(g) = Len(f) - 1
       /\ \A k \in 1 .. Len(g) : k + 1 \in 1 .. Len(f) /\ g[k] = f[k+1]
  <2>1. f \in Seq(Blocks) /\ 1 \in 1 .. Len(f)
    BY <1>1, <1>2
  <2>2. /\ Without(f, 1) \in Seq(Blocks) /\ Len(Without(f, 1)) = Len(f) - 1
        /\ \A k \in 1 .. Len(f) - 1 : Without(f, 1)[k] = IF k < 1 THEN f[k] ELSE f[k+1]
    BY <2>1, WithoutType
  <2>3. Len(f) \in Nat /\ Len(g) = Len(f) - 1 /\ g \in Seq(Blocks)
    BY <1>1, <2>2 DEF g
  <2>4. ASSUME NEW k \in 1 .. Len(f) - 1
        PROVE  k + 1 \in 1 .. Len(f) /\ g[k] = f[k+1]
    <3>1. k + 1 \in 1 .. Len(f) /\ ~ (k < 1)
      BY <2>3
    <3> QED
      BY <2>2, <3>1 DEF g
  <2> QED
    BY <2>3, <2>4
<1>15. \A j \in 1 .. Len(u) + 1, k \in 1 .. Len(g) : Append(u, b)[j] # g[k]
  <2> SUFFICES ASSUME NEW j \in 1 .. Len(u) + 1, NEW k \in 1 .. Len(g)
               PROVE  Append(u, b)[j] # g[k]
    OBVIOUS
  <2>1. k + 1 \in 1 .. Len(f) /\ k + 1 # 1 /\ g[k] = f[k+1]
    BY <1>1, <1>14
  <2>2. CASE j = Len(u) + 1
    <3>1. Append(u, b)[j] = f[1]
      BY <1>1, <1>2, <2>2, AppendProperties DEF b
    <3> QED
      BY <1>1, <1>2, <2>1, <3>1
  <2>3. CASE j \in 1 .. Len(u)
    <3>1. Append(u, b)[j] = u[j]
      BY <1>1, <1>2, <2>3, AppendProperties
    <3> QED
      BY <2>1, <2>3, <3>1 DEF Lists
  <2> QED
    BY <1>1, <2>2, <2>3
<1>16. BackLinks(Append(u, b), prev') /\ LastOf(Append(u, b)) = b
  <2>1. prev'[b] = LastOf(u) /\ \A k \in 1 .. Len(u) : prev'[u[k]] = prev[u[k]]
    BY <1>1, <1>2, <1>3, <1>4, <1>7, <1>8
  <2>2. BackLinks(u, prev)
    BY DEF Lists
  <2> QED
    BY <1>1, <1>2, <2>1, <2>2, BackLinksAppend
<1>17. g # <<>> => free_last' = LastOf(g)
  <2> SUFFICES ASSUME g # <<>> PROVE free_last' = LastOf(g)
    OBVIOUS
  <2>1. Len(g) \in 1 .. Len(g) /\ LastOf(g) = g[Len(g)]
    BY <1>14, LenProperties, EmptySeq DEF LastOf
  <2>2. LastOf(g) = f[Len(f)]
    BY <1>1, <1>14, <2>1
  <2> QED
    BY <1>2, <1>8, <2>2 DEF Lists, LastOf
<1>18. heap' = ToSet(Append(u, b)) \cup ToSet(g)
  <2>1. heap = ToSet(u) \cup ToSet(f) /\ b \in ToSet(f)
    BY <1>1, <1>2 DEF Lists, ToSet, b
  <2>2. ToSet(Append(u, b)) = ToSet(u) \cup {b}
    BY <1>1, <1>2, SetOfAppend
  <2>3. ToSet(g) = ToSet(f) \ {b}
    BY <1>1, <1>2, SetOfWithout DEF g, b
  <2> QED
    BY <1>8, <2>1, <2>2, <2>3
<1>19. Len(Append(u, b)) = Len(u) + 1
  BY <1>1, <1>2
<1>20. Lists(Append(u, b), g)'
  BY <1>8, <1>11, <1>13, <1>15, <1>16, <1>17, <1>18, <1>19 DEF Lists
<1>21. asserts' = {}
  <2>1. used_last # NoBlock => next[used_last] = NoBlock
    BY <1>1, <1>4, <1>5 DEF IsChain
  <2> QED
    BY <1>8, <2>1 DEF AssertsHold, Check
<1>22. TypeOK'
  <2>1. free_head' \in heap \cup {NoBlock}
    BY <1>1, <1>2, <1>6, <1>8
  <2>2. used_head' \in heap \cup {NoBlock} /\ used_last' \in heap \cup {NoBlock}
    BY <1>2, <1>8 DEF TypeOK
  <2>3. free_last' \in heap \cup {NoBlock} /\ result' \in heap \cup {NoBlock}
    BY <1>2, <1>8 DEF TypeOK
  <2>4. heap' = heap /\ heap \in SUBSET Blocks /\ asserts' \in SUBSET {78, 98, 105, 115}
    BY <1>8, <1>21 DEF TypeOK
  <2> QED
    BY <1>11, <2>1, <2>2, <2>3, <2>4 DEF TypeOK
<1> QED
  BY <1>2, <1>8, <1>20, <1>21, <1>22 DEF AssertsHold, b, g

(* memory_list_free of the i-th block of the used list: it is taken out    *)
(* there and put at the end of the free list.                              *)
LEMMA FreeStep ==
  ASSUME TypeOK, AssertsHold, NEW u, NEW f, Lists(u, f),
         NEW i \in 1 .. Len(u), Free(u[i])
  PROVE  /\ TypeOK' /\ AssertsHold'
         /\ Lists(Without(u, i), Append(f, u[i]))' /\ result' = result
<1> USE BlocksAssumption
<1>1. /\ next \in [Blocks -> Blocks \cup {NoBlock}]
      /\ prev \in [Blocks -> Blocks \cup {NoBlock}]
      /\ u \in Seq(Blocks) /\ Len(u) \in Nat /\ DOMAIN u = 1 .. Len(u)
      /\ f \in Seq(Blocks) /\ Len(f) \in Nat /\ DOMAIN f = 1 .. Len(f)
      /\ \A k \in 1 .. Len(u) : u[k] \in Blocks /\ u[k] # NoBlock /\ u[k] \in heap
      /\ \A k \in 1 .. Len(f) : f[k] \in Blocks /\ f[k] # NoBlock /\ f[k] \in heap
      /\ used_head = (IF u = <<>> THEN NoBlock ELSE u[1])
      /\ free_head = (IF f = <<>> THEN NoBlock ELSE f[1])
      /\ \A j, k \in 1 .. Len(u) : u[j] = u[k] => j = k
      /\ (used_last = NoBlock) <=> (u = <<>>)
      /\ (free_head = NoBlock) <=> (f = <<>>)
  BY ListFacts
<1> DEFINE b == u[i]
           v == Without(u, i)
           m == NextUnlinked(b)
           p == PrevUnlinked(b)
<1>2. /\ b \in Blocks /\ b \in heap /\ b # NoBlock
      /\ \A k \in 1 .. Len(u) : k # i => u[k] # b
      /\ \A k \in 1 .. Len(f) : f[k] # b
  BY <1>1 DEF Lists
<1>3. u # <<>> /\ 1 \in 1 .. Len(u) /\ (b = used_head <=> i = 1)
  BY <1>1
<1>4. IsChain(u, next, used_head, NoBlock) /\ IsChain(f, next, free_head, NoBlock)
  BY DEF Lists
<1>5. next[b] = IF i = Len(u) THEN NoBlock ELSE u[i+1]
  BY <1>4 DEF IsChain
<1>6. (next[b] = NoBlock <=> i = Len(u)) /\ (i # Len(u) => i + 1 \in 1 .. Len(u))
  <2>1. i # Len(u) => i + 1 \in 1 .. Len(u)
    <3>1. Len(u) \in Nat
      BY <1>1
    <3> QED
      BY <3>1
  <2> QED
    BY <1>1, <1>5, <2>1
<1>7. prev[b] = (IF i = 1 THEN NoBlock ELSE u[i-1]) /\ (i # 1 => i - 1 \in 1 .. Len(u))
  BY <1>1 DEF Lists, BackLinks
<1>8. used_last = u[Len(u)] /\ (f # <<>> => free_last = f[Len(f)])
  BY <1>3 DEF Lists, LastOf
<1> HIDE DEF b, v
<1>9. m = IF i = 1 THEN next ELSE [next EXCEPT ![u[i-1]] = next[b]]
  BY <1>3, <1>7 DEF NextUnlinked
<1>10. p = IF i = Len(u) THEN prev ELSE [prev EXCEPT ![u[i+1]] = prev[b]]
  BY <1>3, <1>5, <1>6, <1>7 DEF PrevUnlinked
<1> HIDE DEF m, p
<1>11. asserts' = {}
  <2>1. b = used_head => prev[b] = NoBlock
    BY <1>3, <1>7
  <2>2. next[b] = NoBlock => b = used_last
    BY <1>6, <1>8 DEF b
  <2>3. asserts' = asserts \cup FreeAsserts(b)
    BY DEF Free, b
  <2> QED
    BY <2>1, <2>2, <2>3 DEF FreeAsserts, Check, AssertsHold
<1>12. /\ next' = PutLast(m, f, free_last, b, NoBlock)
       /\ prev' = [p EXCEPT ![b] = IF f = <<>> THEN NoBlock ELSE free_last]
       /\ used_head' = (IF b = used_head THEN next[b] ELSE used_head)
       /\ used_last' = UsedLastWithout(b)
       /\ free_head' = (IF f = <<>> THEN b ELSE free_head) /\ free_last' = b
       /\ heap' = heap /\ result' = result
  BY <1>1 DEF Free, PutLast, b, m, p
<1>13. m \in [Blocks -> Blocks \cup {NoBlock}] /\ p \in [Blocks -> Blocks \cup {NoBlock}]
  BY <1>1, <1>6, <1>7, <1>9, <1>10, <1>2
<1>14. \A k \in 1 .. Len(f) : m[f[k]] = next[f[k]]
  <2> SUFFICES ASSUME NEW k \in 1 .. Len(f) PROVE m[f[k]] = next[f[k]]
    OBVIOUS
  <2>1. i # 1 => f[k] # u[i-1]
    BY <1>7 DEF Lists
  <2> QED
    BY <1>1, <1>9, <2>1
<1>15. /\ PutLast(m, f, free_last, b, NoBlock) \in [Blocks -> Blocks \cup {NoBlock}]
       /\ IsChain(Append(f, b), PutLast(m, f, free_last, b, NoBlock),
                  IF f = <<>> THEN b ELSE free_head, NoBlock)
  <2>1. /\ next \in [Blocks -> Blocks \cup {NoBlock}] /\ NoBlock \notin Blocks
        /\ b \in Blocks
        /\ \A k \in 1 .. Len(f) : f[k] # b
        /\ f # <<>> => free_last = f[Len(f)]
    BY <1>1, <1>2, <1>8
  <2>2. IsChain(f, next, free_head, NoBlock)
    BY <1>4
  <2> QED
    BY <1>13, <1>14, <2>1, <2>2, ChainPutLast
<1>16. \A k \in 1 .. Len(u) : k # i => next'[u[k]] = m[u[k]]
  <2> SUFFICES ASSUME NEW k \in 1 .. Len(u), k # i PROVE next'[u[k]] = m[u[k]]
    OBVIOUS
  <2>1. u[k] # b /\ u[k] \in Blocks
    BY <1>1, <1>2
  <2>2. f # <<>> => free_last \in Blocks /\ u[k] # free_last
    <3>1. f # <<>> => Len(f) \in 1 .. Len(f)
      BY <1>1
    <3> QED
      BY <1>1, <1>8, <3>1 DEF Lists
  <2> QED
    BY <1>12, <1>13, <2>1, <2>2 DEF PutLast
<1>17. IsChain(v, next', used_head', NoBlock)
  <2>1. ASSUME NEW k \in 1 .. Len(u), k # i
        PROVE  next'[u[k]] = IF k = i - 1 THEN next[u[i]] ELSE next[u[k]]
    <3>1. i # 1 => (u[k] = u[i-1] <=> k = i - 1)
      BY <1>1, <1>7
    <3>2. i = 1 => k # i - 1
      BY <1>1
    <3>3. m[u[k]] = IF k = i - 1 THEN next[u[i]] ELSE next[u[k]]
      BY <1>1, <1>7, <1>9, <3>1, <3>2 DEF b
    <3> QED
      BY <1>16, <2>1, <3>3
  <2>2. next' \in [Blocks -> Blocks \cup {NoBlock}]
    BY <1>12, <1>15
  <2>3. IsChain(u, next, used_head, NoBlock)
    BY <1>4
  <2>4. IsChain(Without(u, i), next', IF i = 1 THEN next[used_head] ELSE used_head, NoBlock)
    BY <1>1, <2>1, <2>2, <2>3, ChainWithout
  <2>5. used_head' = IF i = 1 THEN next[used_head] ELSE used_head
    BY <1>3, <1>12
  <2> QED
    BY <2>4, <2>5 DEF v
<1>18. BackLinks(v, prev') /\ used_last' = LastOf(v)
  <2>1. ASSUME NEW k \in 1 .. Len(u), k # i
        PROVE  prev'[u[k]] = IF k = i + 1 THEN prev[u[i]] ELSE prev[u[k]]
    <3>1. i # Len(u) => (u[k] = u[i+1] <=> k = i + 1)
      BY <1>1, <1>6
    <3>2. i = Len(u) => k # i + 1
      BY <1>1
    <3>3. p[u[k]] = IF k = i + 1 THEN prev[u[i]] ELSE prev[u[k]]
      BY <1>1, <1>6, <1>10, <3>1, <3>2 DEF b
    <3>4. prev'[u[k]] = p[u[k]]
      BY <1>1, <1>2, <1>12, <1>13, <2>1
    <3> QED
      BY <3>3, <3>4
  <2>2. BackLinks(u, prev)
    BY DEF Lists
  <2>3. /\ BackLinks(Without(u, i), prev')
        /\ LastOf(Without(u, i)) =
             IF i # Len(u) THEN LastOf(u) ELSE IF i = 1 THEN NoBlock ELSE u[i-1]
    <3>1. u \in Seq(Blocks)
      BY <1>1
    <3> QED
      BY <2>1, <2>2, <3>1, BackLinksWithout
  <2>4. LastOf(u) = used_last
    BY DEF Lists
  <2>5. used_last' = IF i # Len(u) THEN used_last ELSE IF i = 1 THEN NoBlock ELSE u[i-1]
    BY <1>3, <1>6, <1>7, <1>12 DEF UsedLastWithout
  <2> QED
    BY <2>3, <2>4, <2>5 DEF v
<1>19. /\ v \in Seq(Blocks) /\ Len(v) = Len(u) - 1
       /\ \A k \in 1 .. Len(u) - 1 : v[k] = IF k < i THEN u[k] ELSE u[k+1]
  <2>1. u \in Seq(Blocks)
    BY <1>1
  <2>2. /\ Without(u, i) \in Seq(Blocks) /\ Len(Without(u, i)) = Len(u) - 1
        /\ \A k \in 1 .. Len(u) - 1 : Without(u, i)[k] = IF k < i THEN u[k] ELSE u[k+1]
    BY <2>1, WithoutType
  <2> QED
    BY <2>2 DEF v
<1>20. /\ Len(Append(f, b)) = Len(f) + 1 /\ Append(f, b) # <<>>
       /\ \A k \in 1 .. Len(f) : Append(f, b)[k] = f[k]
       /\ Append(f, b)[Len(f)+1] = b
  BY <1>1, <1>2, AppendProperties
<1>21. \A j \in 1 .. Len(v), k \in 1 .. Len(f) + 1 : v[j] # Append(f, b)[k]
  <2> SUFFICES ASSUME NEW j \in 1 .. Len(v), NEW k \in 1 .. Len(f) + 1
               PROVE  v[j] # Append(f, b)[k]
    OBVIOUS
  <2>1. PICK n \in 1 .. Len(u) : n # i /\ v[j] = u[n]
    <3>1. j \in 1 .. Len(u) - 1
      BY <1>19
    <3>2. CASE j < i
      BY <1>1, <1>19, <3>1, <3>2
    <3>3. CASE ~ (j < i)
      <4>1. j + 1 \in 1 .. Len(u) /\ j + 1 # i /\ v[j] = u[j+1]
        BY <1>1, <1>19, <3>1, <3>3
      <4> QED
        BY <4>1
    <3> QED
      BY <3>2, <3>3
  <2>2. CASE k = Len(f) + 1
    BY <1>2, <1>20, <2>1, <2>2
  <2>3. CASE k \in 1 .. Len(f)
    BY <1>20, <2>1, <2>3 DEF Lists
  <2> QED
    BY <1>1, <2>2, <2>3
<1>22. LastOf(Append(f, b)) = b
  BY <1>20 DEF LastOf
<1>23. heap' = ToSet(v) \cup ToSet(Append(f, b))
  <2>1. heap = ToSet(u) \cup ToSet(f) /\ b \in ToSet(u)
    BY <1>1 DEF Lists, ToSet, b
  <2>2. ToSet(Append(f, b)) = ToSet(f) \cup {b}
    BY <1>1, <1>2, SetOfAppend
  <2>3. ToSet(v) = ToSet(u) \ {b}
    BY <1>1, SetOfWithout DEF v, b
  <2> QED
    BY <1>12, <2>1, <2>2, <2>3
<1>24. IsChain(Append(f, b), next', free_head', NoBlock)
  BY <1>12, <1>15
<1>25. Lists(v, Append(f, b))'
  BY <1>12, <1>17, <1>18, <1>20, <1>21, <1>22, <1>23, <1>24 DEF Lists
<1>26. TypeOK'
  <2>1. next' \in [Blocks -> Blocks \cup {NoBlock}]
    BY <1>12, <1>15
  <2>2. prev' \in [Blocks -> Blocks \cup {NoBlock}]
    <3>1. f # <<>> => Len(f) \in 1 .. Len(f)
      BY <1>1
    <3>2. (IF f = <<>> THEN NoBlock ELSE free_last) \in Blocks \cup {NoBlock}
      BY <1>1, <1>8, <3>1
    <3> QED
      BY <1>12, <1>13, <3>2
  <2>3. used_head' \in heap \cup {NoBlock}
    BY <1>1, <1>3, <1>5, <1>6, <1>12
  <2>4. used_last' \in heap \cup {NoBlock}
    <3>1. Len(u) \in 1 .. Len(u) /\ used_last \in heap
      BY <1>1, <1>3, <1>8
    <3>2. used_last' = IF i # Len(u) THEN used_last ELSE IF i = 1 THEN NoBlock ELSE u[i-1]
      BY <1>3, <1>6, <1>7, <1>12 DEF UsedLastWithout
    <3> QED
      BY <1>1, <1>7, <3>1, <3>2
  <2>5. free_head' \in heap \cup {NoBlock} /\ free_last' \in heap \cup {NoBlock}
    BY <1>2, <1>12 DEF TypeOK
  <2>6. result' \in heap \cup {NoBlock} /\ heap' = heap /\ heap \in SUBSET Blocks
        /\ asserts' \in SUBSET {78, 98, 105, 115}
    BY <1>11, <1>12 DEF TypeOK
  <2> QED
    BY <2>1, <2>2, <2>3, <2>4, <2>5, <2>6 DEF TypeOK
<1> QED
  BY <1>11, <1>12, <1>25, <1>26 DEF AssertsHold, b, v

(* memory_list_destroy finds every block the heap has given. *)
LEMMA DestroyStep ==
  ASSUME TypeOK, AssertsHold, Lists(UsedList, FreeList), Destroy
  PROVE  TypeOK' /\ AssertsHold' /\ Lists(<<>>, <<>>)' /\ result' = NoBlock
<1>1. heap' = {}
  BY DEF Destroy, Lists
<1>2. /\ free_head' = NoBlock /\ free_last' = NoBlock
      /\ used_head' = NoBlock /\ used_last' = NoBlock
      /\ next' = [x \in Blocks |-> NoBlock] /\ prev' = [x \in Blocks |-> NoBlock]
      /\ result' = NoBlock /\ asserts' = asserts
  BY DEF Destroy
<1>3. IsChain(<<>>, next', NoBlock, NoBlock)
  BY EmptyChain
<1>4. Lists(<<>>, <<>>)'
  BY <1>1, <1>2, <1>3 DEF Lists, LastOf, BackLinks, ToSet
<1>5. TypeOK'
  BY <1>1, <1>2 DEF TypeOK
<1> QED
  BY <1>2, <1>4, <1>5 DEF AssertsHold

(* A request that fails, or a step of somebody else. *)
LEMMA SameStep ==
  ASSUME TypeOK, AssertsHold, NEW u, NEW f, Lists(u, f), MallocFails \/ UNCHANGED vars
  PROVE  TypeOK' /\ AssertsHold' /\ Lists(u, f)'
<1>1. /\ free_head' = free_head /\ free_last' = free_last
      /\ used_head' = used_head /\ used_last' = used_last
      /\ next' = next /\ prev' = prev /\ heap' = heap /\ asserts' = asserts
      /\ result' \in {result, NoBlock}
  BY DEF MallocFails, vars, links
<1>2. TypeOK'
  BY <1>1 DEF TypeOK
<1> QED
  BY <1>1, <1>2 DEF AssertsHold, Lists
-----------------------------------------------------------------------------
LEMMA InvInit == Init => IInv /\ Lists(<<>>, <<>>)
<1> SUFFICES ASSUME Init PROVE IInv /\ Lists(<<>>, <<>>)
  OBVIOUS
<1>1. IsChain(<<>>, next, NoBlock, NoBlock)
  BY EmptyChain
<1>2. Lists(<<>>, <<>>)
  BY <1>1 DEF Init, Lists, LastOf, BackLinks, ToSet
<1>3. TypeOK
  BY DEF Init, TypeOK
<1>4. UsedList = <<>> /\ FreeList = <<>>
  BY <1>2, <1>3, TheLists
<1> QED
  BY <1>2, <1>3, <1>4 DEF Init, IInv, AssertsHold

(* Every step, as what it does to the two lists. *)
LEMMA Steps ==
  ASSUME IInv, [Next]_vars, NEW u, NEW f, u = UsedList, f = FreeList
  PROVE  /\ TypeOK' /\ AssertsHold'
         /\ \/ \E b \in Blocks : MallocNew(b) /\ f = <<>> /\ b \notin ToSet(u)
                               /\ Lists(Append(u, b), f)'
            \/ /\ MallocReuse /\ f # <<>> /\ result' = f[1]
               /\ Lists(Append(u, f[1]), Without(f, 1))'
            \/ \E i \in 1 .. Len(u) : /\ Free(u[i]) /\ result' = result
                                      /\ Lists(Without(u, i), Append(f, u[i]))'
            \/ Destroy /\ Lists(<<>>, <<>>)'
            \/ (MallocFails \/ UNCHANGED vars) /\ Lists(u, f)'
<1>1. TypeOK /\ AssertsHold /\ Lists(u, f)
  BY DEF IInv
<1>2. ASSUME NEW b \in Blocks, MallocNew(b)
      PROVE  /\ TypeOK' /\ AssertsHold' /\ Lists(Append(u, b), f)'
             /\ f = <<>> /\ b \notin ToSet(u)
  BY <1>1, <1>2, NewStep
<1>3. ASSUME MallocReuse
      PROVE  /\ TypeOK' /\ AssertsHold' /\ f # <<>> /\ result' = f[1]
             /\ Lists(Append(u, f[1]), Without(f, 1))'
  BY <1>1, <1>3, ReuseStep
<1>4. ASSUME NEW b \in Blocks, Free(b)
      PROVE  \E i \in 1 .. Len(u) :
               /\ TypeOK' /\ AssertsHold' /\ Free(u[i]) /\ result' = result
               /\ Lists(Without(u, i), Append(f, u[i]))'
  <2>1. DOMAIN u = 1 .. Len(u)
    BY <1>1, ListFacts
  <2>2. PICK i \in 1 .. Len(u) : b = u[i]
    BY <1>4, <2>1 DEF Free, ToSet
  <2>3. Free(u[i])
    BY <1>4, <2>2
  <2> QED
    BY <1>1, <2>3, FreeStep
<1>5. ASSUME Destroy PROVE TypeOK' /\ AssertsHold' /\ Lists(<<>>, <<>>)'
  BY <1>1, <1>5, DestroyStep
<1>6. ASSUME MallocFails \/ UNCHANGED vars PROVE TypeOK' /\ AssertsHold' /\ Lists(u, f)'
  BY <1>1, <1>6, SameStep
<1> QED
  BY <1>2, <1>3, <1>4, <1>5, <1>6 DEF Next

LEMMA InvStep == IInv /\ [Next]_vars => IInv'
<1> SUFFICES ASSUME IInv, [Next]_vars PROVE IInv'
  OBVIOUS
<1>1. PICK u, f : u = UsedList /\ f = FreeList
  OBVIOUS
<1>2. TypeOK' /\ AssertsHold' /\ \E v, g : Lists(v, g)'
  BY <1>1, Steps
<1>3. PICK v, g : Lists(v, g)'
  BY <1>2
<1>4. UsedList' = v /\ FreeList' = g
  BY <1>2, <1>3, TheListsAfter
<1> QED
  BY <1>2, <1>3, <1>4 DEF IInv

LEMMA Invariance == Spec => []IInv
BY InvInit, InvStep, PTL DEF Spec
-----------------------------------------------------------------------------
(***************************************************************************)
(* Every pointer of the pool, free_last included, points to a block that   *)
(* the heap has given.                                                     *)
(***************************************************************************)
THEOREM TypeCorrect == Spec => []TypeOK
<1>1. IInv => TypeOK
  BY DEF IInv
<1> QED
  BY <1>1, Invariance, PTL

(***************************************************************************)
(* No pj_assert of the two functions ever fails (packets_list.c:78, 98,    *)
(* 105, 115).                                                              *)
(***************************************************************************)
THEOREM NoAssertFails == Spec => []AssertsHold
<1>1. IInv => AssertsHold
  BY DEF IInv
<1> QED
  BY <1>1, Invariance, PTL

(***************************************************************************)
(* Every block the heap has given is on exactly one of the lists, once.    *)
(***************************************************************************)
THEOREM AllOnOneList == Spec => []NothingLeaks
<1>1. ASSUME IInv PROVE NothingLeaks
  <2> DEFINE u == UsedList
             f == FreeList
  <2>1. Lists(u, f) /\ TypeOK
    BY <1>1 DEF IInv
  <2>2. /\ u \in Seq(Blocks) /\ f \in Seq(Blocks)
        /\ \A j, k \in 1 .. Len(u) : u[j] = u[k] => j = k
        /\ \A j, k \in 1 .. Len(f) : f[j] = f[k] => j = k
    BY <2>1, ListFacts
  <2>3. /\ \A j \in 1 .. Len(u), k \in 1 .. Len(f) : u[j] # f[k]
        /\ heap = ToSet(u) \cup ToSet(f)
    BY <2>1 DEF Lists
  <2> HIDE DEF u, f
  <2>4. /\ DOMAIN (u \o f) = 1 .. Len(u) + Len(f)
        /\ \A j, k \in 1 .. Len(u) + Len(f) : (u \o f)[j] = (u \o f)[k] => j = k
        /\ ToSet(u \o f) = ToSet(u) \cup ToSet(f)
    BY <2>2, <2>3, InOneRow
  <2>5. IsInjective(u \o f)
    BY <2>4 DEF IsInjective
  <2> QED
    BY <2>3, <2>4, <2>5 DEF NothingLeaks, u, f
<1> QED
  BY <1>1, Invariance, PTL

(***************************************************************************)
(* used_last and the prev pointers of the used list are what unlinking a   *)
(* block needs them to be.                                                 *)
(***************************************************************************)
THEOREM BothWays == Spec => []Linked
<1>1. ASSUME IInv PROVE Linked
  <2>1. Lists(UsedList, FreeList) /\ TypeOK
    BY <1>1 DEF IInv
  <2>2. DOMAIN UsedList = 1 .. Len(UsedList)
    BY <2>1, ListFacts
  <2> QED
    BY <2>1, <2>2 DEF Lists, LastOf, BackLinks, Linked, Last
<1> QED
  BY <1>1, Invariance, PTL
-----------------------------------------------------------------------------
(***************************************************************************)
(* The list implements the pool: a block that was given back is handed out *)
(* again, oldest first, before a new one is made, and none is in the hands *)
(* of two users.                                                           *)
(***************************************************************************)
THEOREM Implements == Spec => PoolSpec
<1>1. Init => Pool!Init
  <2> SUFFICES ASSUME Init PROVE Pool!Init
    OBVIOUS
  <2>1. UsedList = <<>> /\ FreeList = <<>>
    BY InvInit, TheLists DEF IInv
  <2> QED
    BY <2>1 DEF Init, Pool!Init, ToSet
<1>2. IInv /\ [Next]_vars => [Pool!Next]_(Pool!vars)
  <2> SUFFICES ASSUME IInv, [Next]_vars PROVE [Pool!Next]_(Pool!vars)
    OBVIOUS
  <2>1. PICK u, f : u = UsedList /\ f = FreeList
    OBVIOUS
  <2>2. TypeOK'
    BY <2>1, Steps
  <2>3. /\ u \in Seq(Blocks) /\ f \in Seq(Blocks) /\ DOMAIN u = 1 .. Len(u)
        /\ \A k \in 1 .. Len(u) : u[k] \in Blocks
        /\ \A k \in 1 .. Len(f) : f[k] \in Blocks
        /\ \A j, k \in 1 .. Len(u) : u[j] = u[k] => j = k
    BY <2>1, ListFacts DEF IInv
  <2>4. CASE \E b \in Blocks : MallocNew(b) /\ f = <<>> /\ b \notin ToSet(u)
                             /\ Lists(Append(u, b), f)'
    <3>1. PICK b \in Blocks : MallocNew(b) /\ f = <<>> /\ b \notin ToSet(u)
                            /\ Lists(Append(u, b), f)'
      BY <2>4
    <3>2. UsedList' = Append(u, b) /\ FreeList' = f
      BY <2>2, <3>1, TheListsAfter
    <3>3. ToSet(Append(u, b)) = ToSet(u) \cup {b}
      BY <2>3, SetOfAppend
    <3>4. result' = b
      BY <3>1 DEF MallocNew
    <3>5. Pool!New(b)
      BY <2>1, <3>1, <3>2, <3>3, <3>4 DEF Pool!New
    <3> QED
      BY <3>5 DEF Pool!Next
  <2>5. CASE /\ MallocReuse /\ f # <<>> /\ result' = f[1]
             /\ Lists(Append(u, f[1]), Without(f, 1))'
    <3>1. UsedList' = Append(u, f[1]) /\ FreeList' = Without(f, 1)
      BY <2>2, <2>5, TheListsAfter
    <3>2. f[1] \in Blocks /\ Head(f) = f[1]
      BY <2>3, <2>5
    <3>3. ToSet(Append(u, f[1])) = ToSet(u) \cup {f[1]}
      BY <2>3, <3>2, SetOfAppend
    <3>4. Without(f, 1) = Tail(f)
      BY <2>3, <2>5, WithoutFirst
    <3>5. Pool!Reuse
      BY <2>1, <2>5, <3>1, <3>2, <3>3, <3>4 DEF Pool!Reuse
    <3> QED
      BY <3>5 DEF Pool!Next
  <2>6. CASE \E i \in 1 .. Len(u) : /\ Free(u[i]) /\ result' = result
                                    /\ Lists(Without(u, i), Append(f, u[i]))'
    <3>1. PICK i \in 1 .. Len(u) : /\ Free(u[i]) /\ result' = result
                                   /\ Lists(Without(u, i), Append(f, u[i]))'
      BY <2>6
    <3>2. UsedList' = Without(u, i) /\ FreeList' = Append(f, u[i])
      BY <2>2, <3>1, TheListsAfter
    <3>3. ToSet(Without(u, i)) = ToSet(u) \ {u[i]}
      BY <2>3, SetOfWithout
    <3>4. u[i] \in ToSet(u)
      BY <2>3 DEF ToSet
    <3>5. Pool!GiveBack(u[i])
      BY <2>1, <3>1, <3>2, <3>3, <3>4 DEF Pool!GiveBack
    <3> QED
      BY <2>3, <3>5 DEF Pool!Next
  <2>7. CASE Destroy /\ Lists(<<>>, <<>>)'
    <3>1. UsedList' = <<>> /\ FreeList' = <<>>
      BY <2>2, <2>7, TheListsAfter
    <3>2. Pool!Destroy
      BY <2>7, <3>1 DEF Destroy, Pool!Destroy, ToSet
    <3> QED
      BY <3>2 DEF Pool!Next
  <2>8. CASE (MallocFails \/ UNCHANGED vars) /\ Lists(u, f)'
    <3>1. UsedList' = u /\ FreeList' = f
      BY <2>2, <2>8, TheListsAfter
    <3>2. CASE MallocFails
      <4>1. f = <<>> /\ result' = NoBlock
        BY <2>1, <3>2, ListFacts DEF MallocFails, IInv
      <4>2. Pool!OutOfMemory
        BY <2>1, <3>1, <4>1 DEF Pool!OutOfMemory
      <4> QED
        BY <4>2 DEF Pool!Next
    <3>3. CASE UNCHANGED vars
      BY <2>1, <3>1, <3>3 DEF vars, Pool!vars
    <3> QED
      BY <2>8, <3>2, <3>3
  <2> QED
    BY <2>1, <2>4, <2>5, <2>6, <2>7, <2>8, Steps
<1> QED
  BY <1>1, <1>2, Invariance, PTL DEF Spec, PoolSpec, Pool!Spec
=============================================================================
