-------------------------- MODULE LinkedListTheorems --------------------------
(***************************************************************************)
(* Induction over sets of numbers, and what Chain is.                      *)
(***************************************************************************)
EXTENDS LinkedLists, SequencesExt, FiniteSetTheorems, SequenceTheorems, TLAPS

(* A set of natural numbers that is not empty has a smallest element. *)
LEMMA Smallest ==
  ASSUME NEW T \in SUBSET Nat, T # {}
  PROVE  \E x \in T : \A y \in T : x <= y
<1> DEFINE R == {ss \in Nat \X Nat : ss[1] < ss[2]}
<1>1. IsWellFoundedOn(R, Nat)
  BY NatLessThanWellFounded DEF OpToRel
<1> HIDE DEF R
<1>2. PICK x \in T : \A y \in T : ~ (<<y, x>> \in R)
  BY <1>1, WFMin
<1>3. \A y \in T : ~ (y < x)
  BY <1>2 DEF R
<1> QED
  BY <1>3

(* Induction: the hypotheses name a set, not a formula, so that a prover   *)
(* of first-order logic can use them.                                      *)
LEMMA SetInduction ==
  ASSUME NEW S, 0 \in S, \A n \in Nat : n \in S => n + 1 \in S
  PROVE  Nat \subseteq S
<1> SUFFICES ASSUME Nat \ S # {} PROVE FALSE
  OBVIOUS
<1>1. PICK x \in Nat \ S : \A y \in Nat \ S : x <= y
  BY Smallest
<1>2. x # 0 /\ x - 1 \in Nat
  OBVIOUS
<1>3. x - 1 \in S
  BY <1>1, <1>2
<1> QED
  BY <1>1, <1>2, <1>3
-----------------------------------------------------------------------------
(* The sequences that begin at x and go on by f for n steps. *)
Begins(g, n, S, f, x) ==
  /\ g \in [0 .. n -> S]
  /\ g[0] = x
  /\ \A i \in 0 .. n - 1 : g[i+1] = f[g[i]]

LEMMA BeginsExists ==
  ASSUME NEW S, NEW f \in [S -> S], NEW x \in S
  PROVE  \A n \in Nat : \E g : Begins(g, n, S, f, x)
<1> DEFINE I == {n \in Nat : \E g : Begins(g, n, S, f, x)}
<1>1. 0 \in I
  <2> DEFINE h == [i \in 0 .. 0 |-> x]
  <2>1. Begins(h, 0, S, f, x)
    BY DEF Begins
  <2> QED
    BY <2>1
<1>2. ASSUME NEW n \in Nat, n \in I PROVE n + 1 \in I
  <2>1. PICK g : Begins(g, n, S, f, x)
    BY <1>2
  <2> DEFINE h == [i \in 0 .. n + 1 |-> IF i <= n THEN g[i] ELSE f[g[n]]]
  <2>2. g[n] \in S /\ f[g[n]] \in S
    BY <2>1 DEF Begins
  <2>3. h \in [0 .. n + 1 -> S]
    BY <2>1, <2>2 DEF Begins
  <2>4. h[0] = x
    BY <2>1 DEF Begins
  <2>5. ASSUME NEW i \in 0 .. n PROVE h[i+1] = f[h[i]]
    BY <2>1 DEF Begins
  <2>6. Begins(h, n + 1, S, f, x)
    <3> HIDE DEF h
    <3> QED BY <2>3, <2>4, <2>5 DEF Begins
  <2> QED
    BY <2>6
<1>3. Nat \subseteq I
  <2> HIDE DEF I
  <2> QED BY <1>1, <1>2, SetInduction
<1> QED
  BY <1>3

LEMMA BeginsUnique ==
  ASSUME NEW S, NEW f \in [S -> S], NEW x \in S,
         NEW m \in Nat, NEW n \in Nat, NEW g, NEW h,
         Begins(g, m, S, f, x), Begins(h, n, S, f, x)
  PROVE  \A i \in Nat : i <= m /\ i <= n => g[i] = h[i]
<1> DEFINE I == {i \in Nat : i <= m /\ i <= n => g[i] = h[i]}
<1>1. 0 \in I
  BY DEF Begins
<1>2. ASSUME NEW i \in Nat, i \in I PROVE i + 1 \in I
  BY <1>2 DEF Begins
<1>3. Nat \subseteq I
  <2> HIDE DEF I
  <2> QED BY <1>1, <1>2, SetInduction
<1> QED
  BY <1>3

(* at is x, f[x], f[f[x]], ... *)
Iterates(at, S, f, x) ==
  /\ at \in [Nat -> S]
  /\ at[0] = x
  /\ \A n \in Nat : at[n+1] = f[at[n]]

(* What the recursive function of Iterate computes. *)
LEMMA IterateIs ==
  ASSUME NEW S, NEW f \in [S -> S], NEW x \in S
  PROVE  Iterates(Iterate(f, x), S, f, x)
<1> DEFINE G(n) == CHOOSE g : Begins(g, n, S, f, x)
           a == [n \in Nat |-> G(n)[n]]
<1>1. \A n \in Nat : Begins(G(n), n, S, f, x)
  BY BeginsExists
<1> HIDE DEF G
<1>2. a \in [Nat -> S]
  BY <1>1 DEF Begins
<1>3. a[0] = x
  BY <1>1 DEF Begins
<1>4. ASSUME NEW n \in Nat PROVE a[n+1] = f[a[n]]
  <2>1. Begins(G(n), n, S, f, x) /\ Begins(G(n+1), n+1, S, f, x)
    BY <1>1
  <2>2. G(n)[n] = G(n+1)[n]
    BY <2>1, BeginsUnique
  <2>3. G(n+1)[n+1] = f[G(n+1)[n]]
    BY <2>1 DEF Begins
  <2> QED
    BY <2>2, <2>3
<1>5. a = [n \in Nat |-> IF n = 0 THEN x ELSE f[a[n-1]]]
  <2> DEFINE b == [n \in Nat |-> IF n = 0 THEN x ELSE f[a[n-1]]]
  <2>1. ASSUME NEW n \in Nat PROVE a[n] = b[n]
    <3>1. CASE n = 0
      BY <1>3, <3>1
    <3>2. CASE n # 0
      <4> HIDE DEF a
      <4>1. n - 1 \in Nat /\ n = (n - 1) + 1
        BY <3>2
      <4>2. a[(n - 1) + 1] = f[a[n - 1]]
        BY <1>4, <4>1
      <4>3. b[n] = f[a[n - 1]]
        BY <3>2
      <4> QED
        BY <4>1, <4>2, <4>3
    <3> QED
      BY <3>1, <3>2
  <2> QED
    BY <2>1
<1> HIDE DEF a
<1>6. \E at : at = [n \in Nat |-> IF n = 0 THEN x ELSE f[at[n-1]]]
  BY <1>5
<1>7. Iterate(f, x) = [n \in Nat |-> IF n = 0 THEN x ELSE f[Iterate(f, x)[n-1]]]
  BY <1>6 DEF Iterate
<1> DEFINE it == Iterate(f, x)
<1>8. it = [n \in Nat |-> IF n = 0 THEN x ELSE f[it[n-1]]]
  BY <1>7
<1> HIDE DEF it
<1>9. it[0] = x /\ \A n \in Nat : it[n+1] = f[it[n]]
  BY <1>8
<1>10. \A n \in Nat : it[n] \in S
  <2> DEFINE I == {n \in Nat : it[n] \in S}
  <2>1. 0 \in I
    BY <1>9
  <2>2. ASSUME NEW n \in Nat, n \in I PROVE n + 1 \in I
    BY <1>9, <2>2
  <2>3. Nat \subseteq I
    <3> HIDE DEF I
    <3> QED BY <2>1, <2>2, SetInduction
  <2> QED
    BY <2>3
<1>11. it \in [Nat -> S]
  BY <1>8, <1>10
<1> QED
  BY <1>9, <1>11 DEF it, Iterates
-----------------------------------------------------------------------------
(* A list that ends has no more nodes than there are. *)
LEMMA ChainLength ==
  ASSUME NEW S, IsFiniteSet(S), NEW s \in Seq(S),
         \A j, k \in 1 .. Len(s) : s[j] = s[k] => j = k
  PROVE  Len(s) <= Cardinality(S)
<1>1. s \in Injection(1 .. Len(s), S)
  BY DEF Injection, IsInjective
<1>2. Cardinality(1 .. Len(s)) = Len(s)
  BY FS_Interval
<1> QED
  BY <1>1, <1>2, FS_Injection

(***************************************************************************)
(* The list from head on is what Chain makes of it.                        *)
(***************************************************************************)
LEMMA ChainIs ==
  ASSUME NEW S, IsFiniteSet(S), NEW null, null \notin S,
         NEW next \in [S -> S \cup {null}], NEW head, NEW s,
         IsChain(s, next, head, null)
  PROVE  Chain(next, head, null) = s
<1> DEFINE T  == S \cup {null}
           f  == NextOf(next, null)
           at == Iterate(f, head)
           L  == Len(s)
<1>1. /\ s \in Seq(S) /\ L \in Nat
      /\ head = IF s = <<>> THEN null ELSE s[1]
      /\ \A k \in 1 .. L : next[s[k]] = IF k = L THEN null ELSE s[k+1]
  BY DEF IsChain
<1>2. f \in [T -> T] /\ f[null] = null /\ \A n \in S : f[n] = next[n]
  BY DEF NextOf
<1>3. head \in T
  BY <1>1
<1>4. /\ at \in [Nat -> T]
      /\ at[0] = head
      /\ \A n \in Nat : at[n+1] = f[at[n]]
  <2> HIDE DEF f, T
  <2>1. f \in [T -> T]
    BY <1>2
  <2>2. Iterates(at, T, f, head)
    BY <1>3, <2>1, IterateIs
  <2> QED
    BY <2>2 DEF Iterates
<1> HIDE DEF at, f
<1> DEFINE Good(n) == at[n] = IF n < L THEN s[n+1] ELSE null
           I == {n \in Nat : Good(n)}
<1>5. 0 \in I
  BY <1>1, <1>4
<1>6. ASSUME NEW n \in Nat, n \in I PROVE n + 1 \in I
  <2>1. at[n] = IF n < L THEN s[n+1] ELSE null
    BY <1>6
  <2>2. at[n+1] = f[at[n]]
    BY <1>4
  <2>3. CASE n < L
    <3>1. n + 1 \in 1 .. L /\ s[n+1] \in S
      BY <1>1, <2>3
    <3>2. at[n+1] = next[s[n+1]]
      BY <1>2, <2>1, <2>2, <2>3, <3>1
    <3>3. next[s[n+1]] = IF n + 1 = L THEN null ELSE s[n+1+1]
      BY <1>1, <3>1
    <3> QED
      BY <1>1, <2>3, <3>2, <3>3
  <2>4. CASE ~ (n < L)
    <3>1. at[n+1] = null
      BY <1>2, <2>1, <2>2, <2>4
    <3>2. ~ (n + 1 < L)
      BY <1>1, <2>4
    <3> QED
      BY <3>1, <3>2
  <2> QED
    BY <2>3, <2>4
<1>7. \A n \in Nat : Good(n)
  <2>1. Nat \subseteq I
    <3> HIDE DEF I
    <3> QED BY <1>5, <1>6, SetInduction
  <2> QED
    BY <2>1
<1>8. L <= Cardinality(S) /\ Cardinality(S) \in Nat
  BY <1>1, ChainLength, FS_CardinalityType DEF IsChain
<1> DEFINE places == {n \in 0 .. Cardinality(S) : at[n] # null}
<1>9. places = 0 .. L - 1
  BY <1>1, <1>7, <1>8
<1>10. Cardinality(places) = L
  <2>1. Cardinality(0 .. L - 1) = L
    <3> HIDE DEF L
    <3> QED BY <1>1, FS_Interval
  <2> QED
    BY <1>9, <2>1
<1>11. Chain(next, head, null) = [k \in 1 .. Cardinality(places) |-> at[k-1]]
  BY DEF Chain, at, f
<1>12. \A k \in 1 .. L : at[k-1] = s[k]
  BY <1>1, <1>7
<1>13. Chain(next, head, null) = [k \in 1 .. L |-> s[k]]
  BY <1>10, <1>11, <1>12
<1> QED
  BY <1>1, <1>13
-----------------------------------------------------------------------------
(***************************************************************************)
(* How lists change.  nx is next after the change.                         *)
(***************************************************************************)
LEMMA ChainType ==
  ASSUME NEW S, NEW null, NEW next \in [S -> S \cup {null}], NEW head, NEW s,
         IsChain(s, next, head, null)
  PROVE  /\ s \in Seq(S) /\ Len(s) \in Nat /\ DOMAIN s = 1 .. Len(s)
         /\ \A k \in 1 .. Len(s) : s[k] \in S
BY DEF IsChain

(* Nodes that are not on the list change. *)
LEMMA ChainKept ==
  ASSUME NEW S, NEW null, NEW head, NEW s,
         NEW next \in [S -> S \cup {null}], NEW nx \in [S -> S \cup {null}],
         IsChain(s, next, head, null),
         \A k \in 1 .. Len(s) : nx[s[k]] = next[s[k]]
  PROVE  IsChain(s, nx, head, null)
BY DEF IsChain

LEMMA EmptyChain ==
  ASSUME NEW null, NEW next
  PROVE  IsChain(<<>>, next, null, null)
BY DEF IsChain

(* A node is put at the end. *)
LEMMA ChainAppend ==
  ASSUME NEW S, NEW null, NEW head, NEW s, NEW b \in S,
         NEW next \in [S -> S \cup {null}], NEW nx \in [S -> S \cup {null}],
         IsChain(s, next, head, null),
         \A k \in 1 .. Len(s) : s[k] # b,
         nx[b] = null,
         \A k \in 1 .. Len(s) : nx[s[k]] = IF k = Len(s) THEN b ELSE next[s[k]]
  PROVE  IsChain(Append(s, b), nx, IF s = <<>> THEN b ELSE head, null)
<1> DEFINE t == Append(s, b)
           L == Len(s)
<1>1. /\ s \in Seq(S) /\ L \in Nat
      /\ head = IF s = <<>> THEN null ELSE s[1]
      /\ \A k \in 1 .. L : next[s[k]] = IF k = L THEN null ELSE s[k+1]
      /\ \A j, k \in 1 .. L : s[j] = s[k] => j = k
  BY DEF IsChain
<1>2. /\ t \in Seq(S) /\ Len(t) = L + 1 /\ t # <<>>
      /\ \A k \in 1 .. L : t[k] = s[k]
      /\ t[L+1] = b
  BY <1>1, AppendProperties
<1> HIDE DEF t
<1>3. (IF s = <<>> THEN b ELSE head) = t[1]
  BY <1>1, <1>2
<1>4. ASSUME NEW k \in 1 .. L + 1
      PROVE  nx[t[k]] = IF k = L + 1 THEN null ELSE t[k+1]
  <2>1. CASE k = L + 1
    BY <1>2, <2>1
  <2>2. CASE k # L + 1
    <3>1. k \in 1 .. L
      BY <1>1, <2>2
    <3> QED
      BY <1>1, <1>2, <3>1
  <2> QED
    BY <2>1, <2>2
<1>5. \A j, k \in 1 .. L + 1 : t[j] = t[k] => j = k
  <2> SUFFICES ASSUME NEW j \in 1 .. L + 1, NEW k \in 1 .. L + 1, t[j] = t[k]
               PROVE  j = k
    OBVIOUS
  <2>1. (j \in 1 .. L \/ j = L + 1) /\ (k \in 1 .. L \/ k = L + 1)
    BY <1>1
  <2>2. CASE j = L + 1 \/ k = L + 1
    BY <1>1, <1>2, <2>1, <2>2
  <2>3. CASE j \in 1 .. L /\ k \in 1 .. L
    BY <1>1, <1>2, <2>3
  <2> QED
    BY <2>1, <2>2, <2>3
<1>6. IsChain(t, nx, IF s = <<>> THEN b ELSE head, null)
  BY <1>2, <1>3, <1>4, <1>5 DEF IsChain
<1> QED
  BY <1>6 DEF t

(* The two assignments with which the code puts a node at the end; m is    *)
(* next, or what unlinking b from another list has made of it.             *)
PutLast(m, s, last, b, null) ==
  IF s = <<>> THEN [m EXCEPT ![b] = null]
              ELSE [m EXCEPT ![b] = null, ![last] = b]

LEMMA ChainPutLast ==
  ASSUME NEW S, NEW null, null \notin S, NEW head, NEW s, NEW b \in S, NEW last,
         NEW next \in [S -> S \cup {null}], NEW m \in [S -> S \cup {null}],
         IsChain(s, next, head, null),
         \A k \in 1 .. Len(s) : s[k] # b,
         \A k \in 1 .. Len(s) : m[s[k]] = next[s[k]],
         s # <<>> => last = s[Len(s)]
  PROVE  /\ PutLast(m, s, last, b, null) \in [S -> S \cup {null}]
         /\ PutLast(m, s, last, b, null)[b] = null
         /\ \A x \in S : x # b /\ (s # <<>> => x # last) =>
                         PutLast(m, s, last, b, null)[x] = m[x]
         /\ IsChain(Append(s, b), PutLast(m, s, last, b, null),
                    IF s = <<>> THEN b ELSE head, null)
<1> DEFINE nx == PutLast(m, s, last, b, null)
<1>1. /\ s \in Seq(S) /\ Len(s) \in Nat
      /\ \A k \in 1 .. Len(s) : s[k] \in S
      /\ \A j, k \in 1 .. Len(s) : s[j] = s[k] => j = k
  BY DEF IsChain
<1>2. s # <<>> => Len(s) \in 1 .. Len(s) /\ last \in S /\ last # b
  BY <1>1
<1>3. nx \in [S -> S \cup {null}]
  BY <1>2 DEF PutLast
<1>4. nx[b] = null
  BY <1>2 DEF PutLast
<1>5. \A x \in S : x # b /\ (s # <<>> => x # last) => nx[x] = m[x]
  BY <1>2 DEF PutLast
<1>6. s # <<>> => nx[last] = b
  BY <1>2 DEF PutLast
<1> HIDE DEF nx
<1>7. ASSUME NEW k \in 1 .. Len(s)
      PROVE  nx[s[k]] = IF k = Len(s) THEN b ELSE next[s[k]]
  <2>1. s # <<>> /\ s[k] \in S /\ s[k] # b
    BY <1>1
  <2>2. CASE k = Len(s)
    BY <1>6, <2>1, <2>2
  <2>3. CASE k # Len(s)
    <3>1. s[k] # last
      BY <1>1, <1>2, <2>1, <2>3
    <3> QED
      BY <1>5, <2>1, <2>3, <3>1
  <2> QED
    BY <2>2, <2>3
<1>8. IsChain(Append(s, b), nx, IF s = <<>> THEN b ELSE head, null)
  BY <1>3, <1>4, <1>7, ChainAppend
<1> QED
  BY <1>3, <1>4, <1>5, <1>8 DEF nx

(* A node is taken out, from anywhere. *)
Without(s, i) == [k \in 1 .. Len(s) - 1 |-> IF k < i THEN s[k] ELSE s[k+1]]

LEMMA WithoutType ==
  ASSUME NEW S, NEW s \in Seq(S), NEW i \in 1 .. Len(s)
  PROVE  /\ Without(s, i) \in Seq(S)
         /\ Len(Without(s, i)) = Len(s) - 1
         /\ \A k \in 1 .. Len(s) - 1 : Without(s, i)[k] = IF k < i THEN s[k] ELSE s[k+1]
BY DEF Without

LEMMA WithoutFirst ==
  ASSUME NEW S, NEW s \in Seq(S), s # <<>>
  PROVE  Without(s, 1) = Tail(s)
<1>1. /\ Tail(s) \in Seq(S) /\ Len(Tail(s)) = Len(s) - 1
      /\ \A k \in 1 .. Len(s) - 1 : Tail(s)[k] = s[k+1]
  BY HeadTailProperties
<1>2. 1 \in 1 .. Len(s)
  BY EmptySeq
<1>3. /\ Without(s, 1) \in Seq(S) /\ Len(Without(s, 1)) = Len(s) - 1
      /\ \A k \in 1 .. Len(s) - 1 : Without(s, 1)[k] = s[k+1]
  BY <1>2, WithoutType
<1> QED
  BY <1>1, <1>3, SeqEqual

LEMMA ChainWithout ==
  ASSUME NEW S, NEW null, NEW head, NEW s, NEW i \in 1 .. Len(s),
         NEW next \in [S -> S \cup {null}], NEW nx \in [S -> S \cup {null}],
         IsChain(s, next, head, null),
         \A k \in 1 .. Len(s) :
           k # i => nx[s[k]] = IF k = i - 1 THEN next[s[i]] ELSE next[s[k]]
  PROVE  IsChain(Without(s, i), nx, IF i = 1 THEN next[head] ELSE head, null)
<1> DEFINE t == Without(s, i)
           L == Len(s)
<1>1. /\ s \in Seq(S) /\ L \in Nat /\ L >= 1 /\ s # <<>>
      /\ head = s[1]
      /\ \A k \in 1 .. L : next[s[k]] = IF k = L THEN null ELSE s[k+1]
      /\ \A j, k \in 1 .. L : s[j] = s[k] => j = k
  BY DEF IsChain
<1>2. /\ t \in Seq(S) /\ Len(t) = L - 1
      /\ \A k \in 1 .. L - 1 : t[k] = IF k < i THEN s[k] ELSE s[k+1]
  BY <1>1, WithoutType
<1> HIDE DEF t
<1>3. (IF i = 1 THEN next[head] ELSE head) = IF t = <<>> THEN null ELSE t[1]
  <2>1. CASE L = 1
    <3>1. t = <<>> /\ i = 1 /\ next[head] = null
      BY <1>1, <1>2, <2>1
    <3> QED
      BY <3>1
  <2>2. CASE L # 1
    <3>1. t # <<>> /\ 1 \in 1 .. L - 1 /\ next[head] = s[2] /\ (i # 1 => 1 < i)
      BY <1>1, <1>2, <2>2
    <3>2. t[1] = IF 1 < i THEN s[1] ELSE s[2]
      BY <1>1, <1>2, <3>1
    <3> QED
      BY <1>1, <3>1, <3>2
  <2> QED
    BY <2>1, <2>2
<1>4. ASSUME NEW k \in 1 .. L - 1
      PROVE  nx[t[k]] = IF k = L - 1 THEN null ELSE t[k+1]
  <2>1. k \in 1 .. L /\ k + 1 \in 1 .. L
    BY <1>1
  <2>2. CASE k < i - 1
    <3>1. t[k] = s[k] /\ nx[s[k]] = s[k+1] /\ k # L - 1
      BY <1>1, <1>2, <2>1, <2>2
    <3>2. k + 1 \in 1 .. L - 1 /\ t[k+1] = s[k+1]
      BY <1>1, <1>2, <2>1, <2>2
    <3> QED
      BY <3>1, <3>2
  <2>3. CASE k = i - 1
    <3>0. k # i /\ k < i
      BY <2>3
    <3>1. t[k] = s[k] /\ nx[s[k]] = next[s[i]]
      BY <1>2, <2>1, <2>3, <3>0
    <3>2. next[s[i]] = IF i = L THEN null ELSE s[i+1]
      BY <1>1
    <3>3. i # L => t[k+1] = s[i+1]
      BY <1>1, <1>2, <2>1, <2>3
    <3> QED
      BY <1>1, <2>3, <3>1, <3>2, <3>3
  <2>4. CASE k >= i
    <3>1. t[k] = s[k+1] /\ nx[s[k+1]] = next[s[k+1]]
      BY <1>1, <1>2, <2>1, <2>4
    <3>2. next[s[k+1]] = IF k + 1 = L THEN null ELSE s[k+1+1]
      BY <1>1, <2>1
    <3>3. k # L - 1 => k + 1 \in 1 .. L - 1 /\ t[k+1] = s[k+1+1]
      BY <1>1, <1>2, <2>1, <2>4
    <3> QED
      BY <1>1, <3>1, <3>2, <3>3
  <2> QED
    BY <1>1, <2>2, <2>3, <2>4
<1>5. \A j, k \in 1 .. L - 1 : t[j] = t[k] => j = k
  <2> SUFFICES ASSUME NEW j \in 1 .. L - 1, NEW k \in 1 .. L - 1, t[j] = t[k]
               PROVE  j = k
    OBVIOUS
  <2> DEFINE at(m) == IF m < i THEN m ELSE m + 1
  <2>1. at(j) \in 1 .. L /\ at(k) \in 1 .. L /\ t[j] = s[at(j)] /\ t[k] = s[at(k)]
    BY <1>1, <1>2
  <2>2. at(j) = at(k)
    <3> HIDE DEF at
    <3> QED BY <1>1, <2>1
  <2> QED
    BY <2>2
<1>6. IsChain(t, nx, IF i = 1 THEN next[head] ELSE head, null)
  BY <1>2, <1>3, <1>4, <1>5 DEF IsChain
<1> QED
  BY <1>6 DEF t
-----------------------------------------------------------------------------
(* The nodes of a list that has changed. *)
LEMMA SetOfAppend ==
  ASSUME NEW S, NEW s \in Seq(S), NEW b \in S
  PROVE  ToSet(Append(s, b)) = ToSet(s) \cup {b}
<1>1. /\ Append(s, b) \in Seq(S) /\ Len(Append(s, b)) = Len(s) + 1 /\ Len(s) \in Nat
      /\ \A k \in 1 .. Len(s) : Append(s, b)[k] = s[k]
      /\ Append(s, b)[Len(s)+1] = b
      /\ DOMAIN Append(s, b) = 1 .. Len(s) + 1 /\ DOMAIN s = 1 .. Len(s)
  BY AppendProperties, LenProperties
<1> DEFINE t == Append(s, b)
<1> HIDE DEF t
<1>2. \A k \in 1 .. Len(s) + 1 : k = Len(s) + 1 \/ k \in 1 .. Len(s)
  BY <1>1
<1>3. \A x : x \in ToSet(t) <=> \E k \in 1 .. Len(s) + 1 : x = t[k]
  BY <1>1 DEF ToSet, t
<1>4. \A x : x \in ToSet(s) <=> \E k \in 1 .. Len(s) : x = s[k]
  BY <1>1 DEF ToSet
<1>5. \A k \in 1 .. Len(s) : t[k] = s[k] /\ k \in 1 .. Len(s) + 1
  BY <1>1 DEF t
<1>6. t[Len(s)+1] = b /\ Len(s) + 1 \in 1 .. Len(s) + 1
  BY <1>1 DEF t
<1>7. ToSet(t) = ToSet(s) \cup {b}
  BY <1>2, <1>3, <1>4, <1>5, <1>6
<1> QED
  BY <1>7 DEF t

LEMMA SetOfWithout ==
  ASSUME NEW S, NEW s \in Seq(S), NEW i \in 1 .. Len(s),
         \A j, k \in 1 .. Len(s) : s[j] = s[k] => j = k
  PROVE  ToSet(Without(s, i)) = ToSet(s) \ {s[i]}
<1> DEFINE t == Without(s, i)
<1>1. /\ t \in Seq(S) /\ Len(t) = Len(s) - 1 /\ Len(s) \in Nat
      /\ DOMAIN t = 1 .. Len(s) - 1 /\ DOMAIN s = 1 .. Len(s)
      /\ \A k \in 1 .. Len(s) - 1 : t[k] = IF k < i THEN s[k] ELSE s[k+1]
  BY WithoutType, LenProperties
<1> HIDE DEF t
<1>2. ASSUME NEW k \in 1 .. Len(s) - 1
      PROVE  \E j \in 1 .. Len(s) : t[k] = s[j] /\ s[j] # s[i]
  <2>1. CASE k < i
    <3>1. k \in 1 .. Len(s) /\ k # i /\ t[k] = s[k]
      BY <1>1, <2>1
    <3> QED
      BY <3>1
  <2>2. CASE ~ (k < i)
    <3>1. k + 1 \in 1 .. Len(s) /\ k + 1 # i /\ t[k] = s[k+1]
      BY <1>1, <2>2
    <3> QED
      BY <3>1
  <2> QED
    BY <2>1, <2>2
<1>3. ASSUME NEW j \in 1 .. Len(s), j # i
      PROVE  \E k \in 1 .. Len(s) - 1 : t[k] = s[j]
  <2>1. CASE j < i
    BY <1>1, <2>1
  <2>2. CASE j > i
    <3>1. j - 1 \in 1 .. Len(s) - 1 /\ ~ (j - 1 < i) /\ (j - 1) + 1 = j
      BY <1>1, <2>2
    <3>2. t[j-1] = s[(j-1)+1]
      BY <1>1, <3>1
    <3> QED
      BY <3>1, <3>2
  <2> QED
    BY <1>3, <2>1, <2>2
<1>4. ToSet(t) = ToSet(s) \ {s[i]}
  <2>1. \A x : x \in ToSet(t) <=> \E k \in 1 .. Len(s) - 1 : x = t[k]
    BY <1>1 DEF ToSet
  <2>2. \A x : x \in ToSet(s) <=> \E j \in 1 .. Len(s) : x = s[j]
    BY <1>1 DEF ToSet
  <2> QED
    <3>1. ASSUME NEW x \in ToSet(t) PROVE x \in ToSet(s) /\ x # s[i]
      BY <1>2, <2>1, <2>2
    <3>2. ASSUME NEW x \in ToSet(s), x # s[i] PROVE x \in ToSet(t)
      BY <1>3, <2>1, <2>2, <3>2
    <3> QED
      BY <3>1, <3>2
<1> QED
  BY <1>4 DEF t

(* Two lists with no node in common, one behind the other. *)
LEMMA InOneRow ==
  ASSUME NEW S, NEW s \in Seq(S), NEW t \in Seq(S),
         \A j, k \in 1 .. Len(s) : s[j] = s[k] => j = k,
         \A j, k \in 1 .. Len(t) : t[j] = t[k] => j = k,
         \A j \in 1 .. Len(s), k \in 1 .. Len(t) : s[j] # t[k]
  PROVE  /\ s \o t \in Seq(S) /\ Len(s \o t) = Len(s) + Len(t)
         /\ DOMAIN (s \o t) = 1 .. Len(s) + Len(t)
         /\ \A j, k \in 1 .. Len(s) + Len(t) : (s \o t)[j] = (s \o t)[k] => j = k
         /\ ToSet(s \o t) = ToSet(s) \cup ToSet(t)
<1> DEFINE a == s \o t
<1>1. /\ Len(s) \in Nat /\ DOMAIN s = 1 .. Len(s)
      /\ Len(t) \in Nat /\ DOMAIN t = 1 .. Len(t)
  BY LenProperties
<1>2. /\ a \in Seq(S) /\ Len(a) = Len(s) + Len(t) /\ DOMAIN a = 1 .. Len(s) + Len(t)
      /\ \A k \in 1 .. Len(s) + Len(t) : a[k] = IF k <= Len(s) THEN s[k] ELSE t[k - Len(s)]
  BY <1>1, ConcatProperties, LenProperties
<1> HIDE DEF a
<1>3. \A k \in 1 .. Len(s) + Len(t) :
        \/ k \in 1 .. Len(s) /\ a[k] = s[k]
        \/ k - Len(s) \in 1 .. Len(t) /\ a[k] = t[k - Len(s)]
  BY <1>1, <1>2
<1>4. ASSUME NEW j \in 1 .. Len(s) + Len(t), NEW k \in 1 .. Len(s) + Len(t), a[j] = a[k]
      PROVE  j = k
  BY <1>1, <1>3, <1>4
<1>5. ToSet(a) = ToSet(s) \cup ToSet(t)
  <2>1. ASSUME NEW x \in ToSet(a) PROVE x \in ToSet(s) \cup ToSet(t)
    <3>1. PICK k \in 1 .. Len(s) + Len(t) : x = a[k]
      BY <1>2 DEF ToSet
    <3>2. CASE k \in 1 .. Len(s) /\ a[k] = s[k]
      BY <1>1, <3>1, <3>2 DEF ToSet
    <3>3. CASE k - Len(s) \in 1 .. Len(t) /\ a[k] = t[k - Len(s)]
      BY <1>1, <3>1, <3>3 DEF ToSet
    <3> QED
      BY <1>3, <3>1, <3>2, <3>3
  <2>2. ASSUME NEW x \in ToSet(s) PROVE x \in ToSet(a)
    <3>1. PICK k \in 1 .. Len(s) : x = s[k]
      BY <1>1 DEF ToSet
    <3>2. k \in 1 .. Len(s) + Len(t) /\ a[k] = s[k]
      BY <1>1, <1>2
    <3> QED
      BY <1>2, <3>1, <3>2 DEF ToSet
  <2>3. ASSUME NEW x \in ToSet(t) PROVE x \in ToSet(a)
    <3>1. PICK k \in 1 .. Len(t) : x = t[k]
      BY <1>1 DEF ToSet
    <3>2. /\ k + Len(s) \in 1 .. Len(s) + Len(t) /\ ~ (k + Len(s) <= Len(s))
          /\ (k + Len(s)) - Len(s) = k
      BY <1>1
    <3>3. a[k + Len(s)] = t[k]
      BY <1>2, <3>2
    <3> QED
      BY <1>2, <3>1, <3>2, <3>3 DEF ToSet
  <2> QED
    BY <2>1, <2>2, <2>3
<1> QED
  BY <1>2, <1>4, <1>5 DEF a
-----------------------------------------------------------------------------
(* The first k elements of s. *)
UpTo(s, k) == [i \in 1 .. k |-> s[i]]

(* Nothing is left out of a sequence whose elements are all in S. *)
LEMMA OnlyAll ==
  ASSUME NEW T, NEW s \in Seq(T), NEW S, \A k \in 1 .. Len(s) : s[k] \in S
  PROVE  Only(s, S) = s
<1> DEFINE L == Len(s)
           Kept(kept, k) == IF k = 0 THEN <<>>
                            ELSE IF s[k] \in S THEN Append(kept[k-1], s[k]) ELSE kept[k-1]
           w  == [k \in 0 .. L |-> UpTo(s, k)]
           kp == CHOOSE kept : kept = [k \in 0 .. L |-> Kept(kept, k)]
<1>1. L \in Nat /\ \A k \in 1 .. L : s[k] \in T
  BY LenProperties
<1>2. ASSUME NEW k \in 1 .. L PROVE UpTo(s, k) = Append(UpTo(s, k - 1), s[k])
  <2>1. k \in Nat /\ k - 1 \in Nat /\ (k - 1) + 1 = k
    BY <1>1
  <2>2. \A i \in 1 .. k : i \in 1 .. L
    BY <1>1
  <2>3. UpTo(s, k) \in Seq(T) /\ Len(UpTo(s, k)) = k
    BY <1>1, <2>1, <2>2 DEF UpTo
  <2>4. UpTo(s, k - 1) \in Seq(T) /\ Len(UpTo(s, k - 1)) = k - 1
    BY <1>1, <2>1, <2>2 DEF UpTo
  <2> DEFINE a == Append(UpTo(s, k - 1), s[k])
  <2>5. /\ a \in Seq(T) /\ Len(a) = k /\ a[k] = s[k]
        /\ \A i \in 1 .. k - 1 : a[i] = UpTo(s, k - 1)[i]
    <3>1. s[k] \in T
      BY <1>1
    <3> QED
      BY <2>1, <2>4, <3>1, AppendProperties
  <2> HIDE DEF a
  <2>6. \A i \in 1 .. k : a[i] = UpTo(s, k)[i]
    BY <2>1, <2>5 DEF UpTo
  <2>7. a = UpTo(s, k)
    BY <2>3, <2>5, <2>6, SeqEqual
  <2> QED
    BY <2>7 DEF a
<1>3. UpTo(s, 0) = <<>>
  BY DEF UpTo
<1>4. w = [k \in 0 .. L |-> Kept(w, k)]
  <2>1. ASSUME NEW k \in 0 .. L PROVE UpTo(s, k) = Kept(w, k)
    <3>1. CASE k = 0
      BY <1>3, <3>1
    <3>2. CASE k # 0
      <4>1. k \in 1 .. L /\ k - 1 \in 0 .. L
        BY <1>1, <3>2
      <4> QED
        BY <1>2, <3>2, <4>1
    <3> QED
      BY <3>1, <3>2
  <2> QED
    BY <2>1
<1>5. kp = [k \in 0 .. L |-> Kept(kp, k)]
  <2> HIDE DEF w
  <2>1. \E kept : kept = [k \in 0 .. L |-> Kept(kept, k)]
    BY <1>4
  <2> QED
    BY <2>1
<1> HIDE DEF kp
<1> DEFINE I == {k \in Nat : k <= L => kp[k] = UpTo(s, k)}
<1>6. 0 \in I
  BY <1>1, <1>3, <1>5
<1>7. ASSUME NEW k \in Nat, k \in I PROVE k + 1 \in I
  <2> SUFFICES ASSUME k + 1 <= L PROVE kp[k+1] = UpTo(s, k + 1)
    OBVIOUS
  <2>1. kp[k] = UpTo(s, k) /\ k + 1 \in 1 .. L /\ k + 1 \in 0 .. L /\ (k + 1) - 1 = k
    BY <1>1, <1>7
  <2>2. kp[k+1] = Append(kp[k], s[k+1])
    BY <1>5, <2>1
  <2>3. UpTo(s, k + 1) = Append(UpTo(s, k), s[k+1])
    BY <1>2, <2>1
  <2> QED
    BY <2>1, <2>2, <2>3
<1>8. Nat \subseteq I
  <2> HIDE DEF I
  <2> QED BY <1>6, <1>7, SetInduction
<1>9. kp[L] = UpTo(s, L)
  BY <1>1, <1>8
<1>10. UpTo(s, L) = s
  BY DEF UpTo
<1>11. Only(s, S) = kp[L]
  BY DEF Only, kp
<1> QED
  BY <1>9, <1>10, <1>11
=============================================================================
