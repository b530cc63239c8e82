------------------------- MODULE ReceiveThreadProofs -------------------------
(***************************************************************************)
(* Theorems about ReceiveThread, for any number of users, datagrams and    *)
(* attachments.                                                            *)
(***************************************************************************)
EXTENDS ReceiveThread, FiniteSetTheorems, SequenceTheorems, TLAPS

Datagrams == [number : Nat, valid : BOOLEAN]

LastHanded == IF handed = <<>> THEN 0 ELSE handed[Len(handed)]

Repeats == {k \in DOMAIN handed : Previous(k) = handed[k]}

Types ==
  /\ inbox \in Seq(Datagrams)
  /\ handed \in Seq(Nat)
  /\ {arrived, rtp_pkt, failures, stale} \subseteq Nat

(* The socket holds newer datagrams than the buffer, in order. *)
InboxOrder ==
  /\ rtp_pkt <= arrived
  /\ \A k \in 1 .. Len(inbox) : rtp_pkt < inbox[k].number /\ inbox[k].number <= arrived
  /\ \A j, k \in 1 .. Len(inbox) : j < k => inbox[j].number < inbox[k].number

(* The thread reads from a socket that it has found readable. *)
SomethingToRead == pc = "recvfrom" => inbox # <<>>

HandedOrder ==
  /\ LastHanded <= rtp_pkt
  /\ \A k \in 1 .. Len(handed) : Previous(k) <= handed[k]

(* Each repetition has a failure of its own, also the one that the thread  *)
(* is about to cause.                                                      *)
RepeatsPaid ==
  /\ IsFiniteSet(Repeats)
  /\ Cardinality(Repeats) <= failures
  /\ pc \in {"attached", "cb"} /\ rtp_pkt = LastHanded => Cardinality(Repeats) < failures

(* When it has used a stale user_data, it has read another one before it   *)
(* calls the callback again.                                               *)
ReadAnew ==
  /\ stale <= 1
  /\ stale = 1 /\ pc \in {"select", "recvfrom", "attached", "cb"} => user = user_data

IInv ==
  /\ Types /\ InboxOrder /\ SomethingToRead /\ HandedOrder /\ RepeatsPaid /\ ReadAnew
-----------------------------------------------------------------------------
LEMMA InvInit == Init => IInv
<1> SUFFICES ASSUME Init PROVE IInv
  OBVIOUS
<1>1. Repeats = {}
  BY DEF Init, Repeats
<1>2. IsFiniteSet(Repeats) /\ Cardinality(Repeats) = 0
  BY <1>1, FS_EmptySet
<1> QED
  BY <1>2 DEF Init, IInv, Types, InboxOrder, SomethingToRead, HandedOrder, RepeatsPaid,
              ReadAnew, LastHanded
-----------------------------------------------------------------------------
(***************************************************************************)
(* What the steps change.  Most of them leave the datagrams where they are *)
(* and only move the thread.                                               *)
(***************************************************************************)
Moves ==
  /\ UNCHANGED <<network, rtp_pkt, failures, handed>>
  /\ pc' \in {"attached", "cb"} => pc \in {"attached", "cb"}
  /\ pc' = "recvfrom" => pc = "recvfrom" \/ inbox # <<>>

LEMMA WhatStepsDo ==
  ASSUME [Next]_vars
  PROVE  \/ Moves \/ ReceiveFrom \/ rtp_cb
         \/ \E valid \in BOOLEAN : Arrive(valid)
<1> USE DEF Moves, network, thread, app, ending, vars
<1>1. CASE Start
  BY <1>1 DEF Start
<1>2. CASE Top
  BY <1>2 DEF Top
<1>3. CASE Timeout \/ Readable \/ SelectError
  BY <1>3 DEF Timeout, Readable, SelectError
<1>4. CASE Attached
  BY <1>4 DEF Attached
<1>5. CASE vid_recv_from_exit_deal
  BY <1>5 DEF vid_recv_from_exit_deal
<1>6. CASE \E u \in Users : Attach(u)
  BY <1>6 DEF Attach
<1>7. CASE Detach \/ Quit \/ Signal
  BY <1>7 DEF Detach, Quit, Signal
<1>8. CASE UNCHANGED vars
  BY <1>8
<1> QED
  BY <1>1, <1>2, <1>3, <1>4, <1>5, <1>6, <1>7, <1>8 DEF Next, ThreadStep

(* recvfrom: the oldest datagram goes into the buffer, or is lost. *)
LEMMA ReceiveStep ==
  ASSUME IInv, ReceiveFrom
  PROVE  /\ inbox' \in Seq(Datagrams) /\ rtp_pkt' \in Nat /\ failures' \in Nat
         /\ arrived' = arrived /\ handed' = handed /\ pc' = "attached"
         /\ InboxOrder'
         /\ \/ rtp_pkt' > rtp_pkt /\ failures' = failures
            \/ rtp_pkt' = rtp_pkt /\ failures' = failures + 1
<1> DEFINE d == Head(inbox)
<1>1. pc = "recvfrom" /\ inbox # <<>> /\ inbox \in Seq(Datagrams)
  BY DEF IInv, SomethingToRead, Types, ReceiveFrom
<1>2. {arrived, rtp_pkt, failures} \subseteq Nat
  BY DEF IInv, Types
<1>3. /\ d = inbox[1] /\ d \in Datagrams /\ 1 \in 1 .. Len(inbox) /\ Len(inbox) \in Nat
      /\ Tail(inbox) \in Seq(Datagrams) /\ Len(Tail(inbox)) = Len(inbox) - 1
      /\ \A k \in 1 .. Len(inbox) - 1 : Tail(inbox)[k] = inbox[k+1]
  BY <1>1, HeadTailProperties
<1>4. /\ inbox' = Tail(inbox) /\ pc' = "attached" /\ arrived' = arrived /\ handed' = handed
      /\ \/ rtp_pkt' = d.number /\ failures' = failures
         \/ rtp_pkt' = rtp_pkt /\ failures' = failures + 1
  BY DEF ReceiveFrom, Left
<1>5. d.number \in Nat /\ rtp_pkt < d.number /\ d.number <= arrived
  BY <1>3 DEF IInv, InboxOrder, Datagrams
<1>6. ASSUME NEW k \in 1 .. Len(inbox) - 1
      PROVE  /\ k + 1 \in 1 .. Len(inbox) /\ Tail(inbox)[k] = inbox[k+1]
             /\ inbox[k+1].number \in Nat /\ d.number < inbox[k+1].number
             /\ inbox[k+1].number <= arrived
  <2>1. k + 1 \in 1 .. Len(inbox) /\ 1 < k + 1
    BY <1>3
  <2>2. inbox[k+1] \in Datagrams
    BY <1>1, <2>1
  <2> QED
    BY <1>3, <2>1, <2>2 DEF IInv, InboxOrder, Datagrams
<1> HIDE DEF d
<1>7. InboxOrder'
  <2>1. rtp_pkt' <= arrived' /\ rtp_pkt' <= d.number /\ rtp_pkt' \in Nat
    BY <1>2, <1>4, <1>5
  <2>2. ASSUME NEW k \in 1 .. Len(inbox')
        PROVE  rtp_pkt' < inbox'[k].number /\ inbox'[k].number <= arrived'
    BY <1>2, <1>3, <1>4, <1>5, <1>6, <2>1
  <2>3. ASSUME NEW j \in 1 .. Len(inbox'), NEW k \in 1 .. Len(inbox'), j < k
        PROVE  inbox'[j].number < inbox'[k].number
    <3>1. /\ j + 1 \in 1 .. Len(inbox) /\ k + 1 \in 1 .. Len(inbox) /\ j + 1 < k + 1
          /\ inbox'[j] = inbox[j+1] /\ inbox'[k] = inbox[k+1]
      BY <1>3, <1>4, <1>6, <2>3
    <3> QED
      BY <3>1 DEF IInv, InboxOrder
  <2> QED
    BY <2>1, <2>2, <2>3 DEF InboxOrder
<1> QED
  BY <1>2, <1>3, <1>4, <1>5, <1>7

(* A datagram arrives. *)
LEMMA ArriveStep ==
  ASSUME IInv, NEW valid \in BOOLEAN, Arrive(valid)
  PROVE  /\ inbox' \in Seq(Datagrams) /\ inbox' # <<>> /\ arrived' \in Nat
         /\ UNCHANGED <<rtp_pkt, failures, handed, pc>>
         /\ InboxOrder'
<1> DEFINE d == [number |-> arrived + 1, valid |-> valid]
<1>1. inbox \in Seq(Datagrams) /\ {arrived, rtp_pkt} \subseteq Nat
  BY DEF IInv, Types
<1>2. d \in Datagrams /\ d.number = arrived + 1
  BY <1>1 DEF Datagrams
<1>3. /\ inbox' = Append(inbox, d) /\ arrived' = arrived + 1
      /\ UNCHANGED <<rtp_pkt, failures, handed, pc>>
  BY DEF Arrive, thread
<1> HIDE DEF d
<1>4. /\ inbox' \in Seq(Datagrams) /\ Len(inbox') = Len(inbox) + 1 /\ Len(inbox) \in Nat
      /\ inbox' # <<>>
      /\ \A k \in 1 .. Len(inbox) : inbox'[k] = inbox[k]
      /\ inbox'[Len(inbox)+1] = d
  BY <1>1, <1>2, <1>3, AppendProperties
<1>5. /\ rtp_pkt <= arrived
      /\ \A k \in 1 .. Len(inbox) : rtp_pkt < inbox[k].number /\ inbox[k].number <= arrived
      /\ \A j, k \in 1 .. Len(inbox) : j < k => inbox[j].number < inbox[k].number
  BY DEF IInv, InboxOrder
<1>6. \A k \in 1 .. Len(inbox) : inbox[k].number \in Nat
  <2>1. \A k \in 1 .. Len(inbox) : inbox[k] \in Datagrams
    BY <1>1
  <2> QED
    BY <2>1 DEF Datagrams
<1>7. ASSUME NEW k \in 1 .. Len(inbox) + 1
      PROVE  rtp_pkt < inbox'[k].number /\ inbox'[k].number <= arrived + 1
  <2>1. CASE k = Len(inbox) + 1
    BY <1>1, <1>2, <1>4, <1>5, <2>1
  <2>2. CASE k \in 1 .. Len(inbox)
    BY <1>1, <1>4, <1>5, <1>6, <2>2
  <2> QED
    BY <1>4, <2>1, <2>2
<1>8. ASSUME NEW j \in 1 .. Len(inbox) + 1, NEW k \in 1 .. Len(inbox) + 1, j < k
      PROVE  inbox'[j].number < inbox'[k].number
  <2>1. j \in 1 .. Len(inbox)
    BY <1>4, <1>8
  <2>2. CASE k = Len(inbox) + 1
    BY <1>1, <1>2, <1>4, <1>5, <1>6, <2>1, <2>2
  <2>3. CASE k \in 1 .. Len(inbox)
    BY <1>4, <1>5, <1>8, <2>1, <2>3
  <2> QED
    BY <1>4, <2>2, <2>3
<1>9. InboxOrder'
  BY <1>1, <1>3, <1>4, <1>5, <1>7, <1>8 DEF InboxOrder
<1> QED
  BY <1>1, <1>3, <1>4, <1>9

(* The callback gets what is in the buffer. *)
LEMMA HandStep ==
  ASSUME IInv, rtp_cb
  PROVE  /\ handed' \in Seq(Nat) /\ UNCHANGED <<inbox, arrived, rtp_pkt, failures>>
         /\ pc' = "top"
         /\ HandedOrder' /\ RepeatsPaid'
<1>0. PICK L : L = Len(handed)
  OBVIOUS
<1>1. /\ handed \in Seq(Nat) /\ L \in Nat /\ L = Len(handed) /\ DOMAIN handed = 1 .. L
      /\ {rtp_pkt, failures} \subseteq Nat
  BY <1>0, LenProperties DEF IInv, Types
<1>2. /\ pc = "cb" /\ pc' = "top" /\ handed' = Append(handed, rtp_pkt)
      /\ UNCHANGED <<inbox, arrived, rtp_pkt, failures>>
  BY DEF rtp_cb, network
<1>3. /\ handed' \in Seq(Nat) /\ Len(handed') = L + 1 /\ DOMAIN handed' = 1 .. L + 1
      /\ handed' # <<>>
      /\ \A k \in 1 .. L : handed'[k] = handed[k]
      /\ handed'[L+1] = rtp_pkt
  BY <1>1, <1>2, AppendProperties, LenProperties
<1>4. L = 0 <=> handed = <<>>
  BY <1>1, EmptySeq
<1>5. \A k \in 1 .. L : Previous(k)' = Previous(k)
  <2> SUFFICES ASSUME NEW k \in 1 .. L PROVE Previous(k)' = Previous(k)
    OBVIOUS
  <2>1. k # 1 => k - 1 \in 1 .. L
    BY <1>1
  <2> QED
    BY <1>3, <2>1 DEF Previous
<1>6. Previous(L + 1)' = LastHanded
  <2>1. CASE L = 0
    BY <1>4, <2>1 DEF Previous, LastHanded
  <2>2. CASE L # 0
    <3>1. L \in 1 .. L /\ L + 1 # 1 /\ (L + 1) - 1 = L
      BY <1>1, <2>2
    <3> QED
      BY <1>1, <1>3, <1>4, <2>2, <3>1 DEF Previous, LastHanded
  <2> QED
    BY <2>1, <2>2
<1>7. LastHanded' = rtp_pkt
  BY <1>3 DEF LastHanded
<1>8. LastHanded <= rtp_pkt /\ \A k \in 1 .. L : Previous(k) <= handed[k]
  BY <1>1 DEF IInv, HandedOrder
<1>9. /\ IsFiniteSet(Repeats) /\ Cardinality(Repeats) <= failures
      /\ rtp_pkt = LastHanded => Cardinality(Repeats) < failures
  BY <1>2 DEF IInv, RepeatsPaid
<1>10. Cardinality(Repeats) \in Nat
  BY <1>9, FS_CardinalityType
<1>11. \A k \in 1 .. L + 1 : k = L + 1 \/ k \in 1 .. L
  BY <1>1
<1>12. HandedOrder'
  BY <1>1, <1>2, <1>3, <1>5, <1>6, <1>7, <1>8, <1>11 DEF HandedOrder
<1>13. RepeatsPaid'
  <2>1. L + 1 \notin Repeats /\ \A k \in Repeats : k \in 1 .. L
    BY <1>1 DEF Repeats
  <2>2. CASE rtp_pkt = LastHanded
    <3>1. \A k : k \in Repeats' <=> k \in Repeats \/ k = L + 1
      BY <1>1, <1>3, <1>5, <1>6, <1>11, <2>2 DEF Repeats
    <3>2. Repeats' = Repeats \cup {L + 1}
      BY <3>1
    <3>3. IsFiniteSet(Repeats') /\ Cardinality(Repeats') = Cardinality(Repeats) + 1
      BY <1>9, <2>1, <3>2, FS_AddElement
    <3> QED
      BY <1>1, <1>2, <1>9, <1>10, <2>2, <3>3 DEF RepeatsPaid
  <2>3. CASE rtp_pkt # LastHanded
    <3>1. \A k : k \in Repeats' <=> k \in Repeats
      BY <1>1, <1>3, <1>5, <1>6, <1>11, <2>1, <2>3 DEF Repeats
    <3>2. Repeats' = Repeats
      BY <3>1
    <3> QED
      BY <1>2, <1>9, <3>2 DEF RepeatsPaid
  <2> QED
    BY <2>2, <2>3
<1> QED
  BY <1>2, <1>3, <1>12, <1>13
-----------------------------------------------------------------------------
(* The datagrams, through every step. *)
LEMMA DatagramsStep ==
  ASSUME IInv, [Next]_vars
  PROVE  /\ inbox' \in Seq(Datagrams) /\ handed' \in Seq(Nat)
         /\ {arrived', rtp_pkt', failures'} \subseteq Nat
         /\ InboxOrder' /\ SomethingToRead' /\ HandedOrder' /\ RepeatsPaid'
<1>1. /\ inbox \in Seq(Datagrams) /\ handed \in Seq(Nat)
      /\ {arrived, rtp_pkt, failures} \subseteq Nat
      /\ InboxOrder /\ SomethingToRead /\ HandedOrder /\ RepeatsPaid
  BY DEF IInv, Types
<1>2. handed' = handed => LastHanded' = LastHanded /\ Repeats' = Repeats
  BY DEF LastHanded, Repeats, Previous
<1>3. LastHanded \in Nat
  <2>1. handed # <<>> => handed[Len(handed)] \in Nat
    BY <1>1, LenProperties, EmptySeq
  <2> QED
    BY <2>1 DEF LastHanded
<1>4. IsFiniteSet(Repeats) /\ Cardinality(Repeats) \in Nat
  BY <1>1, FS_CardinalityType DEF RepeatsPaid
<1>5. CASE Moves
  <2>1. /\ UNCHANGED <<inbox, arrived, rtp_pkt, failures, handed>>
        /\ pc' \in {"attached", "cb"} => pc \in {"attached", "cb"}
        /\ pc' = "recvfrom" => pc = "recvfrom" \/ inbox # <<>>
    BY <1>5 DEF Moves, network
  <2> QED
    BY <1>1, <1>2, <2>1
       DEF InboxOrder, SomethingToRead, HandedOrder, RepeatsPaid, Previous
<1>6. CASE ReceiveFrom
  <2>1. /\ inbox' \in Seq(Datagrams) /\ rtp_pkt' \in Nat /\ failures' \in Nat
        /\ arrived' = arrived /\ handed' = handed /\ pc' = "attached"
        /\ InboxOrder'
        /\ \/ rtp_pkt' > rtp_pkt /\ failures' = failures
           \/ rtp_pkt' = rtp_pkt /\ failures' = failures + 1
    BY <1>6, ReceiveStep
  <2>2. HandedOrder'
    BY <1>1, <1>2, <1>3, <2>1 DEF HandedOrder, Previous
  <2>3. RepeatsPaid'
    BY <1>1, <1>2, <1>3, <1>4, <2>1 DEF RepeatsPaid, HandedOrder
  <2> QED
    BY <1>1, <2>1, <2>2, <2>3 DEF SomethingToRead
<1>7. CASE rtp_cb
  BY <1>1, <1>7, HandStep DEF InboxOrder, SomethingToRead
<1>8. CASE \E valid \in BOOLEAN : Arrive(valid)
  <2>1. /\ inbox' \in Seq(Datagrams) /\ inbox' # <<>> /\ arrived' \in Nat
        /\ UNCHANGED <<rtp_pkt, failures, handed, pc>>
        /\ InboxOrder'
    BY <1>8, ArriveStep
  <2> QED
    BY <1>1, <1>2, <2>1 DEF SomethingToRead, HandedOrder, RepeatsPaid, Previous
<1> QED
  BY <1>5, <1>6, <1>7, <1>8, WhatStepsDo

(* user_data, through every step: only a thread that has a stale one can   *)
(* use it, and once it has, it reads another before the next call.         *)
LEMMA UserStep ==
  ASSUME IInv, [Next]_vars
  PROVE  stale' \in Nat /\ ReadAnew'
<1> USE DEF ReadAnew
<1>1. stale \in Nat /\ ReadAnew
  BY DEF IInv, Types
<1>2. CASE Start
  BY <1>1, <1>2 DEF Start, app
<1>3. CASE Top
  BY <1>1, <1>3 DEF Top, app, UserRead
<1>4. CASE Timeout \/ Readable \/ SelectError
  BY <1>1, <1>4 DEF Timeout, Readable, SelectError, app
<1>5. CASE ReceiveFrom
  BY <1>1, <1>5 DEF ReceiveFrom, app
<1>6. CASE Attached
  BY <1>1, <1>6 DEF Attached, app
<1>7. CASE rtp_cb
  BY <1>1, <1>7 DEF rtp_cb, app
<1>8. CASE vid_recv_from_exit_deal
  BY <1>1, <1>8 DEF vid_recv_from_exit_deal, app
<1>9. CASE (\E u \in Users : Attach(u)) \/ Detach
  BY <1>9 DEF Attach, Detach
<1>10. CASE (\E valid \in BOOLEAN : Arrive(valid)) \/ Quit \/ Signal
  BY <1>1, <1>10 DEF Arrive, Quit, Signal, app, thread
<1>11. CASE UNCHANGED vars
  BY <1>1, <1>11 DEF vars, app, thread
<1> QED
  BY <1>2, <1>3, <1>4, <1>5, <1>6, <1>7, <1>8, <1>9, <1>10, <1>11 DEF Next, ThreadStep

LEMMA InvStep == IInv /\ [Next]_vars => IInv'
BY DatagramsStep, UserStep DEF IInv, Types

LEMMA Invariance == Spec => []IInv
BY InvInit, InvStep, PTL DEF Spec
-----------------------------------------------------------------------------
(***************************************************************************)
(* The callback gets the datagrams in the order they arrived in, and one   *)
(* of them again only for a recvfrom that has failed, however many there   *)
(* are (transport_udp.c:262-289).                                          *)
(***************************************************************************)
THEOREM InOrder == Spec => []HandedInOrder
<1>1. IInv => HandedInOrder
  <2> SUFFICES ASSUME IInv PROVE HandedInOrder
    OBVIOUS
  <2>1. DOMAIN handed = 1 .. Len(handed)
    BY LenProperties DEF IInv, Types
  <2> QED
    BY <2>1 DEF IInv, HandedOrder, RepeatsPaid, Repeats, HandedInOrder
<1> QED
  BY <1>1, Invariance, PTL

(***************************************************************************)
(* A user_data that is no longer the transport's is used at most once      *)
(* after each attachment or detachment, whoever attaches and how often.    *)
(***************************************************************************)
THEOREM UsedOnce == Spec => []StaleOnce
<1>1. IInv => StaleOnce
  BY DEF IInv, ReadAnew, StaleOnce
<1> QED
  BY <1>1, Invariance, PTL
=============================================================================
