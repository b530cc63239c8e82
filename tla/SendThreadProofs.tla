--------------------------- MODULE SendThreadProofs ---------------------------
(***************************************************************************)
(* Theorems about SendThread, for every number of packets and every number *)
(* at which the counters wrap.                                             *)
(***************************************************************************)
EXTENDS SendThread, LinkedListTheorems

AllNodes == 0 .. MaxAdds

(* The last packet that the thread can have come to. *)
Reached == IF adding \in {"count", "head"} THEN added - 1 ELSE added

(* What was sent lies in front of where the thread is. *)
Passed ==
  list_current_send = NoNode \/ \A j \in DOMAIN sent : sent[j] < list_current_send

(***************************************************************************)
(* The adder: packets are linked one behind the other, up to the last one  *)
(* of which the call has returned.                                         *)
(***************************************************************************)
LinkedUp ==
  /\ adding # "done" => added >= 1
  /\ list_current_write \in IF Returned = 0 THEN {NoNode, 0} ELSE {Returned}
  /\ \A n \in Packets : next[n] = IF n < list_current_write THEN n + 1 ELSE NoNode
  /\ next[0] \in {NoNode, 1}
  /\ next[0] = 1 => Returned >= 1
  /\ ~ wrapped => list_write_size = IF adding = "count" THEN added - 1 ELSE added

(***************************************************************************)
(* The thread is never behind the adder, and in the middle of a pass it is *)
(* still at the node it has taken.                                         *)
(***************************************************************************)
Following ==
  /\ list_current_send <= Reached
  /\ pc # "null"
  /\ pc \in {"send", "count", "wait", "read", "store"} =>
       list_current_send = new_node /\ new_node # NoNode
  /\ pc \in {"send", "count"} => new_node >= 1
  /\ pc = "store" => after \in {NoNode} \cup (new_node + 1) .. Reached

Ascending ==
  /\ \A j, k \in DOMAIN sent : j < k => sent[j] < sent[k]
  /\ \A j \in DOMAIN sent : j <= sent[j] /\ sent[j] <= Reached
  /\ pc \in {"top", "send", "window", "mutex"} => Passed
  /\ pc \in {"count", "wait", "read", "store"} =>
       \A j \in DOMAIN sent : sent[j] <= new_node
  /\ pc = "killed" /\ Len(sent) > 1 => Passed

(***************************************************************************)
(* Only in its first pass does the thread not block the signal outside of  *)
(* the window.                                                             *)
(***************************************************************************)
FirstPass ==
  ~ blocked /\ pc \notin {"mutex", "end", "killed"} =>
    Len(sent) <= IF pc \in {"top", "send"} THEN 0 ELSE 1

IInv == TypeOK /\ LinkedUp /\ Following /\ Ascending /\ FirstPass /\ SentIsCounted
-----------------------------------------------------------------------------
LEMMA InvInit == Init => IInv
<1> SUFFICES ASSUME Init PROVE IInv
  OBVIOUS
<1> USE BoundsAssumption
<1>1. TypeOK
  <2>1. sent \in Seq(Packets)
    BY DEF Init
  <2>2. {quit, wrapped, signalled, blocked} \subseteq BOOLEAN
    BY DEF Init
  <2> QED
    BY <2>1, <2>2 DEF Init, TypeOK, NoNode
<1>2. LinkedUp
  BY DEF Init, LinkedUp, Returned, NoNode, Packets
<1>3. Following
  BY DEF Init, Following, Reached, NoNode
<1>4. Ascending /\ FirstPass /\ SentIsCounted
  BY DEF Init, Ascending, Passed, FirstPass, SentIsCounted
<1> QED
  BY <1>1, <1>2, <1>3, <1>4 DEF IInv

(* What the adder does leaves the thread's part of the invariant alone:    *)
(* more can be reached, and a list begins behind what was sent.            *)
LEMMA AdderStep ==
  ASSUME IInv, Copy \/ AddStep
  PROVE  IInv'
<1> USE BoundsAssumption DEF NoNode, Packets
<1>1. TypeOK /\ LinkedUp /\ Following /\ Ascending /\ FirstPass /\ SentIsCounted
  BY DEF IInv
<1>2. /\ added \in 0 .. MaxAdds /\ adding \in {"count", "head", "tail", "done"}
      /\ list_current_write \in AllNodes \cup {NoNode}
      /\ list_current_send \in AllNodes \cup {NoNode}
      /\ next \in [AllNodes -> AllNodes \cup {NoNode}]
      /\ list_write_size \in 0 .. MaxLoop /\ wrapped \in BOOLEAN
      /\ sent \in Seq(1 .. MaxAdds)
  BY <1>1 DEF TypeOK, AllNodes
<1>3. CASE Copy
  <2>1. TypeOK'
    BY <1>1, <1>3 DEF Copy, TypeOK, thread, signal
  <2>2. LinkedUp'
    BY <1>1, <1>2, <1>3 DEF Copy, LinkedUp, Returned
  <2>3. Reached' = Reached
    BY <1>2, <1>3 DEF Copy, Reached
  <2>4. (Following /\ Ascending /\ FirstPass /\ SentIsCounted)'
    BY <1>1, <1>3, <2>3
       DEF Copy, Following, Ascending, Passed, FirstPass, SentIsCounted, thread, signal
  <2> QED
    BY <2>1, <2>2, <2>4 DEF IInv
<1>4. CASE CountWritten
  <2>1. TypeOK'
    BY <1>1, <1>2, <1>4 DEF CountWritten, TypeOK, thread, signal
  <2>2. LinkedUp'
    <3>1. ~ wrapped' => ~ wrapped /\ list_write_size # MaxLoop
      BY <1>4 DEF CountWritten
    <3>2. ~ wrapped' => list_write_size' = added
      BY <1>1, <1>2, <1>4, <3>1 DEF CountWritten, LinkedUp
    <3> QED
      BY <1>1, <1>2, <1>4, <3>2 DEF CountWritten, LinkedUp, Returned
  <2>3. Reached' = Reached
    BY <1>4 DEF CountWritten, Reached
  <2>4. (Following /\ Ascending /\ FirstPass /\ SentIsCounted)'
    BY <1>1, <1>2, <1>4, <2>3
       DEF CountWritten, Following, Ascending, Passed, FirstPass, SentIsCounted, thread, signal
  <2> QED
    BY <2>1, <2>2, <2>4 DEF IInv
<1>5. CASE BeginList
  <2>1. TypeOK'
    BY <1>1, <1>2, <1>5 DEF BeginList, TypeOK, thread, signal
  <2>2. LinkedUp'
    BY <1>1, <1>2, <1>5 DEF BeginList, LinkedUp, Returned
  <2>3. /\ Reached = added - 1 /\ Reached' = added
        /\ list_current_send' = IF list_current_send = NoNode THEN added ELSE list_current_send
    BY <1>2, <1>5 DEF BeginList, Reached
  <2>4. Following'
    BY <1>1, <1>2, <1>5, <2>3 DEF BeginList, Following, thread
  <2>5. \A j \in DOMAIN sent : sent[j] < added
    BY <1>1, <1>2, <2>3 DEF Ascending
  <2>6. Passed => Passed'
    BY <1>2, <1>5, <2>3, <2>5 DEF BeginList, Passed, thread
  <2>7. Ascending'
    BY <1>1, <1>2, <1>5, <2>3, <2>6 DEF BeginList, Ascending, thread
  <2>8. (FirstPass /\ SentIsCounted)'
    BY <1>1, <1>5 DEF BeginList, FirstPass, SentIsCounted, thread, signal
  <2> QED
    BY <2>1, <2>2, <2>4, <2>7, <2>8 DEF IInv
<1>6. CASE ExtendList
  <2>1. TypeOK'
    BY <1>1, <1>2, <1>6 DEF ExtendList, Linked, TypeOK, thread, signal, AllNodes
  <2>2. LinkedUp'
    BY <1>1, <1>2, <1>6 DEF ExtendList, Linked, LinkedUp, Returned, AllNodes
  <2>3. Reached' = Reached
    BY <1>6 DEF ExtendList, Reached
  <2>4. (Following /\ Ascending /\ FirstPass /\ SentIsCounted)'
    BY <1>1, <1>6, <2>3
       DEF ExtendList, Following, Ascending, Passed, FirstPass, SentIsCounted, thread, signal
  <2> QED
    BY <2>1, <2>2, <2>4 DEF IInv
<1> QED
  BY <1>3, <1>4, <1>5, <1>6 DEF AddStep

(* The thread, whose steps leave the adder's variables as they are. *)
LEMMA LoopStep ==
  ASSUME IInv, ThreadStep
  PROVE  IInv'
<1> USE BoundsAssumption DEF NoNode, Packets
<1>1. TypeOK /\ LinkedUp /\ Following /\ Ascending /\ FirstPass /\ SentIsCounted
  BY DEF IInv
<1>2. /\ added \in 0 .. MaxAdds /\ adding \in {"count", "head", "tail", "done"}
      /\ list_current_send \in AllNodes \cup {NoNode}
      /\ list_current_write \in AllNodes \cup {NoNode}
      /\ new_node \in AllNodes \cup {NoNode} /\ after \in AllNodes \cup {NoNode}
      /\ next \in [AllNodes -> AllNodes \cup {NoNode}]
      /\ list_write_size \in 0 .. MaxLoop /\ list_send_size \in 0 .. MaxLoop
      /\ sent \in Seq(1 .. MaxAdds) /\ Len(sent) \in Nat /\ DOMAIN sent = 1 .. Len(sent)
  BY <1>1 DEF TypeOK, AllNodes
<1>3. UNCHANGED <<adder, quit>>
  BY DEF ThreadStep, Top, SendTo, CountSent, Wait, ReadNext, StoreNext, Unblock, Block, signal
<1>4. LinkedUp' /\ Reached' = Reached /\ Reached \in Int
  BY <1>1, <1>2, <1>3 DEF LinkedUp, Returned, Reached, adder
<1>5. CASE Top
  <2>1. TypeOK'
    BY <1>1, <1>2, <1>5 DEF Top, TypeOK, Ready, adder, signal, AllNodes
  <2>2. Following'
    BY <1>1, <1>2, <1>4, <1>5 DEF Top, Following, Ready, HasBytes, AllNodes
  <2>3. Ascending'
    BY <1>1, <1>2, <1>4, <1>5 DEF Top, Ascending, Passed, Ready, HasBytes, AllNodes
  <2>4. FirstPass'
    BY <1>1, <1>2, <1>5 DEF Top, FirstPass, signal
  <2>5. SentIsCounted'
    BY <1>1, <1>2, <1>5 DEF Top, SentIsCounted, adder
  <2> QED
    BY <1>4, <2>1, <2>2, <2>3, <2>4, <2>5 DEF IInv
<1>6. CASE SendTo
  <2>1. new_node \in 1 .. MaxAdds /\ new_node = list_current_send /\ Passed
    BY <1>1, <1>2, <1>6 DEF SendTo, Following, Ascending, AllNodes
  <2>2. /\ sent' = Append(sent, new_node) /\ sent' \in Seq(1 .. MaxAdds)
        /\ Len(sent') = Len(sent) + 1 /\ DOMAIN sent' = 1 .. Len(sent) + 1
        /\ \A j \in 1 .. Len(sent) : sent'[j] = sent[j]
        /\ sent'[Len(sent) + 1] = new_node
    BY <1>2, <1>6, <2>1 DEF SendTo
  <2>3. TypeOK'
    BY <1>1, <1>6, <2>2 DEF SendTo, TypeOK, adder, signal
  <2>4. Following'
    BY <1>1, <1>4, <1>6 DEF SendTo, Following
  <2>5. \A j \in DOMAIN sent : sent[j] < new_node /\ j <= sent[j]
    BY <1>1, <2>1 DEF Passed, Ascending
  <2>6. Len(sent) + 1 <= new_node
    <3>1. CASE Len(sent) = 0
      BY <2>1, <3>1
    <3>2. CASE Len(sent) # 0
      <4>1. Len(sent) \in DOMAIN sent /\ sent[Len(sent)] \in 1 .. MaxAdds
        BY <1>2, <3>2
      <4> QED
        BY <1>2, <2>1, <2>5, <4>1
    <3> QED
      BY <3>1, <3>2
  <2>7. new_node <= Reached
    BY <1>1, <2>1 DEF Following
  <2>8. \A j, k \in DOMAIN sent' : j < k => sent'[j] < sent'[k]
    <3> SUFFICES ASSUME NEW j \in DOMAIN sent', NEW k \in DOMAIN sent', j < k
                 PROVE  sent'[j] < sent'[k]
      OBVIOUS
    <3>1. j \in DOMAIN sent /\ sent'[j] = sent[j]
      BY <1>2, <2>2
    <3>2. CASE k = Len(sent) + 1
      BY <2>2, <2>5, <3>1, <3>2
    <3>3. CASE k # Len(sent) + 1
      <4>1. k \in DOMAIN sent /\ sent'[k] = sent[k]
        BY <1>2, <2>2, <3>3
      <4> QED
        BY <1>1, <3>1, <4>1 DEF Ascending
    <3> QED
      BY <3>2, <3>3
  <2>9. \A j \in DOMAIN sent' : j <= sent'[j] /\ sent'[j] <= Reached /\ sent'[j] <= new_node
    <3> SUFFICES ASSUME NEW j \in DOMAIN sent'
                 PROVE  j <= sent'[j] /\ sent'[j] <= Reached /\ sent'[j] <= new_node
      OBVIOUS
    <3>1. CASE j = Len(sent) + 1
      BY <2>2, <2>6, <2>7, <2>1, <3>1
    <3>2. CASE j # Len(sent) + 1
      <4>1. j \in DOMAIN sent /\ sent'[j] = sent[j] /\ sent[j] \in 1 .. MaxAdds
        BY <1>2, <2>2, <3>2
      <4> QED
        BY <1>1, <2>1, <2>5, <4>1 DEF Ascending
    <3> QED
      BY <3>1, <3>2
  <2>10. Ascending'
    BY <1>4, <1>6, <2>8, <2>9 DEF Ascending, SendTo
  <2>11. FirstPass'
    BY <1>1, <1>2, <1>6, <2>2 DEF SendTo, FirstPass, signal
  <2>12. SentIsCounted'
    BY <1>1, <1>2, <1>6, <2>2 DEF SendTo, SentIsCounted, adder
  <2> QED
    BY <1>4, <2>3, <2>4, <2>10, <2>11, <2>12 DEF IInv
<1>7. CASE CountSent
  <2>1. TypeOK'
    BY <1>1, <1>2, <1>7 DEF CountSent, SendCount, TypeOK, adder, signal
  <2>2. (Following /\ Ascending /\ FirstPass)'
    BY <1>1, <1>4, <1>7 DEF CountSent, Following, Ascending, Passed, FirstPass, signal
  <2>3. SentIsCounted'
    <3> SUFFICES ASSUME ~ wrapped PROVE Len(sent) = SendCount
      BY <1>7 DEF CountSent, SentIsCounted, adder
    <3>1. Len(sent) = list_send_size + 1
      BY <1>1, <1>2, <1>7 DEF CountSent, SentIsCounted
    <3>2. Len(sent) \in DOMAIN sent /\ sent[Len(sent)] \in 1 .. MaxAdds
      BY <1>2, <3>1
    <3>3. Len(sent) <= Reached
      BY <1>1, <1>2, <1>4, <3>2 DEF Ascending
    <3>4. Reached <= list_write_size
      BY <1>1, <1>2 DEF Reached, LinkedUp
    <3> QED
      BY <1>2, <1>4, <3>1, <3>3, <3>4 DEF SendCount
  <2> QED
    BY <1>4, <2>1, <2>2, <2>3 DEF IInv
<1>8. CASE Wait
  BY <1>1, <1>4, <1>8
     DEF IInv, Wait, TypeOK, Following, Ascending, Passed, FirstPass, SentIsCounted,
         adder, signal
<1>9. CASE ReadNext
  <2>1. list_current_send = new_node /\ new_node \in AllNodes
    BY <1>1, <1>2, <1>9 DEF ReadNext, Following
  <2>2. pc' = "store" /\ after' = next[new_node]
    BY <1>9, <2>1 DEF ReadNext, AllNodes
  <2>3. after' \in AllNodes \cup {NoNode}
    BY <1>2, <2>1, <2>2
  <2>4. after' \in {NoNode} \cup (new_node + 1) .. Reached
    <3>1. CASE new_node = 0
      BY <1>1, <1>2, <2>2, <3>1 DEF LinkedUp, Returned, Reached
    <3>2. CASE new_node # 0
      <4>1. new_node \in Packets
        BY <2>1, <3>2 DEF AllNodes
      <4>2. next[new_node] = IF new_node < list_current_write THEN new_node + 1 ELSE NoNode
        BY <1>1, <4>1 DEF LinkedUp
      <4>3. list_current_write <= Reached
        BY <1>1, <1>2 DEF LinkedUp, Returned, Reached
      <4> QED
        BY <1>2, <1>4, <2>2, <4>1, <4>2, <4>3
    <3> QED
      BY <3>1, <3>2
  <2>5. TypeOK'
    BY <1>1, <1>9, <2>2, <2>3 DEF ReadNext, TypeOK, adder, signal, AllNodes
  <2>6. Following'
    BY <1>1, <1>4, <1>9, <2>1, <2>2, <2>4 DEF ReadNext, Following
  <2>7. (Ascending /\ FirstPass /\ SentIsCounted)'
    BY <1>1, <1>4, <1>9, <2>2
       DEF ReadNext, Ascending, Passed, FirstPass, SentIsCounted, adder, signal
  <2> QED
    BY <1>4, <2>5, <2>6, <2>7 DEF IInv
<1>10. CASE StoreNext
  <2>1. /\ list_current_send' = after /\ pc' = "window" /\ new_node # NoNode
        /\ after \in {NoNode} \cup (new_node + 1) .. Reached
    BY <1>1, <1>10 DEF StoreNext, StoredNext, Following
  <2>2. TypeOK'
    BY <1>1, <1>10 DEF StoreNext, StoredNext, TypeOK, adder, signal
  <2>3. Following'
    BY <1>2, <1>4, <1>10, <2>1 DEF StoreNext, Following, Reached
  <2>4. \A j \in DOMAIN sent : sent[j] <= new_node /\ sent[j] \in 1 .. MaxAdds
    BY <1>1, <1>2, <1>10 DEF StoreNext, Ascending
  <2>5. Passed'
    BY <1>2, <1>10, <2>1, <2>4 DEF StoreNext, Passed, AllNodes
  <2>6. Ascending'
    BY <1>1, <1>4, <1>10, <2>5 DEF StoreNext, Ascending
  <2>7. (FirstPass /\ SentIsCounted)'
    BY <1>1, <1>10 DEF StoreNext, FirstPass, SentIsCounted, adder, signal
  <2> QED
    BY <1>4, <2>2, <2>3, <2>6, <2>7 DEF IInv
<1>11. CASE Unblock
  <2>1. TypeOK'
    BY <1>1, <1>11 DEF Unblock, TypeOK, adder
  <2>2. (Following /\ Ascending /\ FirstPass /\ SentIsCounted)'
    BY <1>1, <1>4, <1>11
       DEF Unblock, Following, Ascending, Passed, FirstPass, SentIsCounted, adder
  <2> QED
    BY <1>4, <2>1, <2>2 DEF IInv
<1>12. CASE Block
  <2>1. TypeOK'
    BY <1>1, <1>12 DEF Block, Blocked, TypeOK, adder
  <2>2. (Following /\ Ascending /\ FirstPass /\ SentIsCounted)'
    BY <1>1, <1>4, <1>12
       DEF Block, Blocked, Following, Ascending, Passed, FirstPass, SentIsCounted, adder
  <2> QED
    BY <1>4, <2>1, <2>2 DEF IInv
<1> QED
  BY <1>5, <1>6, <1>7, <1>8, <1>9, <1>10, <1>11, <1>12 DEF ThreadStep

(* SIGUSR1 and the application. *)
LEMMA OtherStep ==
  ASSUME IInv, vid_sendto_exit_deal \/ Quit \/ Signal \/ UNCHANGED vars
  PROVE  IInv'
<1>1. TypeOK /\ LinkedUp /\ Following /\ Ascending /\ FirstPass /\ SentIsCounted
  BY DEF IInv
<1>2. UNCHANGED <<adder, list_current_send, list_send_size, sent, new_node, after>>
  BY DEF vid_sendto_exit_deal, Quit, Signal, vars, thread
<1>3. LinkedUp' /\ Reached' = Reached /\ (Passed <=> Passed')
  BY <1>1, <1>2 DEF LinkedUp, Returned, Reached, Passed, adder
<1>4. CASE vid_sendto_exit_deal
  <2>1. TypeOK'
    BY <1>1, <1>4 DEF vid_sendto_exit_deal, TypeOK, adder, signal
  <2>2. (Following /\ FirstPass)'
    BY <1>1, <1>3, <1>4 DEF vid_sendto_exit_deal, Following, FirstPass, signal
  <2>3. SentIsCounted'
    BY <1>4 DEF vid_sendto_exit_deal, SentIsCounted
  <2>4. Len(sent) > 1 => pc = "mutex"
    BY <1>1, <1>4 DEF vid_sendto_exit_deal, FirstPass, TypeOK
  <2>5. Ascending'
    BY <1>1, <1>3, <1>4, <2>4 DEF vid_sendto_exit_deal, Ascending
  <2> QED
    BY <1>3, <2>1, <2>2, <2>3, <2>5 DEF IInv
<1>5. CASE Quit \/ Signal \/ UNCHANGED vars
  <2>1. UNCHANGED <<thread, blocked>> /\ {quit', signalled'} \subseteq BOOLEAN
    BY <1>1, <1>5 DEF Quit, Signal, vars, signal, TypeOK
  <2>2. TypeOK'
    BY <1>1, <1>2, <2>1 DEF TypeOK, adder, thread
  <2>3. (Following /\ Ascending /\ FirstPass)'
    BY <1>1, <1>3, <1>2, <2>1 DEF Following, Ascending, FirstPass, thread
  <2>4. SentIsCounted'
    BY <1>1, <1>2, <2>1 DEF SentIsCounted, adder, thread
  <2> QED
    BY <1>3, <2>2, <2>3, <2>4 DEF IInv
<1> QED
  BY <1>4, <1>5

LEMMA InvStep == IInv /\ [Next]_vars => IInv'
BY AdderStep, LoopStep, OtherStep DEF Next

LEMMA Invariance == Spec => []IInv
BY InvInit, InvStep, PTL DEF Spec
-----------------------------------------------------------------------------
(* The nodes from a packet on are that packet and later ones. *)
LEMMA AheadOf ==
  ASSUME IInv, NEW start \in Packets
  PROVE  \A p \in ToSet(Chain(next, start, NoNode)) : p >= start
<1> USE BoundsAssumption
<1> DEFINE end == IF start < list_current_write THEN list_current_write ELSE start
           s   == [k \in 1 .. end - start + 1 |-> start + k - 1]
<1>1. /\ next \in [AllNodes -> AllNodes \cup {NoNode}]
      /\ list_current_write \in AllNodes \cup {NoNode}
      /\ \A n \in Packets : next[n] = IF n < list_current_write THEN n + 1 ELSE NoNode
  BY DEF IInv, TypeOK, LinkedUp, AllNodes
<1>2. end \in start .. MaxAdds
  BY <1>1 DEF AllNodes, Packets, NoNode
<1> HIDE DEF end
<1>3. Len(s) = end - start + 1 /\ s \in Seq(AllNodes) /\ s # <<>>
  BY <1>2 DEF AllNodes, Packets
<1>4. IsChain(s, next, start, NoNode)
  <2>1. DOMAIN next = AllNodes
    BY <1>1
  <2>2. start = s[1]
    BY <1>2 DEF Packets
  <2>3. ASSUME NEW k \in 1 .. Len(s)
        PROVE  next[s[k]] = IF k = Len(s) THEN NoNode ELSE s[k+1]
    <3>1. s[k] = start + k - 1 /\ s[k] \in Packets /\ s[k] <= end
      BY <1>2, <1>3 DEF Packets
    <3>2. next[s[k]] = IF s[k] < list_current_write THEN s[k] + 1 ELSE NoNode
      BY <1>1, <3>1
    <3>3. CASE k = Len(s)
      <4>1. s[k] = end
        BY <1>2, <1>3, <3>1, <3>3 DEF Packets
      <4>2. ~ (end < list_current_write)
        BY <1>1 DEF end, AllNodes, Packets, NoNode
      <4> QED
        BY <3>2, <3>3, <4>1, <4>2
    <3>4. CASE k # Len(s)
      <4>1. s[k] < end /\ s[k+1] = s[k] + 1
        BY <1>2, <1>3, <3>1, <3>4 DEF Packets
      <4>2. s[k] < list_current_write
        BY <1>1, <3>1, <4>1 DEF end, Packets
      <4> QED
        BY <3>2, <3>4, <4>1, <4>2
    <3> QED
      BY <3>3, <3>4
  <2>4. \A j, k \in 1 .. Len(s) : s[j] = s[k] => j = k
    BY <1>2, <1>3 DEF Packets
  <2> QED
    <3> HIDE DEF s
    <3> QED BY <1>3, <2>1, <2>2, <2>3, <2>4 DEF IsChain
<1>5. Chain(next, start, NoNode) = s
  <2>1. IsFiniteSet(AllNodes) /\ NoNode \notin AllNodes
    BY FS_Interval DEF AllNodes, NoNode
  <2> HIDE DEF s
  <2> QED
    BY <1>1, <1>4, <2>1, ChainIs
<1>6. \A p \in ToSet(s) : p >= start
  BY <1>2 DEF ToSet, Packets
<1> QED
  BY <1>5, <1>6

LEMMA NothingAhead ==
  ASSUME IInv
  PROVE  Chain(next, NoNode, NoNode) = <<>>
<1>1. next \in [AllNodes -> AllNodes \cup {NoNode}]
  BY DEF IInv, TypeOK, AllNodes
<1>2. IsFiniteSet(AllNodes) /\ NoNode \notin AllNodes
  BY BoundsAssumption, FS_Interval DEF AllNodes, NoNode
<1>3. IsChain(<<>>, next, NoNode, NoNode)
  BY DEF IsChain
<1> QED
  BY <1>1, <1>2, <1>3, ChainIs

LEMMA KilledBetween == IInv => KilledBetweenPackets
<1> SUFFICES ASSUME IInv, pc = "killed", Len(sent) > 1
             PROVE  ToSet(sent) \cap Ahead = {}
  BY DEF KilledBetweenPackets
<1>1. /\ Passed /\ sent \in Seq(Packets)
      /\ list_current_send \in AllNodes \cup {NoNode}
  BY DEF IInv, TypeOK, Ascending, AllNodes
<1>2. Ahead = ToSet(Chain(next, list_current_send, NoNode))
  BY DEF Ahead
<1>3. CASE list_current_send = NoNode
  BY <1>2, <1>3, NothingAhead DEF ToSet
<1>4. CASE list_current_send # NoNode
  <2>1. 1 \in DOMAIN sent /\ sent[1] \in Packets /\ sent[1] < list_current_send
    BY <1>1, <1>4 DEF Passed
  <2>2. list_current_send \in Packets
    BY <1>1, <1>4, <2>1, BoundsAssumption DEF AllNodes, Packets
  <2>3. \A p \in Ahead : p >= list_current_send
    BY <1>2, <2>2, AheadOf
  <2>4. \A p \in ToSet(sent) : p \in Packets /\ p < list_current_send
    BY <1>1, <1>4 DEF Passed, ToSet
  <2> QED
    BY <2>2, <2>3, <2>4, BoundsAssumption DEF Packets
<1> QED
  BY <1>3, <1>4
-----------------------------------------------------------------------------
(***************************************************************************)
(* The variables of the two threads keep their types: the pointers point   *)
(* to nodes and the counters stay below the number where they wrap.        *)
(***************************************************************************)
THEOREM TypeCorrect == Spec => []TypeOK
<1>1. IInv => TypeOK
  BY DEF IInv
<1> QED
  BY <1>1, Invariance, PTL

(***************************************************************************)
(* The thread never follows the null pointer, although the condition it    *)
(* waits on is inverted (transport_udp.c:166).                             *)
(***************************************************************************)
THEOREM NullNeverRead == Spec => []NeverNull
<1>1. IInv => NeverNull
  BY DEF IInv, Following, NeverNull
<1> QED
  BY <1>1, Invariance, PTL

(***************************************************************************)
(* Whatever the two threads do to the list, packets leave in the order in  *)
(* which they were added, none of them twice.                              *)
(***************************************************************************)
THEOREM InOrder == Spec => []SentInOrder
<1>1. IInv => SentInOrder
  BY DEF IInv, Ascending, SentInOrder
<1> QED
  BY <1>1, Invariance, PTL

(***************************************************************************)
(* Until the adder's counter wraps, the thread's counter is the number of  *)
(* packets it has sent.                                                    *)
(***************************************************************************)
THEOREM Counted == Spec => []SentIsCounted
<1>1. IInv => SentIsCounted
  BY DEF IInv
<1> QED
  BY <1>1, Invariance, PTL

(***************************************************************************)
(* SIGUSR1 does not end the thread between sending a packet and taking it  *)
(* off the list, but in its first pass.                                    *)
(***************************************************************************)
THEOREM NotWhileSending == Spec => []KilledBetweenPackets
BY KilledBetween, Invariance, PTL
=============================================================================
