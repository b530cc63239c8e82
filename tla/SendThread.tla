----------------------------- MODULE SendThread -----------------------------
(***************************************************************************)
(* The thread that sends (worker_thread_sendto) and the one that adds      *)
(* packets to its list (packet_list_node_add), which share the list header *)
(* without a lock.  The steps are the accesses of one of them that the     *)
(* other can tell apart.                                                   *)
(*                                                                         *)
(* Nothing in src/ sets udp->mem_list, so the thread gives no buffer back, *)
(* every packet has a node of its own, and a node is named by the number   *)
(* of its packet; node 0 is the one without bytes that packet_list_reset   *)
(* begins a list with.  The thread's mutex guards that call only, and no   *)
(* one else takes it, so it is not a variable.                             *)
(*                                                                         *)
(* The thread ends when it is told to quit or by SIGUSR1, which it lets    *)
(* through in one place of its loop, and before the first pass if the      *)
(* thread that created it does.                                            *)
(***************************************************************************)
EXTENDS Integers, Sequences, SequencesExt, LinkedLists

CONSTANTS
  MaxLoop,   (* MAX_LOOP_NUM, where the counters wrap                      *)
  MaxAdds    (* a bound: the packets that are added                        *)

ASSUME BoundsAssumption == MaxLoop \in Nat /\ MaxAdds \in Nat

NoNode == -1
Packets == 1 .. MaxAdds

VARIABLES
  list_current_send, list_current_write, list_write_size, list_send_size,
  next,        (* of every node                                            *)
  added,       (* the packets of which packet_list_node_add was called     *)
  adding,      (* how far the last of those calls is                       *)
  pc,          (* where the thread is                                      *)
  new_node,    (* the node it sends                                        *)
  after,       (* the value of list_current_send->next that it has read    *)
  sent,        (* the packets it has given to sendto, in order             *)
  quit,        (* sendto_thread_quit                                       *)
  signalled,   (* SIGUSR1 was sent to the thread and is pending            *)
  blocked,     (* the thread blocks SIGUSR1                                *)
  wrapped      (* whether list_write_size has wrapped                      *)

adder  == <<list_current_write, list_write_size, next, added, adding, wrapped>>
thread == <<list_send_size, pc, new_node, after, sent>>
signal == <<signalled, blocked>>
vars   == <<list_current_send, adder, thread, quit, signal>>

(* The list is as packet_list_create or as packet_list_reset leaves it. *)
Init ==
  /\ list_current_send \in {NoNode, 0}
  /\ list_current_write = list_current_send
  /\ list_write_size = 0 /\ list_send_size = 0
  /\ next = [n \in 0 .. MaxAdds |-> NoNode]
  /\ added = 0 /\ adding = "done"
  /\ pc = "top" /\ new_node = NoNode /\ after = NoNode
  /\ sent = <<>>
  /\ quit = FALSE /\ wrapped = FALSE
  /\ signalled = FALSE /\ blocked \in BOOLEAN
-----------------------------------------------------------------------------
(* packet_list_node_add: a buffer with the packet, the count, the head of  *)
(* an empty list, and the end of the list.                                 *)
Copy ==
  /\ adding = "done"
  /\ added < MaxAdds
  /\ added' = added + 1
  /\ adding' = "count"
  /\ UNCHANGED <<list_current_send, list_current_write, list_write_size, next, wrapped,
                 thread, quit, signal>>

CountWritten ==
  /\ adding = "count"
  /\ list_write_size' = IF list_write_size = MaxLoop THEN 0 ELSE list_write_size + 1
  /\ wrapped' = (wrapped \/ list_write_size = MaxLoop)
  /\ adding' = "head"
  /\ UNCHANGED <<list_current_send, list_current_write, next, added, thread, quit, signal>>

BeginList ==
  /\ adding = "head"
  /\ list_current_send' = IF list_current_send = NoNode THEN added ELSE list_current_send
  /\ adding' = "tail"
  /\ UNCHANGED <<list_current_write, list_write_size, next, added, wrapped, thread, quit, signal>>

Linked ==
  IF list_current_write = NoNode THEN next
  ELSE [next EXCEPT ![list_current_write] = added]

ExtendList ==
  /\ adding = "tail"
  /\ next' = Linked
  /\ list_current_write' = added
  /\ adding' = "done"
  /\ UNCHANGED <<list_current_send, list_write_size, added, wrapped, thread, quit, signal>>

AddStep == CountWritten \/ BeginList \/ ExtendList
-----------------------------------------------------------------------------
(* Variants of Ready: the list is not looked at, and a node is left until  *)
(* there is another one.                                                   *)
ReadyAlways  == TRUE
ReadyForNext == list_current_send # NoNode /\ next[list_current_send] # NoNode

(* The loop of worker_thread_sendto sleeps while there is no node. *)
Ready == list_current_send # NoNode

HasBytes(node) == node # 0

Top ==
  /\ pc = "top"
  /\ quit \/ Ready
  /\ IF quit THEN pc' = "end" /\ UNCHANGED new_node
     ELSE /\ new_node' = list_current_send
          /\ pc' = IF HasBytes(list_current_send) THEN "send" ELSE "wait"
  /\ UNCHANGED <<list_current_send, adder, list_send_size, after, sent, quit, signal>>

(* A packet that sendto fails to send is not sent again. *)
SendTo ==
  /\ pc = "send"
  /\ sent' = Append(sent, new_node)
  /\ pc' = "count"
  /\ UNCHANGED <<list_current_send, adder, list_send_size, new_node, after, quit, signal>>

(* Variant of SendCount: the comparison is off by one. *)
SendCountStrict ==
  IF list_send_size = MaxLoop THEN 0
  ELSE IF list_send_size + 1 < list_write_size THEN list_send_size + 1
  ELSE list_send_size

SendCount ==
  IF list_send_size = MaxLoop THEN 0
  ELSE IF list_send_size < list_write_size THEN list_send_size + 1
  ELSE list_send_size

CountSent ==
  /\ pc = "count"
  /\ list_send_size' = SendCount
  /\ pc' = "wait"
  /\ UNCHANGED <<list_current_send, adder, new_node, after, sent, quit, signal>>

(* The second operand of a conjunction of which the first is that there is *)
(* no node reads the next pointer of that node: the loop waits for nothing.*)
Wait ==
  /\ pc = "wait"
  /\ pc' = IF ~ quit /\ list_current_send = NoNode THEN "null" ELSE "read"
  /\ UNCHANGED <<list_current_send, adder, list_send_size, new_node, after, sent, quit, signal>>

ReadNext ==
  /\ pc = "read"
  /\ IF list_current_send = NoNode
     THEN pc' = "null" /\ UNCHANGED after
     ELSE pc' = "store" /\ after' = next[list_current_send]
  /\ UNCHANGED <<list_current_send, adder, list_send_size, new_node, sent, quit, signal>>

(* Variant of StoredNext: back to the node that was sent if there is none. *)
StoredSame == IF after = NoNode THEN new_node ELSE after

StoredNext == after

StoreNext ==
  /\ pc = "store"
  /\ list_current_send' = StoredNext
  /\ pc' = "window"
  /\ UNCHANGED <<adder, list_send_size, new_node, after, sent, quit, signal>>

(* Variant of Unblock: the mask is set that blocks the signal.             *)
UnblockWrongMask ==
  /\ pc = "window"
  /\ blocked' = TRUE
  /\ pc' = "mutex"
  /\ UNCHANGED <<list_current_send, adder, list_send_size, new_node, after, sent, quit,
                 signalled>>

(* SIGUSR1 is let through, and comes now if it is pending; the mutex is    *)
(* taken and released, ...                                                 *)
Unblock ==
  /\ pc = "window"
  /\ blocked' = FALSE
  /\ pc' = IF signalled THEN "killed" ELSE "mutex"
  /\ UNCHANGED <<list_current_send, adder, list_send_size, new_node, after, sent, quit,
                 signalled>>

(* Variant of Blocked: the signal is left to come at any time. *)
BlockedNever == FALSE

Blocked == TRUE

(* ... and SIGUSR1 is blocked again.                                       *)
Block ==
  /\ pc = "mutex"
  /\ blocked' = Blocked
  /\ pc' = "top"
  /\ UNCHANGED <<list_current_send, adder, list_send_size, new_node, after, sent, quit,
                 signalled>>

(* pthread_exit, wherever the thread is, if it does not block the signal. *)
vid_sendto_exit_deal ==
  /\ pc \notin {"end", "null", "killed"}
  /\ signalled /\ ~ blocked
  /\ pc' = "killed"
  /\ UNCHANGED <<list_current_send, adder, list_send_size, new_node, after, sent, quit,
                 signal>>

ThreadStep ==
  Top \/ SendTo \/ CountSent \/ Wait \/ ReadNext \/ StoreNext \/ Unblock \/ Block

(* The application asks the thread to stop. *)
Quit ==
  /\ ~ quit
  /\ quit' = TRUE
  /\ UNCHANGED <<list_current_send, adder, thread, signal>>

(* The application sends SIGUSR1 to the thread. *)
Signal ==
  /\ ~ signalled
  /\ signalled' = TRUE
  /\ UNCHANGED <<list_current_send, adder, thread, quit, blocked>>

Next == Copy \/ AddStep \/ ThreadStep \/ vid_sendto_exit_deal \/ Quit \/ Signal

Spec == Init /\ [][Next]_vars

(* Both threads are scheduled; nobody has to add a packet, to quit or to   *)
(* signal, and a signal that comes while the thread lets it through need   *)
(* not take effect before the thread blocks it again.                      *)
FairSpec == Spec /\ WF_vars(AddStep) /\ WF_vars(ThreadStep)
-----------------------------------------------------------------------------
(* The nodes the thread will come to: those from list_current_send on, or  *)
(* from the node it is about to store there.                               *)
Ahead ==
  LET start == IF pc = "store" THEN after ELSE list_current_send
  IN  ToSet(Chain(next, start, NoNode))

Returned == IF adding = "done" THEN added ELSE added - 1

(***************************************************************************)
(* The type of every variable.                                             *)
(***************************************************************************)
TypeOK ==
  /\ {list_current_send, list_current_write, new_node, after}
       \subseteq 0 .. MaxAdds \cup {NoNode}
  /\ {list_write_size, list_send_size} \subseteq 0 .. MaxLoop
  /\ next \in [0 .. MaxAdds -> 0 .. MaxAdds \cup {NoNode}]
  /\ added \in 0 .. MaxAdds
  /\ adding \in {"count", "head", "tail", "done"}
  /\ pc \in {"top", "send", "count", "wait", "read", "store", "window", "mutex",
            "end", "null", "killed"}
  /\ sent \in Seq(Packets)
  /\ {quit, wrapped, signalled, blocked} \subseteq BOOLEAN

(***************************************************************************)
(* The thread never follows a null pointer, although the condition of its  *)
(* loop (transport_udp.c:166) and the line behind it would: only the       *)
(* thread itself takes list_current_send back to null.                     *)
(***************************************************************************)
NeverNull == pc # "null"

(***************************************************************************)
(* The thread sends packets in the order in which they were added and none *)
(* of them twice, however its steps and those of the adder interleave.     *)
(***************************************************************************)
SentInOrder == \A j, k \in DOMAIN sent : j < k => sent[j] < sent[k]

(***************************************************************************)
(* Until list_write_size wraps, list_send_size is the number of packets    *)
(* sent, though the thread counts only as far as the adder has: a packet   *)
(* is counted by the adder before it can be sent.  A thread that is killed *)
(* may leave it behind.                                                    *)
(***************************************************************************)
SentIsCounted ==
  ~ wrapped /\ pc # "killed" =>
    Len(sent) = list_send_size + (IF pc = "count" THEN 1 ELSE 0)

(***************************************************************************)
(* A packet the thread will come to is sent, unless the thread is told to  *)
(* stop: no later packet can cut it off the list.                          *)
(***************************************************************************)
AheadIsSent == \A p \in Packets : p \in Ahead ~> p \in ToSet(sent) \/ quit \/ signalled

(***************************************************************************)
(* The thread ends when it is told to quit, and when it is signalled while *)
(* there is a packet it will come to: the signal may wait for the window,  *)
(* but is neither lost nor waited for in vain.                             *)
(***************************************************************************)
ThreadEnds == quit \/ (signalled /\ Ahead # {}) ~> pc \in {"end", "killed"}

(***************************************************************************)
(* The signal ends the thread between two packets: of those still on the   *)
(* list none has been sent.  Only in its first pass may it find the thread *)
(* with a packet that is sent and not yet taken off.                       *)
(***************************************************************************)
KilledBetweenPackets ==
  pc = "killed" /\ Len(sent) > 1 => ToSet(sent) \cap Ahead = {}

(***************************************************************************)
(* packet_list_node_add copies the packet into the list of the thread and  *)
(* returns (packets_list.c:262): a packet whose call has returned is on    *)
(* the list, in front of the thread, until it is sent.                     *)
(***************************************************************************)
OnTheList == \A p \in 1 .. Returned : p \in Ahead \cup ToSet(sent)
=============================================================================
