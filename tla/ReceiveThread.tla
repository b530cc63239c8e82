---------------------------- MODULE ReceiveThread ----------------------------
(***************************************************************************)
(* The thread that receives (worker_recv_from): it waits for a datagram,   *)
(* reads it into the transport's one buffer and hands it to the callback   *)
(* of whoever is attached.  It reads user_data before it waits, and        *)
(* attached after, and takes no lock.                                      *)
(*                                                                         *)
(* The application is external: nothing in src/ attaches to a transport,   *)
(* so that it sets user_data and attached is taken from how the thread     *)
(* uses them and from transport_udp.h.  The network delivers datagrams in  *)
(* order or not at all; one whose checksum is wrong makes the socket       *)
(* readable and is gone when recvfrom looks for it.                        *)
(***************************************************************************)
EXTENDS Integers, Sequences, FiniteSets

CONSTANTS
  Users,          (* the values of user_data                               *)
  NoUser,         (* the null pointer                                      *)
  MaxDatagrams,   (* bound: the datagrams that arrive                      *)
  MaxAttaches     (* bound: how often someone attaches                     *)

ASSUME NoUserAssumption  == NoUser \notin Users
ASSUME BoundsAssumption  == {MaxDatagrams, MaxAttaches} \subseteq Nat

VARIABLES
  user_data, attached,        (* of the transport                          *)
  recvfrom_thread_quit,
  signalled,                  (* SIGUSR2 was sent to the thread            *)
  inbox,                      (* the datagrams the socket holds, and       *)
                              (* whether each can be read                  *)
  arrived, attaches,          (* how many datagrams, how many attachments  *)
  pc,                         (* where the thread is                       *)
  user,                       (* its local copy of user_data               *)
  rtp_pkt,                    (* the datagram in the buffer, 0 at first    *)
  failures,                   (* how often recvfrom has failed             *)
  handed,                     (* the datagrams given to the callback       *)
  stale                       (* the calls with another user_data than the *)
                              (* transport's, since that has changed       *)

app     == <<user_data, attached, attaches>>
ending  == <<recvfrom_thread_quit, signalled>>
network == <<inbox, arrived>>
thread  == <<pc, user, rtp_pkt, failures, handed>>
vars    == <<app, ending, network, thread, stale>>

Init ==
  /\ user_data = NoUser /\ attached = FALSE /\ attaches = 0
  /\ recvfrom_thread_quit = FALSE /\ signalled = FALSE
  /\ inbox = <<>> /\ arrived = 0
  /\ pc = "start" /\ user = NoUser /\ rtp_pkt = 0 /\ failures = 0 /\ handed = <<>>
  /\ stale = 0
-----------------------------------------------------------------------------
(* ioctl makes the socket blocking, or the thread returns. *)
Start ==
  /\ pc = "start"
  /\ pc' \in {"top", "end"}
  /\ UNCHANGED <<app, ending, network, user, rtp_pkt, failures, handed, stale>>

(* Variant of UserRead: user_data is read for the first datagram only. *)
UserReadOnce == IF user = NoUser THEN user_data ELSE user

UserRead == user_data

Top ==
  /\ pc = "top"
  /\ IF recvfrom_thread_quit THEN pc' = "end" /\ UNCHANGED user
                 ELSE pc' = "select" /\ user' = UserRead
  /\ UNCHANGED <<app, ending, network, rtp_pkt, failures, handed, stale>>

(* Variant of Expires: select is not given a timeout. *)
ExpiresNever == FALSE

(* Nothing to read: after a tenth of a second select gives up. *)
Expires == inbox = <<>>

Timeout ==
  /\ pc = "select"
  /\ Expires
  /\ pc' = "top"
  /\ UNCHANGED <<app, ending, network, user, rtp_pkt, failures, handed, stale>>

Readable ==
  /\ pc = "select"
  /\ inbox # <<>>
  /\ pc' = "recvfrom"
  /\ UNCHANGED <<app, ending, network, user, rtp_pkt, failures, handed, stale>>

(* select fails: break. *)
SelectError ==
  /\ pc = "select"
  /\ pc' = "end"
  /\ UNCHANGED <<app, ending, network, user, rtp_pkt, failures, handed, stale>>

(* Variant of Left: the datagram is only looked at. *)
LeftAll == inbox

Left == Tail(inbox)

(* recvfrom, whose result is not looked at: a failure leaves the last      *)
(* datagram in the buffer.                                                 *)
ReceiveFrom ==
  /\ pc = "recvfrom"
  /\ LET datagram == Head(inbox) IN
       IF datagram.valid
       THEN rtp_pkt' = datagram.number /\ UNCHANGED failures
       ELSE failures' = failures + 1 /\ UNCHANGED rtp_pkt
  /\ inbox' = Left
  /\ pc' = "attached"
  /\ UNCHANGED <<app, ending, arrived, user, handed, stale>>

(* The callback, if someone is attached now. *)
Attached ==
  /\ pc = "attached"
  /\ pc' = IF attached THEN "cb" ELSE "top"
  /\ UNCHANGED <<app, ending, network, user, rtp_pkt, failures, handed, stale>>

rtp_cb ==
  /\ pc = "cb"
  /\ handed' = Append(handed, rtp_pkt)
  /\ stale' = IF user # user_data THEN stale + 1 ELSE stale
  /\ pc' = "top"
  /\ UNCHANGED <<app, ending, network, user, rtp_pkt, failures>>

(* pthread_exit: nothing blocks SIGUSR2. *)
vid_recv_from_exit_deal ==
  /\ signalled
  /\ pc # "end"
  /\ pc' = "end"
  /\ UNCHANGED <<app, ending, network, user, rtp_pkt, failures, handed, stale>>

ThreadStep ==
  \/ Start \/ Top \/ Timeout \/ Readable
  \/ ReceiveFrom \/ Attached \/ rtp_cb
-----------------------------------------------------------------------------
Arrive(valid) ==
  /\ arrived < MaxDatagrams
  /\ arrived' = arrived + 1
  /\ inbox' = Append(inbox, [number |-> arrived + 1, valid |-> valid])
  /\ UNCHANGED <<app, ending, thread, stale>>

Attach(u) ==
  /\ ~ attached
  /\ attaches < MaxAttaches
  /\ user_data' = u /\ attached' = TRUE /\ attaches' = attaches + 1
  /\ stale' = 0
  /\ UNCHANGED <<ending, network, thread>>

Detach ==
  /\ attached
  /\ user_data' = NoUser /\ attached' = FALSE
  /\ stale' = 0
  /\ UNCHANGED <<attaches, ending, network, thread>>

Quit ==
  /\ ~ recvfrom_thread_quit
  /\ recvfrom_thread_quit' = TRUE
  /\ UNCHANGED <<app, signalled, network, thread, stale>>

Signal ==
  /\ ~ signalled
  /\ signalled' = TRUE
  /\ UNCHANGED <<app, recvfrom_thread_quit, network, thread, stale>>

Next ==
  \/ ThreadStep \/ SelectError \/ vid_recv_from_exit_deal
  \/ \E valid \in BOOLEAN : Arrive(valid)
  \/ \E u \in Users : Attach(u)
  \/ Detach \/ Quit \/ Signal

(* The thread is scheduled: select and recvfrom have timeouts, and the     *)
(* callback returns.  A signal is delivered.  Nobody else has to do         *)
(* anything, and select need not fail.                                     *)
Spec ==
  Init /\ [][Next]_vars /\ WF_vars(ThreadStep) /\ WF_vars(vid_recv_from_exit_deal)
-----------------------------------------------------------------------------
Previous(k) == IF k = 1 THEN 0 ELSE handed[k-1]

(***************************************************************************)
(* The callback gets the datagrams in the order they arrived in, and one   *)
(* of them again, or what was in the buffer before the first, only when a  *)
(* recvfrom has failed, which the thread does not notice.                  *)
(***************************************************************************)
HandedInOrder ==
  /\ \A k \in DOMAIN handed : Previous(k) <= handed[k]
  /\ Cardinality({k \in DOMAIN handed : Previous(k) = handed[k]}) <= failures

(***************************************************************************)
(* user_data is valid only when attached (transport_udp.h:111), and the    *)
(* thread may use one that is not: it has read it before it waited.  But   *)
(* that happens at most once after someone has attached or detached.       *)
(***************************************************************************)
StaleOnce == stale <= 1

(***************************************************************************)
(* A thread that is told to quit ends, whatever arrives and whoever        *)
(* attaches: it never waits for a datagram for ever.                       *)
(***************************************************************************)
ReceiverEnds == recvfrom_thread_quit \/ signalled ~> pc = "end"
=============================================================================
