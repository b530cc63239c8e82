# VideoRtc: a TLA+ model of its packetizers, its buffers and its threads

VideoRtc reads an Annex B file, cuts its NAL units into RTP payloads (H.264 and
H.265), puts payloads together again, and has the parts of a UDP transport with
threads of its own. This directory holds the specification of what that code
does, the configurations that model-check it, and proofs of what matters most.

Everything is translated from the C sources; `PROJECT.json` names for every
definition the lines it stands for, and for every property the mutant of the
code that it catches.

- [The system](#the-system)
- [The modules](#the-modules)
- [What the runs check](#what-the-runs-check)
- [What is proved](#what-is-proved)
- [Where the code and its words part](#where-the-code-and-its-words-part)
- [What is not modelled](#what-is-not-modelled)
- [Plan](#plan)

## The system

| Component | State | Operations | Talks to |
|---|---|---|---|
| H.264 packetizer, `packed/h264_packetizer.c:155-443`, and `h264_test`, `UnitTest.c:151-174` | the bitstream, which it overwrites, and the position in it; no state of its own but mode and MTU | one call, one payload; `h264_test` calls until the position is at the end | main hands it one NAL unit at a time |
| H.264 unpacketizer, `packed/h264_packetizer.c:452-643` | `unpack_prev_lost`, `unpack_last_sync_pos`; the caller's bitstream and position | one call per payload or, with a null payload, per loss | an application outside `src/` |
| H.265 packetizer, `packed/h264_packetizer.c:697-920`, and `h265_test`, `UnitTest.c:176-198` | one static `pkt_msg` that outlives calls and bitstreams | one call, one payload | whoever calls `h265_test`; nobody in `src/` does |
| H.265 unpacketizer, `packed/h264_packetizer.c:664-695, 922-1077` | none; the caller's buffer and position | one call per RTP packet, whose header it parses; nothing for a loss | an application outside `src/` |
| Memory list, `packed/packets_list.c:10-196` | two doubly linked lists of blocks, in use and free | malloc, free, destroy | the packet list, and the send thread |
| Packet list, `packed/packets_list.c:199-340` | a list header (`list_current_send`, `list_current_write`, two counters, two flags) and a memory list | create, reset, add, get, offset, destroy | its client; nobody in `src/` calls it |
| Send thread, `transport_udp.c:44-186` | the same list header, in `transport_udp` | the loop: take, send, count, advance, give back | whoever adds packets; a socket; SIGUSR1 |
| Receive thread, `transport_udp.c:34-38, 196-300` | one packet buffer; `user_data`, `attached` and the quit flag of the transport | select, recvfrom, callback | a socket; the application's callback; SIGUSR2 |
| UDP transport, `transport_udp.c:304-401` | the sockets, two mutexes | create, destroy, stubs | nobody |
| Annex B reader and main, `NALDecoder.c`, `UnitTest.c:200-238` | the file position | the next NAL unit | `h264_test` |
| Denoiser, `UnitTest.c:40-145` | two moments per pixel, a frame counter | one frame | nobody |

What is hard in it, and what makes each part correct:

- **Packetizer.** It works in place. A fragment's two header octets overwrite
  the two bytes in front of its data, and the next call reads NRI and type back
  from exactly one MTU earlier. It searches for start codes in windows whose
  borders move with the lengths of the NAL units. It is correct if a receiver
  gets the NAL units byte for byte, if no payload exceeds the MTU (the output
  array is that long), and if each call moves on (the loop ignores its status).
- **Unpacketizer.** Its state outlives pictures, and after a loss it goes back
  to a sync point. It is correct if a loss costs the NAL unit it hits, no
  complete one, and never leads to a unit with a hole; and if it stays in the
  buffer.
- **Memory list.** Four pointers and two links per block, maintained branch by
  branch; `free_last` is stale at times. Correct if no block is leaked, used
  twice or reached through a stale link, and no assertion fails.
- **Packet list.** Nodes are given back while pointers to them remain; counters
  wrap. Correct if packets come out once and in order, and if the overflow check
  bounds the list.
- **Send thread.** It shares the list header with the adding thread without a
  lock. Correct if it never follows a null pointer, sends in order, nothing
  twice, and in the end everything; and if the flag or SIGUSR1 ends it, the
  signal between two packets only.
- **Receive thread.** It reads the transport's fields while the application
  attaches and detaches, and looks at no result. Correct if it hands over what
  arrives in order, uses a `user_data` that is gone at most once, and ends.
- **H.265 packetizer.** Three lengths decide where a payload ends, whether a
  unit is fragmented and whether a fragment is the last one, each counted with
  or without a start code, whose length is taken from the first one. Correct for
  the bitstreams for which the three agree.
- **H.265 unpacketizer.** It is not told of losses and hands its buffer over on
  an E bit alone. Correct if a unit that lost nothing is received.
- **Reader and main.** The end of a file and a start code are noticed after they
  are read. Correct if every unit of the file is sent and the program ends.

`PROJECT.json` lists 40 hazards at their lines, each with the properties that
watch it or the reason why none does.

## The modules

```
Bitstream ---> H264Packetizer ----> H264PacketizerProofs     RFC6184 (reference receiver)
   |  |   \         |  |  ^ MCH264Packetizer                    |
   |  |    \        |  +-------------------------> Program <----+---- AnnexB (reference parser)
   |  |     \       v                               ^   ^ MCProgram
   |  |      \  H264Session --implements--> NalTransfer |
   |  |       \     ^  ^ MCH264Session, H264SessionProofs
   |  |        v    |                               |
   |  |   H264Unpacketizer ---> H264Losses ---> H264UnpacketizerProofs
   |  |                             ^ MCH264Unpacketizer
   |  +---------------> AnnexBReader ---------------+
   +---> H265Packetizer, H265Unpacketizer ---> H265Session <--- MCH265Session

LinkedLists ---> MemoryList, PacketList, SendThread       LinkedListTheorems
                     |           |           |                 | (lemmas for)
                     v           v           v                 v
                 MemoryListProofs, PacketListProofs, SendThreadProofs

MemoryList --implements--> MemoryPool <--uses-- PacketList --implements--> PacketQueue
                                                    ^ MCPacketList
ReceiveThread ---> ReceiveThreadProofs
```

**Bitstream.** A buffer is a function from offsets to bytes, a pointer an
offset. `find_next_nal_unit` is stated by what the loop finds, the smallest
offset of a code, not by the loop.

**H264Packetizer.** The state is the bitstream (`buf`, and `picture`, its bytes
before the first call), `pos` (`*pos`, `enc_packed_pos`), the status and the
payloads so far. A step is a whole call; the locals of a call (`start_code`,
`nal_start`, `window`, `nal_end`, ...) are operators of the state before it, and
each way through the function is an action: `TooSmall`, `Cancel`,
`FirstFragment`, `NextFragment`, `SingleNal`, `NullOctet`. `mode` is what the
packetizer was created with; no call changes it. `h264_test(pic)`
starts the loop on another bitstream. Bytes are real bytes, for the code's
correctness hangs on which of them are overwritten. The MTU is small in the runs
(5) and any number above 2 in the proofs.

**RFC6184.** A receiver written from the payload format, sharing nothing with
the repository's own: `RoundTrip` holds the packetizer against it.

**H264Unpacketizer.** The bitstream is the sequence of pieces the calls have
appended, a piece beginning with a start code or continuing what is there; the
positions are numbers of pieces, and bytes count only where the code compares
them with the buffer (`BytesOf`, `Room`). Payloads are records by kind. A failed
`pj_assert` ends the process, for `NDEBUG` is not defined: `NO_ROOM`,
`SYNC_AHEAD`. In `FuNoRoom` the assignment behind the assertion (585) is
therefore never reached. A STAP-A payload's trailing invalid size ends the loop
with `PJ_EINVAL`; `*bits_pos` keeps what the complete units made of it, and the
start code already written behind it counts in `StapOverrun` only. The loop
begins a unit while a byte is left in the buffer (540): `StapTaken` is how many
it takes, `StapOverrun` that there was no room for all of the last one. Nothing
is defined after that, and the model stops (`OVERRUN`).

**H264Losses.** The unpacketizer with a history variable, `holes`: the places
where a payload is missing, because it was lost, too short or discarded. It is
what happened, not what `unpack_prev_lost` remembers of it, and no guard reads
it.

**H264Session.** A sender (`Tx`), a receiver (`Rx`) and a channel that hands
over payloads in order or loses them; a loss is told to the receiver, as
`h264_packetizer.h:173` asks of the application. `Read` is how the receiver
parses the octets. The receiver's buffer begins anew with each picture, its
`prev_lost` and sync point do not. `ProperUnit` is what H.264 says of a NAL
unit: pictures consist of them.

**NalTransfer** (abstract). NAL units arrive in order; units may be missing, and
one that was interrupted may have lost its end, but nothing is taken back and
nothing has a hole. `H264Session` implements it with `arrived` as the units in
front of the sync point.

**LinkedLists.** `Chain` is the sequence of nodes that a loop
`while (n != NULL) n = n->next` comes to, `Only` what a loop does that handles
some of them. `LinkedListTheorems` has the lemmas about them.

**MemoryList.** `next` and `prev` of every block, and the four pointers of the
list; the actions are the branches of malloc and free. `asserts` collects the
lines of assertions that failed.

**MemoryPool** (abstract). A set in use, a FIFO of free blocks.
`MemoryList` implements it, and `PacketList` builds on it.

**PacketList.** The functions of the list are actions of their own. Their client
is not in `src/`; it does what the send thread's loop does: it adds unless
`packet_list_check_overflow` says no, reads a node, and takes it off. It waits
for no successor, because the inverted condition of that loop (165-166) does not
either, so the last node is taken off as well, and `list_current_write` is left
with a buffer that was given back. The next add writes the link of that buffer.
If the memory list has another one, the new node is that other one (buffers are
reused oldest first), and nothing comes of it. If not, the new node *is* that
buffer, and is linked to itself: `Looped`. The reader then never comes to the end
of the list, until it is in use when the next packet is added and the memory list
has to ask for a second buffer; and `packet_list_reset`, which goes through the
list, does not return (`ResetHangs`). `spare` says that a node of the list is not
counted, as the one without bytes that a reset puts there is not.
`packet_list_create` leaves the two flags uninitialised, so `Init` and the step
leave them arbitrary. `NullNode` is a memory list that could not be made or that
has no memory: the callers do not look at the result.

**PacketQueue** (abstract). A FIFO whose packets are read once.

**SendThread.** Two threads, one step per access to shared state:
`packet_list_node_add` is `Copy`, `CountWritten`, `BeginList`, `ExtendList`; the
thread is `Top` (the loop condition, the test for a node, the node's size),
`SendTo`, `CountSent`, `Wait` (with the inverted condition as it stands),
`ReadNext`, `StoreNext`, and then `Unblock` and `Block`, the one place where
SIGUSR1 is let through; `vid_sendto_exit_deal` is the handler. Whether the
thread begins with the signal blocked is up to the thread that created it. The
mutex it takes there guards `memory_list_free`, which is never called for want
of a `mem_list`, and nobody else takes it; it is not a variable. Reading `list_current_send` twice in a step (109 and
126) is one step, for only the thread itself takes it from one node to another.
A failed `sendto` is a sent packet: the code goes on in the same way. The model
assumes that a word is read or written at once and that each thread's stores are
seen in program order. C promises neither for these unsynchronised accesses; the
Makefile's build does, without optimisation and on x86.

**ReceiveThread.** One step per access to shared state: `Top` (the quit flag and
`user_data`), `Timeout`, `Readable` or `SelectError` (what `select` returns),
`ReceiveFrom`, `Attached`, `rtp_cb`. A datagram is a number and whether it can
be read: one with a bad checksum makes the socket readable, and `recvfrom` fails
on it, which leaves the buffer as it was. The application, which nothing in
`src/` stands for, is taken from the fields of the transport: it sets
`user_data` and `attached` at any moment, and ends the thread by the flag or by
SIGUSR2, which nothing blocks.

**H265Packetizer.** As in `H264Packetizer` a step is a whole call, and the
locals are operators. `NewUnit` and `Continuation` are the two branches of
`packetize_rtp_payload_msg`, as records with the fields of `msg`; `header_len`,
`fu_packet` and `nal_type` are what `pkt_msg` holds after the `memset` of a call
at position 0. The call searches up to five bytes behind the bitstream:
`Beyond` are the bytes that may lie there. A negative length in `memcpy` is
`Overrun`. The payload array of `h265_test` has room for
`WITHIN_LENGTH`, as the comment at `RTP_H265_PAYLOAD_SIZE` wants it.

**H265Unpacketizer.** The returns in the order of the checks; the buffer is the
sequence of pieces up to `*pos`, and `FRAME` is the return of its length, with
which it is emptied. Of the RTP header only the length of the extension is kept,
which decides whether the packet is parsed.

**H265Session.** The two and a lossy channel. No fault of the channel is told to
the receiver, and a packet with too long an extension is as good as lost.
`Earlier` is sent first, so that the receiver's buffer and `pkt_msg` hold
something when the picture that is looked at begins.

**AnnexBReader.** A call of `GetAnnexbNALU` is a step: too little left
(`ShortRead`, with `feof` set), four bytes that are no start code (`NotACode`,
which are then behind the file position), or a unit (`Deliver`). What the loop
of the function finds byte by byte is stated as the next start code; `Overflow`
is the unit that is longer than `max_size`.

**Program.** `main`: it reads, skips a result below four, and runs the packetizer
until the unit is sent. **AnnexB** has the units of a file by the positions of
all its start codes, sharing nothing with the reader.

## What the runs check

| Run | Question | Bounds |
|---|---|---|
| `fragments` | Which bitstreams are sent to their end, and which are received? Is a call ever refused, does it ever stay where it is? | both kinds of mode, MTU 5. One NAL unit of 1 to 14 bytes (up to four payloads) with zero bytes at the fragment borders; every pair of lengths 1-12 and 1-9, all start codes: every remainder modulo the fragment size, twice; three NAL units; bitstreams without a start code or ending in one |
| `calls` | Does the unpacketizer keep its promises under any sequence of calls? | fifteen payloads: every flag combination that the code tells apart, aggregates of empty NAL units (the worst ratio of start codes to payload) of sixteen sizes, the most that there is room for, and of eighteen and nineteen; a buffer of 72 bytes, in which one of those is cut short and one overruns, and which fills after a few payloads |
| `loss` | What does a loss cost, and does a whole picture arrive after any history? | pictures of one NAL unit of 2 to 12 bytes, and of three of one to three payloads each; every subset of losses, any number of pictures |
| `file` | Which units of a file are sent, and does the program end? | all files of up to eight bytes 0, 1 and 101: every way that start codes, zeros and the end of the file can meet; files with two units of one to four payloads behind nothing, padding or other bytes; MTU 5; `max_size` 21, and one file that does not fit |
| `hevc` | Which H.265 bitstreams come out as they went in, what does a loss leave, and when is a picture not handed over? | a payload size of 8; units of every length up to three payloads, alone and in front of another with all start codes; access units of three; headers that are refused or not kept; no start code; two contents of the memory behind; extensions of 0 and 4 words (3 is the limit); one earlier picture and one more (`MaxPictures` 2), the packetizer stopped after eight payloads, two more than any of these needs |
| `pool` | Are the pointers of the memory list ever wrong? | four blocks: head, middle and tail on a list and one on the other |
| `client` | Is the packet list a queue, across resets, wraps and an empty heap? | four nodes, so that the memory list has none, one or several buffers to reuse; counters that wrap at 5 in a word of 8, a lead of 1, seven packets after each reset: both counters wrap and go on |
| `send_thread` | Do the unlocked threads send in order and to the end, and how does the thread end? | five packets, counters that wrap at 3; the flag and the signal at any moment |
| `receive` | What does the callback get, and with whose `user_data`? | two users, two attachments (one user after another, and one again), four datagrams, any of them bad |
| `vice_versa`, `marked`, `stranded` | see [below](#where-the-code-and-its-words-part) | |

Deadlock is off where the system may stop: an assertion has failed or the buffer
was overrun (`calls`), the process has read a null pointer, copied a negative
length or hangs (`fragments`, `client`, `hevc`), the program has ended (`file`), the thread has (`send_thread`,
`receive`), or a bounded number of packets or pictures is used up.

*Properties.* `RoundTrip` says exactly which bitstreams the packetizer gets
right: all in single NAL mode, and else those in which no NAL unit is
`Straddled` (its length puts the next start code on the border of a window).
What `h264_test` sends is one NAL unit at a time, so it never meets one.
`FragmentsFollow` and `NeverRefused` are about the in-place chain;
`EveryCallAdvances` about the loop that ignores the status. `CompleteUnitsKept`
is what going back to the sync point leaves alone, `NoHoleBridged` that a missing
payload is never papered over, whatever comes between it and the next unit:
`unpack_prev_lost` set too seldom or cleared too early would break it.
`SurvivorsArrive` and `NoSplice` are what the two add up to end to end.
`WithinBits` names the one kind of payload that the room checks let through
though there is no room for it. `FileArrives`
and `LastUnitsRead` hold the whole of `main` against the reference parser and
the reference receiver; `ProgramEnds` is its liveness.

`HevcRoundTrip` says exactly which H.265 bitstreams survive (`Faithful`): start
codes of one length; no unit `Split`, that is cut in two though it is not
fragmented, because its start code, or its own and the next one, make it too
long; a fragmented unit must have the header that the receiver makes up (first
bit 0, layer 0, temporal id 1), an unfragmented one a header that it accepts.
`SurvivorsReceived` says what a loss does not damage, and no more: what is left
of a torn unit hangs on to the one before it. `HeldBack` says exactly when the
receiver has a complete picture and does not hand it over. `CallsAdvance` and
`PayloadFitsWindow` are the loop and the array of `h265_test`.

`AssertsHold`, `NothingLeaks` and `Linked` are the pointers of the memory list.
`ListInUse`, `CountsAgree` and `LeadBounded` relate the packet list to its
buffers and its counters, a list that is linked to itself included;
`QueueUnlessLooped` is the refinement of `PacketQueue`, step by step, for all
steps but those to, on and from such a list. `SentInOrder`, `SentIsCounted`, `NeverNull` and
`AheadIsSent` are the send thread's; `KilledBetweenPackets` and `ThreadEnds` are
about the window in which SIGUSR1 is let through. `HandedInOrder`, `StaleOnce`
and `ReceiverEnds` are the receive thread's. The type invariants of
`MemoryList`, `PacketList` and `SendThread` are proved (`TypeCorrect`); no run
lists them.

*Fairness.* Only for liveness. `EveryPictureFinishes` assumes `WF(Send)` and
`WF(Deliver \/ Lose)`: the loop goes on calling, and a payload leaves the channel
one way or the other, which a receiver that counts sequence numbers makes true;
no fairness between delivery and loss, and none on `NextPicture`. `ProgramEnds`
assumes `WF(Next)`: the program has one thread, and it runs. `AheadIsSent` and
`ThreadEnds` assume weak fairness of the two threads, which the operating
system's scheduler gives, and none of the application's: it need not add a
packet or ask the thread to stop, and a signal that comes in the open window
need not take effect there, the next one will do. `ReceiverEnds` assumes weak
fairness of the thread's steps, `Timeout` among them because `select` is given a
tenth of a second, but not of `SelectError`; `recvfrom` on a readable socket
returns, and so, by assumption, does the callback. It also assumes that a signal
is delivered in the end.

*Symmetry* (`client`): the nodes are interchangeable, no operator chooses among
them, and the run checks safety and a safety refinement only.

*The wrap of the counters.* `CountsAgree` stops at the first wrap of a counter,
because from there on it is false: the counter of the reader moves only while it
is smaller than the writer's (326). The reader's can be the first to wrap, when
it takes off the uncounted node of a reset while both stand at `MAX_LOOP_NUM`.
What remains true is `LeadBounded`. With the real `MAX_LOOP_NUM` of 4000000000
the wrap takes four thousand million packets.

*What sixteen stands for.* The flat 32 bytes of line 529 are enough for an
aggregate of sixteen sizes (an invalid one counts), and the code does not limit
them; nor does the model. Sixteen is in the statement of `WithinBits`, not in an
assumption. The repository's aggregator makes up to 32 units (229), but is
compiled out (`HYT_PTT`).

## What is proved

Each component's theorems are in a module of its own, next to it. They hold for
every value of the constants that the assumptions below admit.

| Module | Theorem | Statement |
|---|---|---|
| `H264PacketizerProofs` | `TypeCorrect` | `Spec => []TypeOK`: `pos` stays inside the bitstream, bytes stay bytes |
| | `PayloadsFit` | `Spec => []PayloadFitsMtu` |
| | `Found` | `Spec => []NeverRefused` |
| | `Follow` | `Spec => []FragmentsFollow` |
| | `Advances` | `Spec => EveryCallAdvances` |
| | `WritesInside` | `Spec => InsideTheBuffer`: the octets a fragment writes, and those it reads back, are in the buffer |
| `H264UnpacketizerProofs` | `TypeCorrect` | `Spec => []TypeOK` |
| | `SyncPointInside` | `Spec => []SyncNeverAhead` |
| | `UnitsKept` | `Spec => CompleteUnitsKept` |
| | `HolesStayOpen` | `HoleSpec => []NoHoleBridged` |
| | `EnoughRoom` | `Spec => WithinBits`: only an aggregate of more than sixteen sizes gets behind the end of the buffer |
| `H264SessionProofs` | `NoUnitIsSpliced` | `Spec => []NoSplice` |
| | `SessionTransfers` | `Spec /\ []NoneStraddled => TransferSpec`, the refinement |
| | `UnitByUnit` | `Spec => TransferSpec` if every picture is one NAL unit, as those of `main` are |
| | `SurvivorsDoArrive` | `Spec => []SurvivorsArrive` for long units and a buffer with room (see below) |
| | `ReceiverRuns` | `Spec => [](NoneStraddled => Rx!Running)` for a buffer with room: no assertion of the receiver fails |
| | `SenderRoundTrips` | `Spec => [](NoneStraddled /\ pos = Len(picture) => Tx!Reassemble(payloads) = Tx!NalBytes)`: what a strict receiver makes of all payloads is what was sent |
| | `RoundTripUnitByUnit` | `Spec => []Tx!RoundTrip` if every picture is one NAL unit |
| `MemoryListProofs` | `TypeCorrect` | `Spec => []TypeOK` |
| | `NoAssertFails` | `Spec => []AssertsHold` |
| | `AllOnOneList` | `Spec => []NothingLeaks` |
| | `BothWays` | `Spec => []Linked` |
| | `Implements` | `Spec => PoolSpec`, the refinement |
| `PacketListProofs` | `TypeCorrect` | `Spec => []TypeOK` |
| | `InUse` | `Spec => []ListInUse` |
| | `Agree` | `Spec => []CountsAgree` |
| | `Bounded` | `Spec => []LeadBounded` |
| | `Implements` | `Spec => QueueUnlessLooped`, the refinement, as long as the list is not linked to itself |
| `SendThreadProofs` | `TypeCorrect` | `Spec => []TypeOK` |
| | `NullNeverRead` | `Spec => []NeverNull` |
| | `InOrder` | `Spec => []SentInOrder` |
| | `Counted` | `Spec => []SentIsCounted` |
| | `NotWhileSending` | `Spec => []KilledBetweenPackets` |
| `ReceiveThreadProofs` | `InOrder` | `Spec => []HandedInOrder` |
| | `UsedOnce` | `Spec => []StaleOnce` |

*Assumptions.* They are named in the modules, and TLC evaluates them on every
run.

- Packetizer: an MTU above 2, modes that exist, bitstreams of bytes
  (`MtuAssumption`, `ModesAssumption`, `PicturesAssumption`).
- Unpacketizer: `BitsLenAssumption`, and `PayloadsAssumption`: payloads are
  payloads, and an aggregate has at least one size, since one without is too
  short to be accepted.
- H.264 session: an MTU above 2, and pictures made of proper NAL units
  (`PicturesAssumption`): not empty, first bit 0, a type from 1 to 23, no start
  code inside and no zero byte at the end. The H.264 syntax gives all of it (the
  encoder puts emulation prevention bytes where a start code would arise);
  without it a receiver could not tell the units apart. For `NoSplice` and
  `TransferSpec` nothing is assumed about the size of the receiver's buffer: a
  full one stops the receiver, and what it holds by then still satisfies both.
- `SurvivorsDoArrive` has two hypotheses of its own, both met by the pictures of
  `loss`. `LongUnits`: a NAL unit has at least two octets; one of a single octet
  is refused by the receiver (the finding of `vice_versa`). `RoomFor`: `BitsLen`
  is at least the length of the picture, plus one for each NAL unit, because the
  receiver writes a start code of four bytes where the sender may have had one
  of three, plus six, because the check of line 582 counts both header octets of
  a fragment and a start code also where it writes neither. Without room the
  assertion behind that check ends the process, and what comes later does not
  arrive. `ReceiverRuns` has the second hypothesis only.
- Lists: the heap is finite and the null pointer is no block
  (`BlocksAssumption`, `NodesAssumption`); bounds and counters are natural
  numbers (`CountsAssumption`, `BoundsAssumption`).
- `LeadAssumption`, for `PacketList` only: `MaxLoop + BufSize < Word` and
  `2 * BufSize < MaxLoop`. `packet_list_check_overflow` takes the difference of
  two counters as an `int`; with a longer list a wrapped counter looks like one
  that has not. With `MAX_LOOP_NUM` and a `pj_uint32_t` it allows `bufsize` up
  to 294967294.
- `ReceiveThread`: the null pointer is no user (`NoUserAssumption`).

*The packetizer's argument.* `NeverRefused` is not inductive: that the next
call finds its place depends on what this one left in the buffer. The invariant
`IInv` adds two things to it. `Untouched`: from the position on, the buffer
holds the bytes it was given, because a call writes two bytes in front of the
data it sends and nothing else. `Ready`: the position is at a start code
(`AtCode`), or in the middle of a NAL unit (`Midway`), and then the last
payload is a fragment without E whose two header octets lie exactly one MTU
back. `Ready` gives the first or the second way out of `Cancel`'s guard, and the
NRI and type for `FragmentsFollow`. It is preserved because a fragment without E
has the length of the MTU exactly (lemma `Emit`), and a single NAL unit or a
last fragment ends at `nal_end`, which is a start code or the end of the
bitstream. `Advances` then follows from the bounds of one call (`CallBounds`,
`CallWellFormed`): the load ends behind the position.

*The unpacketizer's argument.* `SyncNeverAhead` needs that the sync point a call
will use, `sync_pos`, not the stored `last_sync_pos`, lies inside the bitstream:
the stored one may lie ahead after a new picture or an unsupported payload.
`SyncInside` says that, and `UnitsKept` uses it. `EnoughRoom` adds up lengths:
`Fits` (unless there was an overrun, the bytes so far are in the buffer) is
inductive because each payload but an aggregate is asked for in full, and an
aggregate of `n` NAL units unfolds to `2 * n` bytes more than it has behind its
first octet (`StapBytes`), and `2 * 16 <= 32 + 1`; with fifteen and an invalid
size, whose start code is written before the size is looked at, the 34 bytes
that this costs are exactly those there are (`StapFits`). So what overruns has
more than sixteen sizes. `HolesStayOpen` needs to know what the code remembers of
the holes: `HoleInv` says that while the bitstream *ends* in a hole `prev_lost`
is set. It is all the code has to know, because every other hole already has a
unit begun behind it; that it holds over pictures, aggregates with an invalid
size and every early return is the point of the proof.

*The session's argument.* It goes from bytes to units in four steps, and `Inv`
is the conjunction of what they need, under the condition that no NAL unit of
the picture is straddled.

1. The layout. `Geometry(pic, off)`: `off[k]` is where start code `k` lies. No
   start code is anywhere else (`CodesAre`, from `ProperUnit`), so the
   packetizer's searches, forward in their window and backward from its end, find
   what they look for (`CallAtUnit`, `CallWithin`). `Agrees` restricts this to
   what lies behind the position, because the bytes in front are overwritten.
2. The sender. A segment is a NAL unit with two positions in it.
   `Sending(off, segs)`: payload `k` carries segment `k` (`Reads`: kind, S and E
   bits, type and bytes), a segment begins where the one before it ends or, if
   that one ends its unit, at the beginning of the next one (`Follows`). To be
   preserved it has to say where the sender is: at a unit (`AtUnit`) or within
   one (`Within`), and then what is left of the unit has the remainder modulo
   the fragment size that it had at the first fragment, which is how *not
   straddled* excludes that a window ends in the next start code.
3. The receiver. `Taking(segs, got)`: each piece of the bitstream is a segment
   that was handed over, a piece that continues fits on the one before it without
   a hole (`Continues`), and the piece at the sync point ends its unit. What
   makes it inductive is the last conjunct: unless `prev_lost` is set, the last
   piece is the segment handed over last. So a fragment without S either
   continues what is there, or `prev_lost` keeps it out.
4. The units. `Join`ed, pieces are beginnings of NAL units in their order
   (`UnitsIs`, `AllPlaced`); and when the sync point moves on, the units in front
   of the old one are still there as they were (`AllGrown`), and the new ones
   come behind them. That is `NoSplice`, and with `TransferStep` a step of
   `NalTransfer`.
5. What arrives. `NoSplice` says that nothing wrong is there, `SurvivorsArrive`
   that nothing is missing, and for this `Inv` has a third part,
   `Keeping(segs, got)`. `Remembers`: if `prev_lost` is set, a payload of the NAL
   unit of the last payload was lost. So a fragment that makes the receiver go
   back belongs to a unit that is lost anyway. `Secures`: the last segment of a
   unit none of whose payloads was lost lies in front of the sync point, where
   going back does not reach it. `HoldsAll`: while nothing is lost the pieces are
   all of the segments. The receiver does one of three things with a payload
   (`Took`, `WentBack`, `Missed`), and `HandlesKeeps` goes through them; a unit of
   one octet would be a fourth, because a refused payload sets `prev_lost`
   though none was lost. At the end of a picture every unit has a segment that
   ends it (`AllSent`), `UnitIndex` counts the unit of a payload (`UnitIndexIs`),
   a unit whose end the receiver holds is in its picture (`UnitArrives`), and
   all segments together are the picture (`AllFilled`).
6. The room. The bytes the receiver holds up to a segment are at most those of
   the picture up to there and one for each unit (`BytesUpTo`), because segments
   do not overlap (`Ordered`); so there is room for every payload
   (`RoomEnough`), and `Roomy`, that the receiver runs, is inductive with `Inv`.
7. The reference receiver. `RoundTrip` judges the packetizer by `RFC6184`, which
   shares no definition with the repository's receiver. `PayloadIs` says that
   both read the same in a payload, also in one of a single octet, which the
   repository's receiver refuses (`ShortIsWhole`). Then the state of the reference
   receiver after a segment is known outright (`Reached`: the whole units up to
   there, and the beginning of the one that is not finished), each payload leads
   from one to the next (`ReceiveReaches`), and `ReassembleIs` says that
   `FoldLeft` goes through them in order.

`TransferSpec` is false of some pictures with a straddled unit: one of MTU - 2
octets in front of a four-byte start code is sent with the first byte of that
code behind it. Hence the hypothesis, which `UnitByUnit` discharges for the
sender that the repository has.

*The lists.* The invariants of the three components with linked lists speak of
the list as a sequence: `IsChain(s, next, head, null)` says that `s` is the
nodes from `head` on, none of them twice, and that the list ends. `ChainIs` then
says that `Chain` computes `s`, and `ChainAppend`, `ChainPutLast`, `ChainWithout`
and `ChainKept` what becomes of a list when a node is linked behind it, unlinked,
or when other links change. `Chain` is a recursive function; what it computes is
proved by an induction over the natural numbers whose hypothesis is a set
(`SetInduction`), because the library's theorems, whose hypothesis is an
operator, cannot be used.

*The memory list's argument.* `Lists(u, f)`: `u` and `f` are the two lists, they
share no block, they are all the blocks the heap has given, and `used_last` and
the `prev` pointers of the used list are right. It deliberately says nothing of
the `prev` pointers of free blocks and of `free_last` when that list is empty:
both are stale then, and no branch reads them. The refinement follows, because
every branch of malloc and free is one step of the pool on `u` and `f`.

*The packet list's argument.* A list is in one of two conditions. `ListIs(c)`:
the chain from `list_current_send` is `c`, it ends at `list_current_write`, its
nodes are the buffers in use, and only the first may have no bytes; and if it is
empty, `list_current_write` is the buffer that was given back *last*. That is
what makes an add behind the dangling pointer harmless: the memory list gives
the buffer that was given back first, and the two are the same only if there is
no other. Then the list comes into the second condition, `LoopedList`: the one
node, linked to itself, is the only buffer there is, in use or free; it leaves
that condition when an add finds it in use (`AddLooped`). `FreeNodes`: what was
given back is given back once and is not in use, so that a node that still
points into the list cannot be taken for a part of it. `CountsNow` is the
invariant behind `LeadBounded` and holds in both conditions: either the counters
differ by the number of counted nodes, or the writer's has wrapped to 0 and the
reader's stands at `MaxLoop - BufSize` or above, which the overflow check takes
for an overflow for ever, or at `MaxLoop` with one packet behind it, after which
both are 0 and agree again; or the reader's has wrapped alone, on an empty list,
and the writer's stands at `MaxLoop`, which is an overflow for ever, too.

*The send thread's argument.* `LinkedUp`: packets are linked one behind the
other up to the last one whose `packet_list_node_add` is through. `Following`:
the thread is at a node that exists, and between taking a node and leaving it
`list_current_send` is that node, because the adder writes it only when it is
null. `Ascending`: what was sent lies in front of where the thread is, or, while
it has not yet moved on, up to there. Together they give `SentInOrder` and
`NeverNull` although the wait condition is inverted. `FirstPass`: only in its
first pass can the thread run with SIGUSR1 unblocked outside the window.

*The receive thread's argument.* `InboxOrder` and `HandedOrder` order what is in
the socket, the buffer and the callback's hands. `RepeatsPaid`: every repetition
has a failed `recvfrom` of its own, also the repetition that is about to happen.
`ReadAnew`: once a stale `user_data` was used, the thread has read the present
one before it gets to the callback again.

*What stays with TLC.* Liveness (`EveryPictureFinishes`, `AheadIsSent`,
`ThreadEnds`, `ProgramEnds`, `ReceiverEnds`), which the prover does not reach.
What a whole transmission computes, with a reference receiver or parser on the
other side: `FileArrives`, `LastUnitsRead`,
`HevcRoundTrip`, `SurvivorsReceived`, `HeldBack`, and two parts of `RoundTrip`:
that a picture with a straddled unit is *not* received, and the modes other than
the session's (`SenderRoundTrips` is about `NON_INTERLEAVED`).
And, so far, `PayloadFitsWindow` and `CallsAdvance` of `H265Session`.

## Where the code and its words part

Three runs end in a counterexample, each of a sentence in the repository:

1. `vice_versa`: "Packetizes H.264 bitstream into RTP payload and vice versa"
   (`h264_packetizer.h:24`). A NAL unit of one octet is sent and then refused
   (`h264_packetizer.c:478`).
2. `marked`: "set the E bit ,mark as last fragment" (`h264_packetizer.c:903`). A
   unit that fills its last payload to the last byte is sent without an E bit
   (776, 810), and the receiver keeps it.
3. `stranded`: "copy the rtp pkg into the list of sendto thread and return"
   (`packets_list.c:262`). With the wait condition inverted
   (`transport_udp.c:165-166`) a packet can be linked behind a node that the
   thread has already left, and is never sent.

Two more sentences are not kept, and properties that hold say how far:

- "Validate bitstream length" (`h264_packetizer.c:528`). The condition (529) lets
  an aggregate of more than sixteen short NAL units pass, for which there may not
  be enough room; the loop (540-557) writes the last one behind the end of the
  buffer, or, if the units end where the buffer does, leaves the rest away and
  returns `PJ_SUCCESS`. The run `calls` reaches both; `WithinBits` says that
  nothing else gets behind the end.
- `user_data` is "Only valid when attached" (`transport_udp.h:111`). The receive
  thread reads it before it waits for a datagram, whether or not someone is
  attached (`transport_udp.c:240`), and calls back with it afterwards.
  `StaleOnce` says that it happens once at most after each change.

No sentence speaks of a packet list that is linked to itself, so no run refutes
one. It takes a client that lets the list run empty, as the send thread's loop
does, and a memory list with a single buffer; `PacketList` has it, `ListInUse`
says when it comes about, and `QueueUnlessLooped` makes the exception.

That a straddled unit is not received (`RoundTrip`) parts from "Packetizes H.264
bitstream into RTP payload" as well: its fragmentation is not ended by an E bit,
or its last byte is in no payload. It takes several NAL units in one bitstream;
`main` hands over one at a time.

## What is not modelled

- The STAP-A branch of the packetizer: compiled out (`HYT_PTT`, 333-426).
- The denoiser (`UnitTest.c:40-145`): nothing calls it, so there is no caller to
  say which frames and noise levels it is given.
- `transport_udp_create` and `transport_udp_destroy` (`transport_udp.c:315-378`):
  nobody calls them, the transport that is made is not handed over, and no
  thread is started. `transport_udp_start/stop`, `transport_send_rtp`,
  `transport_reset_*` and `pj_thread_create` are stubs that return 0.
- `memory_list_free` in the send thread, and `rtp_cache_mutex` around it: the
  call is only made if `mem_list` is set, which nothing in `src/` does.
- The address that `recvfrom` writes (`transport_udp.c:264`) and the send thread
  sends to: nothing in `src/` runs both threads on one transport.
- `typedefs.h`, `basedef.h`, `h264.h`, `pj/*.h`: declarations. `pj_thread.o` has
  no source.
- In `GetAnnexbNALU` a `calloc` that fails (`NALDecoder.c:89-90`, after which the
  null pointer is used) and an `fseek` that fails (157-161, after which the freed
  buffer is read): what follows is undefined, and `main` goes back in a regular
  file over bytes it has just read.
- In `memory_list_malloc` which of the two mallocs failed (`MallocFails` is
  both), and in `packet_list_reset` the moment between freeing a node and reading
  its `next` (`Recycle` is one step; the memory list does not touch the buffer).
- A reset or a destroy of the send thread's list while the thread runs: nothing
  in `src/` does either.
- Log output, and the threads' socket options and time stamps.

## Plan

1. *(done)* `Bitstream`, `H264Packetizer`, `H264Unpacketizer`, `H264Session`
   with `NalTransfer`; proofs of the first two state machines.
2. *(done)* `MemoryList` with `MemoryPool`, `PacketList` with `PacketQueue`,
   `SendThread`.
3. *(done)* `H265Packetizer`, `H265Unpacketizer`, `H265Session`;
   `AnnexBReader` and `Program`; `ReceiveThread`; the signals of `SendThread`.
4. *(done)* Proofs of `SendThread`, `ReceiveThread`, `MemoryList` and
   `PacketList`, the refinements `PoolSpec` and `QueueUnlessLooped`, `WithinBits`
   and `NoHoleBridged`.
5. *(done)* Proofs about the H.264 session: `NoSplice`, the refinement
   `TransferSpec`, `SurvivorsArrive`, and the first half of `RoundTrip`.
6. `FileArrives`, from `RoundTripUnitByUnit`; the second half of `RoundTrip`,
   that a picture with a straddled unit is never received: there the segments of
   `Sending` end at the first straddled unit, and what the calls after it send
   has to be described in another way.
7. `PayloadFitsWindow` and `CallsAdvance` of `H265Session`: bounds of one call.
