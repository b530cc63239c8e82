------------------------------- MODULE Program -------------------------------
(***************************************************************************)
(* main of UnitTest.c: read a NAL unit from the file, hand it to h264_test *)
(* with its start code, which calls the packetizer until the unit is sent, *)
(* and again, until the end of the file.                                   *)
(***************************************************************************)
EXTENDS Integers, Sequences, SequencesExt, AnnexB, RFC6184

CONSTANTS
  Mtu,        (* pktz->cfg.mtu                                             *)
  Files,      (* the files that the program is run on                      *)
  max_size    (* AllocNALU(max_size)                                       *)

ASSUME FilesAssumption == \A f \in Files : f \in Seq(0 .. 255)

VARIABLES
  file, offset, at_end, size, nalu,                   (* the reader        *)
  picture, nals, buf, pos, status, payloads,          (* the packetizer    *)
  pc,       (* what main does next: read, packetize, or it is done         *)
  read,     (* the NAL units that were handed to h264_test                 *)
  sent      (* the payloads that it made of them                           *)

reader == <<file, offset, at_end, size, nalu>>
tx     == <<picture, nals, buf, pos, status, payloads>>
vars   == <<reader, tx, pc, read, sent>>

Reader == INSTANCE AnnexBReader
Tx     == INSTANCE H264Packetizer WITH
            mode <- "NON_INTERLEAVED", Modes <- {"NON_INTERLEAVED"}, Pictures <- {}

Init ==
  /\ \E f \in Files : Reader!Open(f)
  /\ Tx!Init
  /\ pc = "read"
  /\ read = <<>>
  /\ sent = <<>>

(* The condition of the loop in main. *)
Again(end) == IF end THEN "done" ELSE "read"

(* Nothing to send: continue. *)
Skip ==
  /\ size' < 4
  /\ pc' = Again(at_end')
  /\ UNCHANGED <<tx, read>>

Start ==
  /\ size' >= 4
  /\ Tx!h264_test(<<nalu'>>)
  /\ read' = Append(read, nalu'.nal)
  /\ pc' = "packetize"

Read ==
  /\ pc = "read"
  /\ Reader!GetAnnexbNALU
  /\ Skip \/ Start
  /\ UNCHANGED sent

(* The unit does not fit in the memory that was allocated for it. *)
Overflow ==
  /\ pc = "read"
  /\ Reader!Overflow
  /\ pc' = "crashed"
  /\ UNCHANGED <<reader, tx, read, sent>>

Packetize ==
  /\ pc = "packetize"
  /\ Tx!Packetize
  /\ sent' = IF payloads' = payloads THEN sent ELSE Append(sent, Last(payloads'))
  /\ UNCHANGED <<reader, pc, read>>

(* h264_test returns. *)
Return ==
  /\ pc = "packetize"
  /\ pos = Tx!buf_len
  /\ pc' = Again(at_end)
  /\ UNCHANGED <<reader, tx, read, sent>>

Next == Read \/ Overflow \/ Packetize \/ Return

Spec == Init /\ [][Next]_vars /\ WF_vars(Next)
-----------------------------------------------------------------------------
(* Every unit of the file fits in the memory allocated for one, with the   *)
(* start codes around it.                                                  *)
Fits == \A n \in DOMAIN AllUnits(file) : Len(AllUnits(file)[n]) + 8 <= max_size

Ordinary(unit) == unit[1] % 32 \in 1 .. 23 /\ unit[1] < 128

(***************************************************************************)
(* A file that begins with a start code is sent: a receiver of the         *)
(* payloads has the NAL units of the file, whatever their lengths, however *)
(* long each start code is, and wherever two or none of them follow.       *)
(***************************************************************************)
FileArrives ==
  pc = "done" /\ Begins(file) /\ (\A unit \in ToSet(Units(file)) : Ordinary(unit)) =>
    Reassemble(NonEmpty(sent)) = Units(file)

(***************************************************************************)
(* Whatever the file, what is sent of it is whole NAL units, and the last  *)
(* ones: four bytes that are no start code are given up at a time, which   *)
(* may miss the first start codes, but after the first unit no other one   *)
(* is missed.                                                              *)
(***************************************************************************)
LastUnitsRead ==
  pc = "done" => IsSuffix(NonEmpty(read), Units(file))

(***************************************************************************)
(* The program ends, whatever is in the file, if its units fit in memory:  *)
(* no call leaves it where it was.                                         *)
(***************************************************************************)
ProgramEnds == Fits ~> pc = "done"
=============================================================================
