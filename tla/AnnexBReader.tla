---------------------------- MODULE AnnexBReader ----------------------------
(***************************************************************************)
(* NALDecoder.c: GetAnnexbNALU reads one NAL unit after the other from a   *)
(* file.  It takes the start code the file is at, then byte after byte     *)
(* until it has read the next one, and goes back in front of that.         *)
(***************************************************************************)
EXTENDS Integers, Sequences, Bitstream

CONSTANT max_size    (* nalu->max_size, the room for a unit and what follows *)

VARIABLES
  file,      (* the bytes of the file                                      *)
  offset,    (* the position in the file                                   *)
  at_end,    (* feof(file)                                                 *)
  size,      (* what the last call returned                                *)
  nalu       (* the unit it delivered: its start code length and its bytes *)

vars == <<file, offset, at_end, size, nalu>>

Open(f) ==
  /\ file   = f
  /\ offset = 0
  /\ at_end = FALSE
  /\ size   = 0
  /\ nalu   = [code |-> 0, nal |-> <<>>]
-----------------------------------------------------------------------------
Bytes == BufferOf(file)
Rest  == Len(file) - offset

FindStartCode2 == Rest >= 3 /\ CodeAt(Bytes, offset)
FindStartCode3 == Rest >= 4 /\ Bytes[offset] = 0 /\ CodeAt(Bytes, offset + 1)

(* Variant of ShortRead: the end of the file is not noticed. *)
ShortReadGoesOn ==
  /\ ~ FindStartCode2
  /\ Rest < 4
  /\ offset' = Len(file)
  /\ size'   = 0
  /\ UNCHANGED <<file, at_end, nalu>>

(* Too little is left for a start code. *)
ShortRead ==
  /\ ~ FindStartCode2
  /\ Rest < 4
  /\ offset' = Len(file)
  /\ at_end' = TRUE
  /\ size'   = 0
  /\ UNCHANGED <<file, nalu>>

(* The four bytes that are no start code are behind the file position. *)
NotACode ==
  /\ ~ FindStartCode2 /\ ~ FindStartCode3
  /\ Rest >= 4
  /\ offset' = offset + 4
  /\ size'   = -1
  /\ UNCHANGED <<file, at_end, nalu>>

startcodeprefix_len == IF FindStartCode2 THEN 3 ELSE 4

next == find_next_nal_unit(Bytes, offset + startcodeprefix_len, Len(file))

(* Variants of unit_end: back by three bytes whatever the start code, and  *)
(* not back at all.                                                        *)
UnitEndThree == IF next = NULL THEN Len(file) ELSE PastCode(Bytes, next) - 3
UnitEndPast  == IF next = NULL THEN Len(file) ELSE PastCode(Bytes, next)

unit_end == IF next = NULL THEN Len(file) ELSE next

(* How many bytes are written to Buf: up to the end of the next start code, *)
(* or what fgetc returns at the end of the file.                            *)
written == (IF next = NULL THEN Len(file) + 1 ELSE PastCode(Bytes, next)) - offset

Deliver ==
  /\ FindStartCode2 \/ FindStartCode3
  /\ written <= max_size
  /\ nalu'   = [code |-> startcodeprefix_len,
                nal  |-> Copy(Bytes, offset + startcodeprefix_len, unit_end)]
  /\ offset' = unit_end
  /\ at_end' = (next = NULL)
  /\ size'   = unit_end - offset
  /\ UNCHANGED file

(* A unit that is too long is written past the end of Buf. *)
Overflow ==
  /\ FindStartCode2 \/ FindStartCode3
  /\ written > max_size

GetAnnexbNALU == ShortRead \/ NotACode \/ Deliver
=============================================================================
