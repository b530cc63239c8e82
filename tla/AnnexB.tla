------------------------------- MODULE AnnexB -------------------------------
(***************************************************************************)
(* The NAL units of a byte stream, by the positions of all its start codes:*)
(* the reference that reading a file unit by unit is held against.         *)
(***************************************************************************)
EXTENDS Integers, Sequences, SequencesExt, FiniteSetsExt

(* Where the bytes 00 00 01 are in s. *)
Marks(s) == {p \in 1 .. Len(s)-2 : s[p] = 0 /\ s[p+1] = 0 /\ s[p+2] = 1}

(* The unit behind the mark p ends in front of the next mark and of the    *)
(* zero byte that belongs to it.                                           *)
UnitAt(s, p) ==
  LET later == {q \in Marks(s) : q > p}
      q     == Min(later)
  IN  IF later = {} THEN SubSeq(s, p+3, Len(s))
      ELSE SubSeq(s, p+3, IF q > p+3 /\ s[q-1] = 0 THEN q-2 ELSE q-1)

(* The units that have at least one byte. *)
NonEmpty(units) == SelectSeq(units, LAMBDA unit : unit # <<>>)

AllUnits(s) ==
  LET marks == SetToSortSeq(Marks(s), LAMBDA p, q : p < q)
  IN  [k \in DOMAIN marks |-> UnitAt(s, marks[k])]

Units(s) == NonEmpty(AllUnits(s))

(* The stream begins with a start code of three or four bytes. *)
Begins(s) == Len(s) >= 3 /\ (1 \in Marks(s) \/ (s[1] = 0 /\ 2 \in Marks(s)))
=============================================================================
