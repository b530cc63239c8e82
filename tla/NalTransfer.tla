----------------------------- MODULE NalTransfer -----------------------------
(***************************************************************************)
(* What sending pictures over a channel that loses packets is to achieve.  *)
(* The NAL units of a picture arrive in order; a unit may be missing, and  *)
(* one that was interrupted may arrive without its end, but nothing that   *)
(* arrived is taken back while the picture lasts, and no unit arrives with *)
(* a hole in it.                                                           *)
(***************************************************************************)
EXTENDS Integers, Sequences, SequencesExt

CONSTANT PictureNals   (* the sequences of NAL units that may be sent      *)

VARIABLES
  sent,      (* the NAL units of the picture                               *)
  arrived    (* those of its NAL units that have been received for good    *)

vars == <<sent, arrived>>

(* The units in got are units in from, or beginnings of them, in order. *)
InOrder(got, from) ==
  \E place \in [DOMAIN got -> DOMAIN from] :
    /\ \A i, j \in DOMAIN got : i < j => place[i] < place[j]
    /\ \A i \in DOMAIN got : got[i] # <<>> /\ IsPrefix(got[i], from[place[i]])

Init == sent = <<>> /\ arrived = <<>>

(* The last of the units that arrive together is whole. *)
Arrive(units) ==
  /\ units # <<>>
  /\ Last(units) \in ToSet(sent)
  /\ InOrder(arrived \o units, sent)
  /\ arrived' = arrived \o units
  /\ UNCHANGED sent

NextPicture(nals) == sent' = nals /\ arrived' = <<>>

(* The units that came on top of those that had arrived. *)
News == SubSeq(arrived', Len(arrived) + 1, Len(arrived'))

Next == Arrive(News) \/ \E nals \in PictureNals : NextPicture(nals)

Spec == Init /\ [][Next]_vars
=============================================================================
