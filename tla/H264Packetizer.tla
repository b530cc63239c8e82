--------------------------- MODULE H264Packetizer ---------------------------
(***************************************************************************)
(* pjmedia_h264_packetize and the loop of h264_test that calls it until    *)
(* the whole bitstream has been turned into RTP payloads.  The packetizer  *)
(* works in place: the FU indicator and the FU header of a fragment        *)
(* overwrite the two bytes in front of it, and the next call reads them    *)
(* back, at a distance of exactly one MTU, to learn the NRI and the type   *)
(* of the NAL unit it is in the middle of.                                 *)
(***************************************************************************)
EXTENDS Integers, Sequences, SequencesExt, Bitstream, RFC6184

CONSTANTS
  Mtu,       (* pktz->cfg.mtu, the maximum payload length                  *)
  Modes,     (* the packetization modes to run in                          *)
  Pictures   (* the bitstreams to send: sequences of NAL units, each a     *)
             (* record of its start code length and its bytes              *)

SINGLE_NAL      == "SINGLE_NAL"
NON_INTERLEAVED == "NON_INTERLEAVED"
INTERLEAVED     == "INTERLEAVED"

HEADER_SIZE_FU_A == 2

(* The bytes of a picture, start codes included. *)
Layout(pic) ==
  FlattenSeq([k \in DOMAIN pic |-> StartCode(pic[k].code) \o pic[k].nal])

(* A payload has room for the two FU octets and a byte of the NAL unit. *)
ASSUME MtuAssumption      == Mtu \in Nat /\ Mtu > HEADER_SIZE_FU_A
ASSUME ModesAssumption    == Modes \subseteq {SINGLE_NAL, NON_INTERLEAVED, INTERLEAVED}
ASSUME PicturesAssumption == \A pic \in Pictures : Layout(pic) \in Seq(Byte)

VARIABLES
  mode,      (* pktz->cfg.mode, as pjmedia_h264_packetizer_create set it   *)
  picture,   (* the bytes being sent, as they were before any call         *)
  nals,      (* the NAL units they consist of                              *)
  buf,       (* bits: the bitstream, which the calls modify                *)
  pos,       (* enc_packed_pos: the offset the next call starts from       *)
  status,    (* what the last call returned                                *)
  payloads   (* the payloads produced so far for this picture              *)

vars == <<mode, picture, nals, buf, pos, status, payloads>>

buf_len == Len(picture)

Init ==
  /\ mode \in Modes
  /\ picture  = <<>>
  /\ nals     = <<>>
  /\ buf      = BufferOf(<<>>)
  /\ pos      = 0
  /\ status   = "SUCCESS"
  /\ payloads = <<>>
-----------------------------------------------------------------------------
(* The local variables of a call, before it has written anything. *)
start_code ==
  IF buf_len - pos >= 4 THEN find_next_nal_unit(buf, pos, pos+4) ELSE NULL

has_octet == start_code # NULL

nal_start == IF has_octet THEN PastCode(buf, start_code) ELSE pos

(* Variant of window: no byte past the MTU. *)
WindowShort ==
  IF mode = SINGLE_NAL \/ nal_start + Mtu > buf_len
  THEN buf_len
  ELSE nal_start + Mtu

(* How far a call looks for the end of the NAL unit: one byte past the MTU. *)
window ==
  IF mode = SINGLE_NAL \/ nal_start + Mtu + 1 > buf_len
  THEN buf_len
  ELSE nal_start + Mtu + 1

nal_end ==
  LET next == find_next_nal_unit(buf, nal_start, window)
  IN  IF next = NULL THEN window ELSE next

(* Variant of too_small: off by one. *)
TooSmallByOne == mode = SINGLE_NAL /\ nal_end - nal_start > Mtu + 1

too_small == mode = SINGLE_NAL /\ nal_end - nal_start > Mtu

fragmenting ==
  mode # SINGLE_NAL /\ (~ has_octet \/ nal_end - nal_start > Mtu)

(* Variant of previous: the two FU octets are counted twice. *)
PreviousLate == nal_start - Mtu + HEADER_SIZE_FU_A

(* Where the previous fragment, if there was one, put its FU indicator. *)
previous == nal_start - Mtu

(* Variant of previous_found: the MTU is subtracted twice. *)
PreviousFoundLater == previous >= Mtu /\ previous < buf_len

previous_found == previous >= 0 /\ previous < buf_len

(* The loop of h264_test goes on whatever the last call returned. *)
Looping == pos < buf_len /\ status # "CRASHED"

(* A call that fails leaves the bitstream and the position as they were. *)
Fail(code) ==
  /\ status' = code
  /\ UNCHANGED <<mode, picture, nals, buf, pos, payloads>>

(* Single NAL mode: the NAL unit does not fit in a payload. *)
TooSmall ==
  /\ Looping
  /\ too_small
  /\ Fail("ETOOSMALL")

(* There is no previous fragment to take the NRI and the type from. *)
Cancel ==
  /\ Looping
  /\ fragmenting
  /\ ~ has_octet
  /\ ~ previous_found
  /\ Fail("ECANCELLED")

(* The length of the FU-A payload whose data starts at offset from. *)
WholeLen(from) == nal_end - from + HEADER_SIZE_FU_A

(* Variant of fu_payload_len: the header is left out. *)
FuPayloadLenShort(from) ==
  (IF WholeLen(from) > Mtu THEN Mtu ELSE WholeLen(from)) - HEADER_SIZE_FU_A

fu_payload_len(from) == IF WholeLen(from) > Mtu THEN Mtu ELSE WholeLen(from)

(* Variant of fu_header: S in the wrong place. *)
FuHeaderShifted(from, type, S) ==
  S * 256 + (IF WholeLen(from) <= Mtu THEN 64 ELSE 0) + type

fu_header(from, type, S) ==
  S * 128 + (IF WholeLen(from) <= Mtu THEN 64 ELSE 0) + type

(***************************************************************************)
(* Emit the FU-A packet whose data starts at offset from and belongs to a  *)
(* NAL unit with the given NRI and type.                                   *)
(***************************************************************************)
EmitFragment(from, nri, type, S) ==
  LET load_start == from - HEADER_SIZE_FU_A
      load_end   == load_start + fu_payload_len(from)
      written    == [buf EXCEPT ![load_start]   = nri * 32 + NAL_TYPE_FU_A,
                                ![load_start+1] = fu_header(from, type, S)]
  IN  /\ buf'      = written
      /\ payloads' = Append(payloads, Copy(written, load_start, load_end))
      /\ pos'      = load_end
      /\ status'   = "SUCCESS"
      /\ UNCHANGED <<mode, picture, nals>>

(* The first fragment: the FU header takes the place of the NAL octet. *)
FirstFragment ==
  /\ Looping
  /\ fragmenting
  /\ has_octet
  /\ EmitFragment(nal_start + 1, Nri(buf[nal_start]), Type(buf[nal_start]), 1)

NextFragment ==
  /\ Looping
  /\ fragmenting
  /\ ~ has_octet
  /\ previous_found
  /\ EmitFragment(nal_start, Nri(buf[previous]), Type(buf[previous+1]), 0)

(* A NAL unit that fits is sent as it is, without its start code. *)
SingleNal ==
  /\ Looping
  /\ ~ fragmenting
  /\ ~ too_small
  /\ has_octet
  /\ payloads' = Append(payloads, Copy(buf, nal_start, nal_end))
  /\ pos'      = nal_end
  /\ status'   = "SUCCESS"
  /\ UNCHANGED <<mode, picture, nals, buf>>

(***************************************************************************)
(* Single NAL mode without a start code: the message that reports the      *)
(* packet reads *nal_octet, a null pointer.                                *)
(***************************************************************************)
NullOctet ==
  /\ Looping
  /\ ~ fragmenting
  /\ ~ too_small
  /\ ~ has_octet
  /\ status' = "CRASHED"
  /\ UNCHANGED <<mode, picture, nals, buf, pos, payloads>>

(* One call of pjmedia_h264_packetize. *)
Packetize ==
  TooSmall \/ Cancel \/ FirstFragment \/ NextFragment \/ SingleNal \/ NullOctet

(* h264_test is called with the next bitstream once the last one is done. *)
h264_test(pic) ==
  /\ pos = buf_len
  /\ status # "CRASHED"
  /\ picture'  = Layout(pic)
  /\ nals'     = pic
  /\ buf'      = BufferOf(Layout(pic))
  /\ pos'      = 0
  /\ status'   = "SUCCESS"
  /\ payloads' = <<>>
  /\ UNCHANGED mode

Next == Packetize \/ \E pic \in Pictures : h264_test(pic)

Spec == Init /\ [][Next]_vars
-----------------------------------------------------------------------------
(* A bitstream that starts with a start code, ends inside a NAL unit, as   *)
(* GetAnnexbNALU delivers it, and has no NAL units of the types that the   *)
(* payload format takes for its own packets.                               *)
WellFormed(s) ==
  LET b == BufferOf(s)  n == Len(s) IN
    /\ n >= 4
    /\ CodeAt(b, 0) \/ (b[0] = 0 /\ CodeAt(b, 1))
    /\ \A p \in 0 .. n-3 :
         CodeAt(b, p) =>
           /\ p # n-3
           /\ Type(b[p+3]) \in NAL_TYPE_SINGLE_NAL_MIN .. NAL_TYPE_SINGLE_NAL_MAX

Done == pos = buf_len /\ WellFormed(picture)

NalBytes == [k \in DOMAIN nals |-> nals[k].nal]

(***************************************************************************)
(* NAL unit k is followed by another one, and the packetizer finds the     *)
(* start code between them in two pieces: the window of one of its calls   *)
(* ends inside the start code, or one byte of the NAL unit is left over    *)
(* just in front of it.                                                    *)
(***************************************************************************)
Straddled(k) ==
  LET length == Len(nals[k].nal)
      code   == nals[k+1].code
      rest   == ((length - Mtu) % (Mtu - HEADER_SIZE_FU_A)) + 1
  IN  \/ length = Mtu - 1
      \/ length = Mtu - 2 /\ code = 4
      \/ length >= Mtu /\ rest = 1 /\ code = 3
      \/ length >= Mtu /\ rest = Mtu - 2 /\ code = 4

(***************************************************************************)
(* The type of every variable.                                             *)
(***************************************************************************)
TypeOK ==
  /\ mode \in {SINGLE_NAL, NON_INTERLEAVED, INTERLEAVED}
  /\ picture \in Seq(Byte)
  /\ buf \in [0 .. buf_len-1 -> Byte]
  /\ pos \in 0 .. buf_len
  /\ status \in {"SUCCESS", "ETOOSMALL", "ECANCELLED", "CRASHED"}
  /\ payloads \in Seq(Seq(Byte))

(***************************************************************************)
(* No payload is longer than the MTU, so the memcpy into h264_test's       *)
(* payload array, which is that long, stays inside it.                     *)
(***************************************************************************)
PayloadFitsMtu == \A k \in DOMAIN payloads : Len(payloads[k]) <= Mtu

(***************************************************************************)
(* A call on a well-formed bitstream always finds either a start code or   *)
(* the fragment before it: it is never cancelled and never reads a null    *)
(* octet, whatever the lengths of the NAL units and the earlier overwrites.*)
(***************************************************************************)
NeverRefused ==
  WellFormed(picture) => status \notin {"ECANCELLED", "CRASHED"}

(***************************************************************************)
(* When the MTU is no obstacle (any mode but SINGLE_NAL), every call on a  *)
(* well-formed bitstream moves the position forward, so the loop of        *)
(* h264_test, which ignores the status, cannot spin.                       *)
(***************************************************************************)
EveryCallAdvances ==
  [][ Looping /\ WellFormed(picture) /\ mode # SINGLE_NAL => pos' > pos ]_vars

(***************************************************************************)
(* A fragment that does not start a NAL unit follows a fragment of the     *)
(* same NAL unit that does not end it, with the same NRI and type: what a  *)
(* call reads back one MTU earlier is what the call before it wrote there. *)
(***************************************************************************)
FragmentsFollow ==
  WellFormed(picture) =>
    \A k \in DOMAIN payloads :
      IsFragment(payloads[k]) /\ ~ StartBit(payloads[k]) =>
        /\ k > 1
        /\ IsFragment(payloads[k-1])
        /\ ~ EndBit(payloads[k-1])
        /\ UnitOf(payloads[k]) = UnitOf(payloads[k-1])

(***************************************************************************)
(* A receiver that gets every payload gets exactly the NAL units of the    *)
(* bitstream, in SINGLE_NAL mode always, in the other modes when and only  *)
(* when none of them is straddled.  h264_test hands over one NAL unit at a *)
(* time, and a single NAL unit is never straddled.                         *)
(***************************************************************************)
RoundTrip ==
  Done =>
    (Reassemble(payloads) = NalBytes
       <=> mode = SINGLE_NAL \/ \A k \in 1 .. Len(nals)-1 : ~ Straddled(k))
=============================================================================
