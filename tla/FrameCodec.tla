----------------------------- MODULE FrameCodec -----------------------------
(***************************************************************************)
(* src/src/core/FrameCodec: packets to frames and bytes to packets.        *)
(*                                                                         *)
(* A frame is: keyword, length, data, checksum, filler.  A length byte     *)
(* carries LenBits bits and a flag that another one follows; the code has  *)
(* LenBits = 7.  The decoder is a record of its members, m_index being the *)
(* number of bytes in m_decodePacket, and of what it has handed up.        *)
(***************************************************************************)
EXTENDS Integers, Sequences, SequencesExt, Bitwise

CONSTANT LenBits       \* bits of the length in one length byte

ASSUME LenBitsAssumption == LenBits \in Nat /\ LenBits >= 2

(* The flag of a length byte that another one follows. *)
More == 2 ^ LenBits
Byte == 0 .. 2 * More - 1

(* FrameCodec::keyword and the last byte of a frame, 0xfd and 0xff. *)
Keyword == 2 * More - 3
Filler == 2 * More - 1
-----------------------------------------------------------------------------
(* Encoding. *)

Checksum(bytes) == FoldSeq(LAMBDA b, sum : b ^^ sum, 0, bytes)

EncodeLength(n) ==
  IF n < More THEN <<n>> ELSE <<More + ((n \div More) % More), n % More>>

EncodePacket(data) ==
  LET start == <<Keyword>> \o EncodeLength(Len(data)) \o data
  IN  start \o <<Checksum(start), Filler>>
-----------------------------------------------------------------------------
(* Decoding: decodeByte, one operator per state. *)

NewCodec ==
  [m_state |-> "getKW", m_length |-> 0, m_checksum |-> 0,
   m_decodePacket |-> <<>>, delivered |-> <<>>]

Reset(codec) == [codec EXCEPT !.m_state = "getKW"]

RxInProgress(codec) == codec.m_state # "getKW"

GetKW(codec, b) ==
  IF b = Keyword
  THEN [codec EXCEPT !.m_checksum = Keyword, !.m_state = "getLen",
                     !.m_length = 0]
  ELSE codec

(* The low bits of m_length are clear, so | is +. *)
GetLen(codec, b) ==
  IF b >= More
  THEN [codec EXCEPT !.m_checksum = @ ^^ b, !.m_length = (@ + b - More) * More]
  ELSE [codec EXCEPT !.m_checksum = @ ^^ b, !.m_length = @ + b,
                     !.m_state = "getData", !.m_decodePacket = <<>>]

(* Behind the end of the packet the byte overwrites other memory and the    *)
(* state is never left.                                                     *)
GetData(codec, b) ==
  LET stored == IF Len(codec.m_decodePacket) <= codec.m_length
                THEN Append(codec.m_decodePacket, b) ELSE codec.m_decodePacket
  IN  [codec EXCEPT !.m_checksum = @ ^^ b, !.m_decodePacket = stored,
                    !.m_state = IF Len(stored) = codec.m_length
                                THEN "getChecksum" ELSE "getData"]

GetChecksum(codec, b) ==
  [codec EXCEPT !.m_checksum = @ ^^ b, !.m_state = "getFiller"]

(* Mutant: the checksum is not looked at. *)
GetFillerAlways(codec, b) ==
  [codec EXCEPT !.delivered = Append(@, codec.m_decodePacket),
                !.m_state = "getKW"]

GetFiller(codec, b) ==
  [codec EXCEPT !.delivered = IF codec.m_checksum = 0
                              THEN Append(@, codec.m_decodePacket) ELSE @,
                !.m_state = "getKW"]

DecodeByte(codec, b) ==
  CASE codec.m_state = "getKW" -> GetKW(codec, b)
    [] codec.m_state = "getLen" -> GetLen(codec, b)
    [] codec.m_state = "getData" -> GetData(codec, b)
    [] codec.m_state = "getChecksum" -> GetChecksum(codec, b)
    [] codec.m_state = "getFiller" -> GetFiller(codec, b)

ReceiveData(codec, bytes) == FoldLeft(DecodeByte, codec, bytes)
=============================================================================
