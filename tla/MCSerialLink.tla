---------------------------- MODULE MCSerialLink ----------------------------
(***************************************************************************)
(* Instances of SerialLink for TLC: packets of one byte and of the lengths *)
(* around the limit of one length byte (4 for LenBits = 2), with keywords  *)
(* in their data.                                                          *)
(***************************************************************************)
EXTENDS SerialLink

SmallPackets == {<<0>>, <<1, Keyword, 0>>, <<Keyword, 1, 0, Keyword>>}

OnePacket == {<<0>>}
=============================================================================
