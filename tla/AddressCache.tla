---------------------------- MODULE AddressCache ----------------------------
(***************************************************************************)
(* AddressCache of src/src/core: the mapping between Ethernet (MAC) and    *)
(* local addresses that a node with a tap interface keeps.                 *)
(*                                                                         *)
(* The table is a vector searched from its start, so a MAC address that is *)
(* in two rows is found in the older one; a row belongs to one local       *)
(* address.                                                                *)
(***************************************************************************)
EXTENDS Naturals, Sequences, FiniteSets

NullAddr == 0
BroadcastAddr == 255
BroadcastMac == "ff:ff:ff:ff:ff:ff"

EmptyCache == [table |-> <<>>, myLocal |-> NullAddr, myMac |-> BroadcastMac]

RowsOf(c, mac) == {i \in DOMAIN c.table : c.table[i].mac = mac}
RowOf(c, local) == {i \in DOMAIN c.table : c.table[i].local = local}

GetLocalAddress(c, mac) ==
  IF mac = BroadcastMac THEN BroadcastAddr
  ELSE IF c.myLocal # NullAddr /\ c.myMac = mac THEN c.myLocal
  ELSE IF RowsOf(c, mac) = {} THEN NullAddr
  ELSE c.table[CHOOSE i \in RowsOf(c, mac) :
                 \A k \in RowsOf(c, mac) : i <= k].local

SetAddress(c, local, mac) ==
  LET row == [local |-> local, mac |-> mac]
  IN  IF local = BroadcastAddr THEN c
      ELSE IF RowOf(c, local) # {}
      THEN [c EXCEPT !.table = [i \in DOMAIN @ |->
                                  IF @[i].local = local THEN row ELSE @[i]]]
      ELSE [c EXCEPT !.table = Append(@, row)]

UpdateMyMAC(c, local, mac) ==
  IF c.myLocal # NullAddr THEN c
  ELSE [c EXCEPT !.myLocal = local, !.myMac = mac]

\* Whether getMac finds a MAC address.
HasMac(c, local) == local = BroadcastAddr \/ RowOf(c, local) # {}
=============================================================================
