---------------------------- MODULE MCSerialNet -----------------------------
(* A master without a host driver, and two clients that are started in any *)
(* of several modes.                                                       *)
EXTENDS SerialNet, TLC

CONSTANTS m, a, b

Started(mode, address, peer) ==
  [DefaultOptions EXCEPT !.mode = mode, !.address = address,
                         !.peer_address = peer]

MasterOnly ==
  [DefaultOptions EXCEPT !.mode = "master", !.master = TRUE, !.mtimeout = 10]

(* Every mode, no mode, an unknown mode and an address that is not valid;  *)
(* the clients have different peers.                                       *)
AllModes ==
  (m :> {MasterOnly, DefaultOptions, Started("none", 33, 0)}) @@
  (a :> {Started("tap", 0, 0), Started("setup_tap", 0, 0),
         Started("remove_tap", 0, 0), Started("raw_pty", 2, 3)}) @@
  (b :> {Started("socat_tap", 0, 0), Started("raw_pty", 3, 2),
         Started("std_io", 3, 2), Started("tun", 3, 0),
         Started("socat_tun", 3, 0)})

(* a asks for b, b answers, and they exchange data.                        *)
Frames ==
  {[src |-> a, dst |-> BroadcastMac, arp |-> TRUE],
   [src |-> b, dst |-> a, arp |-> TRUE],
   [src |-> a, dst |-> b, arp |-> FALSE],
   [src |-> b, dst |-> a, arp |-> FALSE]}

(* Two clients in one directory with the same peer.                        *)
SamePeer ==
  (m :> {MasterOnly}) @@ (a :> {Started("raw_pty", 2, 1)})
    @@ (b :> {Started("raw_pty", 3, 1)})
=============================================================================
