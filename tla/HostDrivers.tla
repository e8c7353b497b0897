---------------------------- MODULE HostDrivers -----------------------------
(***************************************************************************)
(* A node of serial_net between its host and the serial bus: the drivers   *)
(* of src/src/drivers that exchange data with the host (standard streams,  *)
(* pseudo terminal, tun and tap interfaces and their socat variants), with *)
(* TxQueue and the delivery of packets in PacketTypeCodec.                 *)
(*                                                                         *)
(* A node is a record; an operator gives the record after a call.  Data    *)
(* that hosts exchange is a record of its sender, and, for Ethernet        *)
(* frames, of the MAC address it is for and whether it is an ARP message.  *)
(* The MAC address of a host is its name.                                  *)
(***************************************************************************)
EXTENDS AddressCache

CONSTANT TxLimit   \* bound: packets in a transmit queue

TapModes == {"tap", "socat_tap"}
TunModes == {"tun", "socat_tun"}
Mode == {"unknown", "none", "std_io", "raw_pty", "setup_tap", "remove_tap"}
        \cup TapModes \cup TunModes

ChannelType == {"illegal_type", "raw_stream", "tun_format", "tap_format"}
-----------------------------------------------------------------------------
(* The own address and what follows from it.                               *)

(* Mutant: the interface is only taken up. *)
TapNewAddrUpOnly(n, addr) == [n EXCEPT !.m_ifUp = @ \/ addr # NullAddr]

(* TapHostDriver::msgHostRx_newAddr: the interface is taken up or down.    *)
TapNewAddr(n, addr) == [n EXCEPT !.m_ifUp = (addr # NullAddr)]

(* TunHostDriver::msgHostRx_newAddr                                        *)
TunNewAddr(n, addr) == [n EXCEPT !.m_ifUp = (addr # NullAddr)]

(* The listener of the own address, if there is one.                       *)
NewAddr(n, addr) ==
  CASE n.m_listener = "tap" -> TapNewAddr(n, addr)
    [] n.m_listener = "tun" -> TunNewAddr(n, addr)
    [] OTHER -> n

(* OwnAddress::set                                                         *)
SetOwnAddress(n, addr) ==
  LET changed == [n EXCEPT !.m_addr = addr]
  IN  IF n.m_addr # addr THEN NewAddr(changed, addr) ELSE changed

(* OwnAddress::masterStarted                                               *)
MasterStarted(n) == IF n.m_dynamic THEN SetOwnAddress(n, NullAddr) ELSE n
-----------------------------------------------------------------------------
(* The start of the drivers.                                               *)

(* TxQueue::setRxHandler; a node has one driver, of one type of channel.   *)
SetRxHandler(n, chType) == [n EXCEPT !.m_rxIf = chType]

(* OwnAddress::setListener, through setAddrUpdateHandler                   *)
SetListener(n, driver) == [n EXCEPT !.m_listener = driver]

(* startTransfer of TapHostDriver, TunHostDriver, SocatTapHostDriver and   *)
(* SocatTunHostDriver, and setupCallback of PtyRawHostDriver.              *)
StartTap(n) ==
  TapNewAddr(SetListener(SetRxHandler(n, "tap_format"), "tap"), n.m_addr)

StartTun(n) ==
  TunNewAddr(SetListener(SetRxHandler(n, "tun_format"), "tun"), n.m_addr)

StartSocatTap(n) == SetRxHandler(n, "tap_format")

StartSocatTun(n) == SetRxHandler(n, "tun_format")

SetupPty(n) == SetRxHandler(n, "raw_stream")

(* The driver of standard streams registers nothing: it is never handed a  *)
(* packet.                                                                 *)
StartDriver(n) ==
  CASE n.mode = "tap" -> StartTap(n)
    [] n.mode = "tun" -> StartTun(n)
    [] n.mode = "socat_tap" -> StartSocatTap(n)
    [] n.mode = "socat_tun" -> StartSocatTun(n)
    [] n.mode = "raw_pty" -> SetupPty(n)
    [] OTHER -> n
-----------------------------------------------------------------------------
(* From the host to the transmit queue.                                    *)

(* sendPacket: the source address is written when the packet is queued.    *)
SendPacket(n, data, dest, chType) ==
  [n EXCEPT !.m_txMsg = Append(@, [type |-> "send_packet", chType |-> chType,
                                   src |-> n.m_addr, dest |-> dest,
                                   data |-> data])]

(* Mutant: a node without an address queues packets, too. *)
HostTxSendPacketUnaddressed(n, data, dest, chType) ==
  SendPacket(n, data, dest, chType)

(* msgHostTx_sendPacket                                                    *)
HostTxSendPacket(n, data, dest, chType) ==
  IF n.m_addr # NullAddr THEN SendPacket(n, data, dest, chType) ELSE n

(* msgHostTx_sendMacUpdate                                                 *)
HostTxSendMacUpdate(n, mac) ==
  IF n.m_addr = NullAddr THEN n
  ELSE [n EXCEPT !.m_txMsg =
          Append(@, [type |-> "mac_update", chType |-> "illegal_type",
                     src |-> n.m_addr, dest |-> BroadcastAddr,
                     data |-> [src |-> mac, dst |-> BroadcastMac,
                               arp |-> FALSE]])]

(* checkArp: an ARP message makes the node tell the others its MAC.        *)
CheckArp(n, frame) == IF frame.arp THEN HostTxSendMacUpdate(n, frame.src) ELSE n

(* TapProtocol::doRead: the update is queued first.                        *)
TapDoRead(n, frame) ==
  LET cache == UpdateMyMAC(n.m_cache, n.m_addr, frame.src)
      dest == GetLocalAddress(cache, frame.dst)
      read == [n EXCEPT !.m_cache = cache]
  IN  IF dest = NullAddr THEN read
      ELSE HostTxSendPacket(CheckArp(read, frame), frame, dest, "tap_format")

(* The local address of an IP packet: the last byte of the IP address it   *)
(* is for.                                                                 *)
DestAddr(ip) == ip % 256

(* TunProtocol::doRead2 *)
TunDoRead2(n, data, ip) == HostTxSendPacket(n, data, DestAddr(ip), "tun_format")

(* SocatTunHostDriver::doRead takes the header of a packet from the        *)
(* stream, and its data the next time.                                     *)
SocatTunDoRead(n, data, ip) ==
  IF n.m_rxTunPacket = NullAddr
  THEN [n EXCEPT !.m_rxTunPacket = DestAddr(ip)]
  ELSE HostTxSendPacket([n EXCEPT !.m_rxTunPacket = NullAddr], data,
                        n.m_rxTunPacket, "tun_format")

(* StdioRawHostDriver: the callback of standard input, writeToNet.         *)
StdinRead(n, data) ==
  IF n.m_peerAddr = NullAddr THEN n
  ELSE HostTxSendPacket(n, data, n.m_peerAddr, "raw_stream")

(* PtyRawHostDriver::doRead                                                *)
PtyDoRead(n, data) == HostTxSendPacket(n, data, n.m_peerAddr, "raw_stream")
-----------------------------------------------------------------------------
(* From the bus to the host.                                               *)

(* getRxIf: a driver is registered for this type of channel.               *)
GetRxIf(n, chType) == chType # "illegal_type" /\ n.m_rxIf = chType

(* rxRawPacket: a packet for this node, handed to the driver by            *)
(* deliverRxQueue.                                                         *)
IsForHost(n, p) ==
  /\ p.type = "send_packet"
  /\ \/ p.dest = n.m_addr /\ n.m_addr # NullAddr
     \/ BroadcastAddr \in {n.m_addr, p.dest}
  /\ GetRxIf(n, p.chType)

(* Mutant: the sender is learned as the owner of the destination. *)
LearnDest(n, p) ==
  IF HasMac(n.m_cache, p.src) THEN n
  ELSE [n EXCEPT !.m_cache = SetAddress(@, p.dest, p.data.src)]

(* The part of TapProtocol::packetReceived that learns an address.         *)
Learn(n, p) ==
  IF HasMac(n.m_cache, p.src) THEN n
  ELSE [n EXCEPT !.m_cache = SetAddress(@, p.src, p.data.src)]

(* PacketTypeCodec::rxRawPacket for packets of clients.                    *)
RxPacket(n, p) ==
  IF p.type = "mac_update" /\ n.mode \in TapModes
  THEN [n EXCEPT !.m_cache = SetAddress(@, p.src, p.data.src)]
  ELSE IF IsForHost(n, p) /\ n.mode \in TapModes THEN Learn(n, p)
  ELSE n

(* TapProtocol::packetReceived writes frames between known hosts.          *)
TapPacketReceived(n, p) ==
  LET cache == Learn(n, p).m_cache
  IN  HasMac(cache, p.src) /\ HasMac(cache, p.dest)

(* packetReceivedFromNet of SocatTapHostDriver, TunProtocol,               *)
(* SocatTunHostDriver and PtyRawHostDriver: whether the data is written to *)
(* the host.                                                               *)
SocatTapReceives(n, p) == p.chType = "tap_format" /\ TapPacketReceived(n, p)

TunReceives(n, p) == n.mode = "tun"

SocatTunReceives(n, p) == n.mode = "socat_tun"

PtyReceives(n, p) ==
  /\ p.chType = "raw_stream"
  /\ n.m_peerAddr \in {p.src, BroadcastAddr}

(* Mutant: frames are written whatever node they are for. *)
WritesToHostAll(n, p) ==
  /\ p.type = "send_packet"
  /\ GetRxIf(n, p.chType)
  /\ n.mode = "raw_pty" => PtyReceives(n, p)

(* deliverRxQueue: the driver that is registered for the channel.          *)
WritesToHost(n, p) ==
  /\ IsForHost(n, p)
  /\ \/ n.mode = "tap" /\ TapPacketReceived(n, p)
     \/ n.mode = "socat_tap" /\ SocatTapReceives(n, p)
     \/ TunReceives(n, p) \/ SocatTunReceives(n, p)
     \/ n.mode = "raw_pty" /\ PtyReceives(n, p)
=============================================================================
