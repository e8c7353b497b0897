----------------------------- MODULE ClientNode -----------------------------
(***************************************************************************)
(* The client half of a node: PacketTypeCodec, TxQueue, OwnAddress and     *)
(* ClientAddress (src/core/).  One action per kind of packet that a client *)
(* reacts to, and one for the host that wants to send.  A packet that is   *)
(* too short for its type is dropped before any of this: to a client it is *)
(* a lost packet.                                                          *)
(*                                                                         *)
(* The host driver is one that does not listen for address changes (pty,   *)
(* standard streams).  Packets of other clients go straight on to it and   *)
(* touch nothing here.                                                     *)
(*                                                                         *)
(* What a step of a client puts on the wire is left in `said'; whoever     *)
(* composes clients with a wire delivers it.                               *)
(***************************************************************************)
EXTENDS Integers, Sequences

CONSTANTS
  Node,          \* clients; a client is its own unique id
  StaticAddr,    \* the address a client was started with, 0 if none
  TxLimit        \* packets a host queues at most at a time (a bound)

(* LocalAddress::null_addr. *)
NullAddr == 0

VARIABLES
  m_addr,        \* OwnAddress::m_addr
  m_txMsg,       \* TxQueue::m_txMsg: the source address in each packet
  said           \* what the last step put on the wire

clientVars == <<m_addr, m_txMsg, said>>

Silent == [type |-> "none"]
ReturnToken(a) == [type |-> "return_token", src |-> a]
SendPacket(a) == [type |-> "send_packet", src |-> a]
AddressRequest(c) == [type |-> "address_request", uid |-> c]

(* OwnAddress::m_dynamic. *)
IsDynamic(c) == StaticAddr[c] = NullAddr

ClientInit ==
  /\ m_addr = StaticAddr
  /\ m_txMsg = [c \in Node |-> <<>>]
  /\ said = Silent

(* Mutant: the packet is queued without an address. *)
HostSendsUnaddressed(c) ==
  /\ Len(m_txMsg[c]) < TxLimit
  /\ m_txMsg' = [m_txMsg EXCEPT ![c] = Append(@, m_addr[c])]
  /\ said' = Silent
  /\ UNCHANGED m_addr

(* A host hands over a packet.  Without an address it is thrown away, with *)
(* one it is stamped with the address of the moment.                       *)
HostSends(c) ==
  /\ m_addr[c] # NullAddr
  /\ Len(m_txMsg[c]) < TxLimit
  /\ m_txMsg' = [m_txMsg EXCEPT ![c] = Append(@, m_addr[c])]
  /\ said' = Silent
  /\ UNCHANGED m_addr

(* Mutant: the token is taken whomever it is for. *)
RxAnyGrantToken(c, a) ==
  /\ m_addr[c] # NullAddr
  /\ said' = ReturnToken(m_addr[c])
  /\ UNCHANGED <<m_addr, m_txMsg>>

(* Mutant: a packet that is sent stays in the queue. *)
RxGrantTokenWithoutPop(c, a) ==
  /\ a = m_addr[c]
  /\ said' = IF m_txMsg[c] = <<>> THEN ReturnToken(m_addr[c])
             ELSE SendPacket(Head(m_txMsg[c]))
  /\ UNCHANGED <<m_addr, m_txMsg>>

(* The token is for this node: one packet goes out, or the token back. *)
RxGrantToken(c, a) ==
  /\ a = m_addr[c]
  /\ \/ /\ m_txMsg[c] = <<>>
        /\ said' = ReturnToken(m_addr[c])
        /\ UNCHANGED m_txMsg
     \/ /\ m_txMsg[c] # <<>>
        /\ said' = SendPacket(Head(m_txMsg[c]))
        /\ m_txMsg' = [m_txMsg EXCEPT ![c] = Tail(@)]
  /\ UNCHANGED m_addr

(* Mutant: a client that has packets to send waits for a token instead. *)
RxDiscoveryPacketWhenIdle(c) ==
  /\ m_addr[c] = NullAddr
  /\ said' = IF m_txMsg[c] = <<>> THEN AddressRequest(c) ELSE Silent
  /\ UNCHANGED <<m_addr, m_txMsg>>

(* A client without an address asks for one, with no delay. *)
RxDiscoveryPacket(c) ==
  /\ m_addr[c] = NullAddr
  /\ said' = AddressRequest(c)
  /\ UNCHANGED <<m_addr, m_txMsg>>

(* Mutant: the unique id is not compared. *)
RxAnyAddrReplyPacket(c, a, uid) ==
  /\ m_addr' = [m_addr EXCEPT ![c] = a]
  /\ said' = Silent
  /\ UNCHANGED m_txMsg

RxAddrReplyPacket(c, a, uid) ==
  /\ uid = c
  /\ m_addr' = [m_addr EXCEPT ![c] = a]
  /\ said' = Silent
  /\ UNCHANGED m_txMsg

(* Mutant: a restarted master is not noticed. *)
MasterStartedIgnored(c) ==
  /\ said' = Silent
  /\ UNCHANGED <<m_addr, m_txMsg>>

(* A master has (re)started: a dynamic address is void, the packets that    *)
(* carry it stay in the queue.                                              *)
MasterStarted(c) ==
  /\ m_addr' = [m_addr EXCEPT ![c] = IF IsDynamic(c) THEN NullAddr ELSE @]
  /\ said' = Silent
  /\ UNCHANGED m_txMsg

(* The packets that ask nothing of this client. *)
Ignores(c, packet) ==
  \/ packet.type = "grant_token" /\ packet.dest # m_addr[c]
  \/ packet.type = "address_discovery" /\ m_addr[c] # NullAddr
  \/ packet.type = "address_reply" /\ packet.uid # c

(* PacketTypeCodec::rxRawPacket. *)
RxRawPacket(c, packet) ==
  \/ packet.type = "grant_token" /\ RxGrantToken(c, packet.dest)
  \/ packet.type = "address_discovery" /\ RxDiscoveryPacket(c)
  \/ packet.type = "address_reply"
       /\ RxAddrReplyPacket(c, packet.assigned, packet.uid)
  \/ packet.type = "master_started" /\ MasterStarted(c)
  \/ Ignores(c, packet) /\ said' = Silent /\ UNCHANGED <<m_addr, m_txMsg>>
=============================================================================
