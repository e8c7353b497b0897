--------------------------- MODULE SerialNetProofs ---------------------------
(***************************************************************************)
(* Proofs about SerialNet: the processes, the addresses their nodes learn, *)
(* their network interfaces and the links to their pseudo terminals.       *)
(*                                                                         *)
(* A node is a record that the operators of HostDrivers and AddressCache   *)
(* change; GoodNode says what is kept of such a record, whatever the other *)
(* processes do, and a lemma for each operator shows that it is kept.  The *)
(* invariant Inv of the whole adds the interfaces and the addresses.       *)
(***************************************************************************)
EXTENDS SerialNet, SequenceTheorems, WellFoundedInduction, TLAPS

Row == [local : Local, mac : Proc]

Cache == [table : Seq(Row), myLocal : Local, myMac : Proc \cup {BroadcastMac}]

Histories == [Proc -> SUBSET Local]

(* A cache knows addresses that the nodes of hosts have or had, given by   *)
(* H, and has one row for each.                                            *)
GoodCache(c, H) ==
  /\ c \in Cache
  /\ \A i \in DOMAIN c.table : c.table[i].local \in H[c.table[i].mac]
  /\ \A i, k \in DOMAIN c.table : c.table[i].local = c.table[k].local => i = k
  /\ c.myLocal # NullAddr => c.myMac \in Proc /\ c.myLocal \in H[c.myMac]

(* A packet in the queue of p has an address of p as its source, and a     *)
(* frame for a host is for an address that host has or had.                *)
GoodPacket(p, m, H) ==
  /\ m \in Message
  /\ m.data.src = p
  /\ m.src \in H[p]
  /\ m.type = "send_packet" /\ m.chType = "tap_format" =>
       \/ m.data.dst = BroadcastMac
       \/ m.data.dst \in Proc /\ m.dest \in H[m.data.dst]

(* The driver of the mode is the one that listens and receives.            *)
DriverFits(n) ==
  /\ n.m_listener = IF n.mode \in {"tap", "tun"} THEN n.mode ELSE "none"
  /\ n.mode \in TapModes => n.m_rxIf = "tap_format"
  /\ n.m_ifUp = (n.mode \in {"tap", "tun"} /\ n.m_addr # NullAddr)

(* Only the mode raw_pty has a pseudo terminal, and its peer is one of the *)
(* options of p.                                                           *)
PtyFits(p, n) ==
  /\ n.mode = "raw_pty" =>
       /\ n.m_pty_fd # 0
       /\ n.watched = ~n.restart
       /\ \E o \in Options[p] :
            o.mode = "raw_pty" /\ o.peer_address = n.m_peerAddr
  /\ n.mode # "raw_pty" => n.m_pty_fd = 0 /\ ~n.watched /\ ~n.restart

GoodNode(p, n, H) ==
  /\ n \in Node
  /\ n.m_addr # BroadcastAddr
  /\ \A i \in DOMAIN n.m_txMsg : GoodPacket(p, n.m_txMsg[i], H)
  /\ GoodCache(n.m_cache, H)
  /\ DriverFits(n)
  /\ PtyFits(p, n)
  /\ n.stage \in {"off", "dead"} => n.mode = "none"

NodesAreGood == \A p \in Proc : GoodNode(p, sn[p], had)

AddressesAreKept ==
  /\ \A p \in Proc : sn[p].m_addr \in had[p] \cup {NullAddr}
  /\ \A p \in Proc : had[p] \cap {NullAddr, BroadcastAddr} = {}

InterfaceInv ==
  \A p \in Proc :
    /\ sn[p].m_ifUp => device[p].up
    /\ device[p].up => sn[p].m_ifUp \/ (device[p].persistent /\ deaths > 0)

Inv == TypeOK /\ NodesAreGood /\ AddressesAreKept /\ InterfaceInv

(* No two processes are started with pseudo terminals for the same peer.   *)
PeersDiffer ==
  \A p, q \in Proc : \A o \in Options[p], w \in Options[q] :
    /\ p # q
    /\ o.mode = "raw_pty" /\ w.mode = "raw_pty"
    => o.peer_address # w.peer_address

LinkInv ==
  /\ \A p \in Proc :
       sn[p].mode = "raw_pty" => link[sn[p].m_peerAddr] = sn[p].m_pty_fd
  /\ \A a \in Local :
       link[a] # 0 /\ deaths = 0 =>
         \E p \in Proc : /\ sn[p].m_peerAddr = a
                         /\ sn[p].m_pty_fd = link[a]
-----------------------------------------------------------------------------
(* Facts about the constants.                                              *)

(* The addresses of the options are local addresses.                       *)
LEMMA OptionAddresses ==
  ASSUME NEW p \in Proc, NEW o \in Options[p]
  PROVE  /\ o.address \in Local /\ o.peer_address \in Local
         /\ o.address \in Int /\ o.mode \in STRING /\ o.master \in BOOLEAN
         /\ o.mtimeout \in Int
<1>1. o \in UNION {Options[q] : q \in Proc}
  OBVIOUS
<1>2. {o.address, o.peer_address} \in
        {{w.address, w.peer_address} : w \in UNION {Options[q] : q \in Proc}}
  BY <1>1
<1>3. o \in [mode : STRING, address : Int, peer_address : Int,
             master : BOOLEAN, mtimeout : Int]
  BY OptionAssumption
<1>4. o.address \in Local /\ o.peer_address \in Local
  BY <1>2 DEF Local
<1> QED
  BY <1>3, <1>4

LEMMA SpecialAddresses ==
  /\ NullAddr \in Local /\ BroadcastAddr \in Local /\ 1 \in Local
  /\ NullAddr # BroadcastAddr
  /\ NullAddr # 1 /\ BroadcastAddr # 1
  /\ Dynamic \subseteq Local \ {NullAddr, BroadcastAddr}
  /\ \A ip \in Dest : DestAddr(ip) \in Local \ {NullAddr}
<1> DEFINE O == UNION {{o.address, o.peer_address} :
                         o \in UNION {Options[p] : p \in Proc}}
           D == {DestAddr(ip) : ip \in Dest}
<1>1. Local = {NullAddr, BroadcastAddr, 1} \cup Dynamic \cup D \cup O
  BY DEF Local
<1>2. \A ip \in Dest : DestAddr(ip) \in D
  OBVIOUS
<1> HIDE DEF O, D
<1>3. NullAddr \in Local /\ BroadcastAddr \in Local /\ 1 \in Local
      /\ Dynamic \subseteq Local
  BY <1>1
<1>4. NullAddr # BroadcastAddr /\ NullAddr # 1 /\ BroadcastAddr # 1
  BY DEF NullAddr, BroadcastAddr
<1>5. \A ip \in Dest : DestAddr(ip) \in Local
  BY <1>1, <1>2
<1>6. \A ip \in Dest : DestAddr(ip) # NullAddr
  BY DestAssumption, Zenon
<1> QED
  BY <1>3, <1>4, <1>5, <1>6, DestAssumption
-----------------------------------------------------------------------------
(* What is learned stays right when nodes get further addresses.           *)

LEMMA CacheMonotone ==
  ASSUME NEW H \in Histories, NEW G \in Histories,
         \A q \in Proc : H[q] \subseteq G[q],
         NEW c, GoodCache(c, H)
  PROVE  GoodCache(c, G)
<1>1. c \in Cache
  BY DEF GoodCache
<1>2. c.table \in Seq(Row)
  BY <1>1 DEF Cache
<1>3. \A i \in DOMAIN c.table : c.table[i] \in Row
  BY <1>2
<1>4. \A i \in DOMAIN c.table : c.table[i].mac \in Proc
  BY <1>3 DEF Row
<1> QED
  BY <1>1, <1>4 DEF GoodCache

LEMMA PacketMonotone ==
  ASSUME NEW H \in Histories, NEW G \in Histories,
         \A q \in Proc : H[q] \subseteq G[q],
         NEW p \in Proc, NEW m, GoodPacket(p, m, H)
  PROVE  GoodPacket(p, m, G)
  BY DEF GoodPacket

LEMMA NodeMonotone ==
  ASSUME NEW H \in Histories, NEW G \in Histories,
         \A q \in Proc : H[q] \subseteq G[q],
         NEW p \in Proc, NEW n, GoodNode(p, n, H)
  PROVE  GoodNode(p, n, G)
<1>1. GoodCache(n.m_cache, G)
  BY CacheMonotone DEF GoodNode
<1>2. \A i \in DOMAIN n.m_txMsg : GoodPacket(p, n.m_txMsg[i], G)
  BY PacketMonotone DEF GoodNode
<1> QED
  BY <1>1, <1>2 DEF GoodNode
-----------------------------------------------------------------------------
(* AddressCache.                                                           *)

(* setAddress of an address that the host has or had keeps a cache good,   *)
(* with one row for each address.                                          *)
LEMMA SetAddressGood ==
  ASSUME NEW H \in Histories, NEW c, GoodCache(c, H),
         NEW local \in Local, NEW mac \in Proc, local \in H[mac]
  PROVE  GoodCache(SetAddress(c, local, mac), H)
<1> DEFINE row == [local |-> local, mac |-> mac]
           t == c.table
           d == SetAddress(c, local, mac)
<1>1. row \in Row /\ row.local = local /\ row.mac = mac
  BY DEF Row
<1>2. c \in Cache /\ t \in Seq(Row)
  BY DEF GoodCache, Cache
<1>3. CASE local = BroadcastAddr
  BY <1>3 DEF SetAddress
<1>4. CASE local # BroadcastAddr /\ RowOf(c, local) # {}
  <2> DEFINE u == [i \in DOMAIN t |-> IF t[i].local = local THEN row ELSE t[i]]
  <2>1. d = [c EXCEPT !.table = u]
    BY <1>4 DEF SetAddress
  <2>2. u \in Seq(Row) /\ DOMAIN u = DOMAIN t
    <3>1. DOMAIN t = 1 .. Len(t) /\ Len(t) \in Nat
      BY <1>2
    <3>2. \A i \in DOMAIN t : u[i] \in Row
      BY <1>1, <1>2
    <3>3. u \in [1 .. Len(t) -> Row]
      BY <3>1, <3>2
    <3> QED
      BY <3>1, <3>3, SeqDef
  <2>3. /\ d \in Cache /\ d.table = u
        /\ d.myLocal = c.myLocal /\ d.myMac = c.myMac
    BY <1>2, <2>1, <2>2 DEF Cache
  <2>4. \A i \in DOMAIN u : /\ u[i].local = t[i].local
                            /\ u[i].local \in H[u[i].mac]
    BY <1>1, <2>2 DEF GoodCache
  <2> HIDE DEF u, d
  <2>5. GoodCache(d, H)
    BY <2>2, <2>3, <2>4 DEF GoodCache
  <2> QED
    BY <2>5 DEF d
<1>5. CASE local # BroadcastAddr /\ RowOf(c, local) = {}
  <2> DEFINE u == Append(t, row)
  <2>1. d = [c EXCEPT !.table = u]
    BY <1>5 DEF SetAddress
  <2>2. /\ u \in Seq(Row) /\ DOMAIN u = 1 .. (Len(t) + 1)
        /\ DOMAIN t = 1 .. Len(t) /\ Len(t) \in Nat
        /\ \A i \in DOMAIN t : u[i] = t[i]
        /\ u[Len(t) + 1] = row
    BY <1>1, <1>2
  <2>3. /\ d \in Cache /\ d.table = u
        /\ d.myLocal = c.myLocal /\ d.myMac = c.myMac
    BY <1>2, <2>1, <2>2 DEF Cache
  <2>4. \A i \in DOMAIN t : t[i].local # local
    BY <1>5 DEF RowOf
  <2>5. \A i \in DOMAIN u : i \in DOMAIN t \/ i = Len(t) + 1
    BY <2>2
  <2> HIDE DEF u, d
  <2>6. \A i \in DOMAIN u : u[i].local \in H[u[i].mac]
    BY <1>1, <2>2, <2>5 DEF GoodCache
  <2>7. \A i, k \in DOMAIN u : u[i].local = u[k].local => i = k
    BY <1>1, <2>2, <2>4, <2>5 DEF GoodCache
  <2>8. GoodCache(d, H)
    BY <2>3, <2>6, <2>7 DEF GoodCache
  <2> QED
    BY <2>8 DEF d
<1> QED
  BY <1>3, <1>4, <1>5

(* updateMyMAC with an address of the own host, or with none.              *)
LEMMA UpdateMyMACGood ==
  ASSUME NEW H \in Histories, NEW c, GoodCache(c, H), NEW p \in Proc,
         NEW local \in Local, local \in H[p] \cup {NullAddr}
  PROVE  GoodCache(UpdateMyMAC(c, local, p), H)
<1> DEFINE d == UpdateMyMAC(c, local, p)
<1>1. CASE c.myLocal # NullAddr
  BY <1>1 DEF UpdateMyMAC
<1>2. CASE c.myLocal = NullAddr
  <2>1. d \in Cache /\ d.table = c.table /\ d.myLocal = local /\ d.myMac = p
    BY <1>2 DEF UpdateMyMAC, GoodCache, Cache
  <2> HIDE DEF d
  <2>2. GoodCache(d, H)
    BY <2>1 DEF GoodCache
  <2> QED
    BY <2>2 DEF d
<1> QED
  BY <1>1, <1>2

(* getLocalAddress gives an address that the host has or had, unless it    *)
(* gives none: of several rows for a MAC address, it takes the oldest.     *)
LEMMA GetLocalAddressRight ==
  ASSUME NEW H \in Histories, NEW c, GoodCache(c, H),
         NEW mac \in Proc \cup {BroadcastMac}
  PROVE  /\ GetLocalAddress(c, mac) \in Local
         /\ \/ mac = BroadcastMac
            \/ GetLocalAddress(c, mac) = NullAddr
            \/ mac \in Proc /\ GetLocalAddress(c, mac) \in H[mac]
<1> DEFINE R == RowsOf(c, mac)
           least == CHOOSE i \in R : \A k \in R : i <= k
<1>1. c \in Cache /\ NullAddr \in Local /\ BroadcastAddr \in Local
  BY SpecialAddresses DEF GoodCache
<1>2. CASE mac = BroadcastMac
  BY <1>1, <1>2 DEF GetLocalAddress
<1>3. CASE mac # BroadcastMac /\ c.myLocal # NullAddr /\ c.myMac = mac
  BY <1>1, <1>3 DEF GetLocalAddress, GoodCache, Cache
<1>4. CASE /\ mac # BroadcastMac /\ ~(c.myLocal # NullAddr /\ c.myMac = mac)
           /\ R = {}
  BY <1>1, <1>4 DEF GetLocalAddress
<1>5. CASE /\ mac # BroadcastMac /\ ~(c.myLocal # NullAddr /\ c.myMac = mac)
           /\ R # {}
  <2>1. R \subseteq Nat
    BY <1>1 DEF RowsOf, Cache
  <2>2. \E i \in R : \A k \in R : i <= k
    <3>1. PICK x \in R : \A y \in R : <<y, x>> \notin OpToRel(<, Nat)
      BY <2>1, <1>5, NatLessThanWellFounded, WFMin, Zenon
    <3>2. \A y \in R : ~(y < x)
      BY <2>1, <3>1 DEF OpToRel
    <3> QED
      BY <2>1, <3>2
  <2>3. least \in R
    BY <2>2
  <2>4. GetLocalAddress(c, mac) = c.table[least].local
    BY <1>5 DEF GetLocalAddress
  <2> HIDE DEF least
  <2>5. least \in DOMAIN c.table /\ c.table[least].mac = mac
    BY <2>3 DEF RowsOf
  <2>6. c.table[least] \in Row
    BY <1>1, <2>5 DEF Cache
  <2> QED
    BY <2>4, <2>5, <2>6, <1>5 DEF GoodCache, Row
<1> QED
  BY <1>2, <1>3, <1>4, <1>5
-----------------------------------------------------------------------------
(* HostDrivers: packets, and what is learned from them.                    *)

(* What packets and data from the host leave alone.                        *)
SameDriver(n, m) ==
  /\ m.stage = n.stage /\ m.mode = n.mode /\ m.m_addr = n.m_addr
  /\ m.m_peerAddr = n.m_peerAddr /\ m.m_ifUp = n.m_ifUp
  /\ m.m_rxIf = n.m_rxIf /\ m.m_listener = n.m_listener
  /\ m.m_pty_fd = n.m_pty_fd /\ m.watched = n.watched
  /\ m.restart = n.restart

LEMMA DriverKept ==
  ASSUME NEW H, NEW p \in Proc, NEW n, GoodNode(p, n, H),
         NEW m \in Node, SameDriver(n, m),
         \A i \in DOMAIN m.m_txMsg : GoodPacket(p, m.m_txMsg[i], H),
         GoodCache(m.m_cache, H)
  PROVE  GoodNode(p, m, H)
<1>1. m.m_addr # BroadcastAddr
      /\ (m.stage \in {"off", "dead"} => m.mode = "none")
  BY DEF GoodNode, SameDriver
<1>2. DriverFits(m)
  BY DEF GoodNode, SameDriver, DriverFits
<1>3. PtyFits(p, m)
  BY DEF GoodNode, SameDriver, PtyFits
<1> QED
  BY <1>1, <1>2, <1>3 DEF GoodNode

LEMMA SameDriverTransitive ==
  ASSUME NEW n, NEW m, NEW k, SameDriver(n, m), SameDriver(m, k)
  PROVE  SameDriver(n, k)
  BY DEF SameDriver

(* A packet is queued.                                                     *)
LEMMA PacketQueued ==
  ASSUME NEW H, NEW p \in Proc, NEW n, GoodNode(p, n, H),
         NEW packet, GoodPacket(p, packet, H)
  PROVE  LET m == [n EXCEPT !.m_txMsg = Append(@, packet)]
         IN  GoodNode(p, m, H) /\ SameDriver(n, m)
<1> DEFINE q == Append(n.m_txMsg, packet)
           m == [n EXCEPT !.m_txMsg = q]
<1>1. n \in Node /\ packet \in Message
  BY DEF GoodNode, GoodPacket
<1>2. n.m_txMsg \in Seq(Message)
  BY <1>1 DEF Node
<1>3. q \in Seq(Message)
  BY <1>1, <1>2
<1>4. \A i \in DOMAIN q :
        (i \in DOMAIN n.m_txMsg /\ q[i] = n.m_txMsg[i]) \/ q[i] = packet
  BY <1>1, <1>2
<1> HIDE DEF q
<1>5. m \in Node /\ m.m_txMsg = q /\ m.m_cache = n.m_cache
  BY <1>1, <1>3 DEF Node
<1>6. SameDriver(n, m)
  BY <1>1 DEF Node, SameDriver
<1>7. [n EXCEPT !.m_txMsg = Append(@, packet)] = m
  BY DEF q
<1> HIDE DEF m
<1>8. \A i \in DOMAIN m.m_txMsg : GoodPacket(p, m.m_txMsg[i], H)
  BY <1>4, <1>5 DEF GoodNode
<1>9. GoodCache(m.m_cache, H)
  BY <1>5 DEF GoodNode
<1>10. GoodNode(p, m, H)
  BY <1>5, <1>6, <1>8, <1>9, DriverKept
<1> QED
  BY <1>6, <1>7, <1>10

(* The cache is changed.                                                   *)
LEMMA CacheChanged ==
  ASSUME NEW H, NEW p \in Proc, NEW n, GoodNode(p, n, H),
         NEW c, GoodCache(c, H)
  PROVE  LET m == [n EXCEPT !.m_cache = c]
         IN  GoodNode(p, m, H) /\ SameDriver(n, m)
<1> DEFINE m == [n EXCEPT !.m_cache = c]
<1>1. n \in Node /\ c \in Cache
  BY DEF GoodNode, GoodCache
<1>2. m \in Node /\ m.m_txMsg = n.m_txMsg /\ m.m_cache = c
  BY <1>1 DEF Node, Cache, Row
<1>3. SameDriver(n, m)
  BY <1>1 DEF Node, SameDriver
<1> HIDE DEF m
<1>4. \A i \in DOMAIN m.m_txMsg : GoodPacket(p, m.m_txMsg[i], H)
  BY <1>2 DEF GoodNode
<1>5. GoodNode(p, m, H)
  BY <1>2, <1>3, <1>4, DriverKept
<1> QED
  BY <1>3, <1>5 DEF m

(* sendPacket: the source is the address of the node, if it has one.       *)
LEMMA HostTxSendPacketGood ==
  ASSUME NEW H, NEW p \in Proc, NEW n, GoodNode(p, n, H),
         n.m_addr \in H[p] \cup {NullAddr},
         NEW data \in Data, data.src = p,
         NEW dest \in Local, NEW chType \in ChannelType,
         chType = "tap_format" =>
           \/ data.dst = BroadcastMac
           \/ data.dst \in Proc /\ dest \in H[data.dst]
  PROVE  LET m == HostTxSendPacket(n, data, dest, chType)
         IN  GoodNode(p, m, H) /\ SameDriver(n, m)
<1>1. CASE n.m_addr = NullAddr
  BY <1>1 DEF HostTxSendPacket, SameDriver
<1>2. CASE n.m_addr # NullAddr
  <2> DEFINE packet == [type |-> "send_packet", chType |-> chType,
                        src |-> n.m_addr, dest |-> dest, data |-> data]
  <2>1. n.m_addr \in Local \ {NullAddr, BroadcastAddr}
    BY <1>2 DEF GoodNode, Node
  <2>2. packet \in Message
    BY <2>1 DEF Message
  <2>3. GoodPacket(p, packet, H)
    BY <1>2, <2>2 DEF GoodPacket
  <2>4. HostTxSendPacket(n, data, dest, chType)
          = [n EXCEPT !.m_txMsg = Append(@, packet)]
    BY <1>2 DEF HostTxSendPacket, SendPacket
  <2> HIDE DEF packet
  <2>5. LET m == [n EXCEPT !.m_txMsg = Append(@, packet)]
        IN  GoodNode(p, m, H) /\ SameDriver(n, m)
    BY <2>3, PacketQueued
  <2> QED
    BY <2>4, <2>5
<1> QED
  BY <1>1, <1>2

LEMMA HostTxSendMacUpdateGood ==
  ASSUME NEW H, NEW p \in Proc, NEW n, GoodNode(p, n, H),
         n.m_addr \in H[p] \cup {NullAddr}
  PROVE  LET m == HostTxSendMacUpdate(n, p)
         IN  GoodNode(p, m, H) /\ SameDriver(n, m)
<1>1. CASE n.m_addr = NullAddr
  BY <1>1 DEF HostTxSendMacUpdate, SameDriver
<1>2. CASE n.m_addr # NullAddr
  <2> DEFINE packet == [type |-> "mac_update", chType |-> "illegal_type",
                        src |-> n.m_addr, dest |-> BroadcastAddr,
                        data |-> [src |-> p, dst |-> BroadcastMac,
                                  arp |-> FALSE]]
  <2>1. /\ n.m_addr \in Local \ {NullAddr, BroadcastAddr}
        /\ BroadcastAddr \in Local
    BY <1>2, SpecialAddresses DEF GoodNode, Node
  <2>2. packet \in Message
    BY <2>1 DEF Message, Data, ChannelType
  <2>3. GoodPacket(p, packet, H)
    BY <1>2, <2>2 DEF GoodPacket
  <2>4. HostTxSendMacUpdate(n, p) = [n EXCEPT !.m_txMsg = Append(@, packet)]
    BY <1>2 DEF HostTxSendMacUpdate
  <2> HIDE DEF packet
  <2>5. LET m == [n EXCEPT !.m_txMsg = Append(@, packet)]
        IN  GoodNode(p, m, H) /\ SameDriver(n, m)
    BY <2>3, PacketQueued
  <2> QED
    BY <2>4, <2>5
<1> QED
  BY <1>1, <1>2

(* A frame from the host: its source, and an update before it if it is an  *)
(* ARP message.                                                            *)
LEMMA TapDoReadGood ==
  ASSUME NEW H \in Histories, NEW p \in Proc, NEW n, GoodNode(p, n, H),
         n.m_addr \in H[p] \cup {NullAddr},
         NEW frame \in Data, frame.src = p
  PROVE  LET m == TapDoRead(n, frame)
         IN  GoodNode(p, m, H) /\ SameDriver(n, m)
<1> DEFINE cache == UpdateMyMAC(n.m_cache, n.m_addr, frame.src)
           dest == GetLocalAddress(cache, frame.dst)
           read == [n EXCEPT !.m_cache = cache]
           told == CheckArp(read, frame)
           sent == HostTxSendPacket(told, frame, dest, "tap_format")
<1>1. n.m_addr \in Local /\ GoodCache(n.m_cache, H)
  BY DEF GoodNode, Node
<1>2. GoodCache(cache, H)
  BY <1>1, UpdateMyMACGood
<1>3. frame.dst \in Proc \cup {BroadcastMac}
  BY DEF Data
<1>4. TapDoRead(n, frame) = IF dest = NullAddr THEN read ELSE sent
  BY DEF TapDoRead
<1> HIDE DEF cache
<1>5. /\ dest \in Local
      /\ \/ frame.dst = BroadcastMac
         \/ dest = NullAddr
         \/ frame.dst \in Proc /\ dest \in H[frame.dst]
  BY <1>2, <1>3, GetLocalAddressRight
<1>6. GoodNode(p, read, H) /\ SameDriver(n, read)
  BY <1>2, CacheChanged
<1> HIDE DEF read, dest
<1>7. read.m_addr \in H[p] \cup {NullAddr}
  BY <1>6 DEF SameDriver
<1>8. GoodNode(p, told, H) /\ SameDriver(read, told)
  <2>1. CASE frame.arp
    <3>1. told = HostTxSendMacUpdate(read, p)
      BY <2>1 DEF CheckArp
    <3>2. LET m == HostTxSendMacUpdate(read, p)
          IN  GoodNode(p, m, H) /\ SameDriver(read, m)
      BY <1>6, <1>7, HostTxSendMacUpdateGood
    <3> QED
      BY <3>1, <3>2
  <2>2. CASE ~frame.arp
    BY <1>6, <2>2 DEF CheckArp, SameDriver
  <2> QED
    BY <2>1, <2>2
<1> HIDE DEF told
<1>9. told.m_addr \in H[p] \cup {NullAddr} /\ SameDriver(n, told)
  BY <1>6, <1>7, <1>8, SameDriverTransitive DEF SameDriver
<1>10. CASE dest = NullAddr
  BY <1>4, <1>6, <1>10
<1>11. CASE dest # NullAddr
  <2>1. "tap_format" \in ChannelType
    BY DEF ChannelType
  <2>2. "tap_format" = "tap_format" =>
          \/ frame.dst = BroadcastMac
          \/ frame.dst \in Proc /\ dest \in H[frame.dst]
    BY <1>5, <1>11
  <2>3. GoodNode(p, sent, H) /\ SameDriver(told, sent)
    BY <1>5, <1>8, <1>9, <2>1, <2>2, HostTxSendPacketGood
  <2> HIDE DEF sent
  <2>4. SameDriver(n, sent)
    BY <1>9, <2>3, SameDriverTransitive
  <2> QED
    BY <1>4, <1>11, <2>3, <2>4
<1> QED
  BY <1>10, <1>11

(* Data from a socat tun stream: its header, then the rest.                *)
LEMMA SocatTunDoReadGood ==
  ASSUME NEW H, NEW p \in Proc, NEW n, GoodNode(p, n, H),
         n.m_addr \in H[p] \cup {NullAddr},
         NEW data \in Data, data.src = p, NEW ip \in Dest
  PROVE  LET m == SocatTunDoRead(n, data, ip)
         IN  GoodNode(p, m, H) /\ SameDriver(n, m)
<1>1. n \in Node /\ DestAddr(ip) \in Local /\ NullAddr \in Local
      /\ n.m_rxTunPacket \in Local
  BY SpecialAddresses DEF GoodNode, Node
<1>2. ASSUME NEW a \in Local
      PROVE  LET m == [n EXCEPT !.m_rxTunPacket = a]
             IN  GoodNode(p, m, H) /\ SameDriver(n, m)
  <2> DEFINE m == [n EXCEPT !.m_rxTunPacket = a]
  <2>1. m \in Node /\ m.m_txMsg = n.m_txMsg /\ m.m_cache = n.m_cache
    BY <1>1 DEF Node
  <2>2. SameDriver(n, m)
    BY <1>1 DEF Node, SameDriver
  <2> HIDE DEF m
  <2>3. /\ \A i \in DOMAIN m.m_txMsg : GoodPacket(p, m.m_txMsg[i], H)
        /\ GoodCache(m.m_cache, H)
    BY <2>1 DEF GoodNode
  <2>4. GoodNode(p, m, H)
    BY <2>1, <2>2, <2>3, DriverKept
  <2> QED
    BY <2>2, <2>4 DEF m
<1>3. CASE n.m_rxTunPacket = NullAddr
  BY <1>1, <1>2, <1>3 DEF SocatTunDoRead
<1>4. CASE n.m_rxTunPacket # NullAddr
  <2> DEFINE m == [n EXCEPT !.m_rxTunPacket = NullAddr]
             k == HostTxSendPacket(m, data, n.m_rxTunPacket, "tun_format")
  <2>1. SocatTunDoRead(n, data, ip) = k
    BY <1>4 DEF SocatTunDoRead
  <2>2. GoodNode(p, m, H) /\ SameDriver(n, m)
    BY <1>1, <1>2
  <2> HIDE DEF m
  <2>3. m.m_addr \in H[p] \cup {NullAddr} /\ "tun_format" \in ChannelType
    BY <2>2 DEF SameDriver, ChannelType
  <2>4. GoodNode(p, k, H) /\ SameDriver(m, k)
    BY <1>1, <2>2, <2>3, HostTxSendPacketGood
  <2> HIDE DEF k
  <2>5. SameDriver(n, k)
    BY <2>2, <2>4, SameDriverTransitive
  <2> QED
    BY <2>1, <2>4, <2>5
<1> QED
  BY <1>3, <1>4

(* A packet from the bus, queued by some process q.                        *)
LEMMA RxPacketGood ==
  ASSUME NEW H \in Histories, NEW p \in Proc, NEW n, GoodNode(p, n, H),
         NEW q \in Proc, NEW packet, GoodPacket(q, packet, H)
  PROVE  LET m == RxPacket(n, packet)
         IN  GoodNode(p, m, H) /\ SameDriver(n, m)
<1> DEFINE c == SetAddress(n.m_cache, packet.src, packet.data.src)
           m == [n EXCEPT !.m_cache = c]
<1>1. packet.src \in Local /\ packet.src \in H[q] /\ packet.data.src = q
  BY DEF GoodPacket, Message
<1>2. GoodCache(n.m_cache, H)
  BY DEF GoodNode
<1>3. GoodCache(c, H)
  BY <1>1, <1>2, SetAddressGood
<1>4. RxPacket(n, packet) \in {n, m}
  BY DEF RxPacket, Learn
<1> HIDE DEF c
<1>5. GoodNode(p, m, H) /\ SameDriver(n, m)
  BY <1>3, CacheChanged
<1>6. SameDriver(n, n)
  BY DEF SameDriver
<1> HIDE DEF m
<1> QED
  BY <1>4, <1>5, <1>6
-----------------------------------------------------------------------------
(* HostDrivers: the own address, and the start of a process.               *)

(* What a new address leaves alone.                                        *)
SamePty(n, m) ==
  /\ m.stage = n.stage /\ m.mode = n.mode /\ m.m_peerAddr = n.m_peerAddr
  /\ m.m_pty_fd = n.m_pty_fd /\ m.watched = n.watched
  /\ m.restart = n.restart

LEMMA SetOwnAddressGood ==
  ASSUME NEW H, NEW p \in Proc, NEW n, GoodNode(p, n, H),
         NEW a \in Local \ {BroadcastAddr}
  PROVE  LET m == SetOwnAddress(n, a)
         IN  GoodNode(p, m, H) /\ SamePty(n, m) /\ m.m_addr = a
<1> DEFINE m == SetOwnAddress(n, a)
           b == [n EXCEPT !.m_addr = a]
           up == (a # NullAddr)
           e == [b EXCEPT !.m_ifUp = up]
<1>1. n \in Node /\ DriverFits(n)
  BY DEF GoodNode
<1>2. /\ b \in Node /\ b.m_addr = a /\ b.m_ifUp = n.m_ifUp
      /\ b.m_txMsg = n.m_txMsg /\ b.m_cache = n.m_cache
      /\ b.m_rxIf = n.m_rxIf /\ b.m_listener = n.m_listener
      /\ SamePty(n, b)
  BY <1>1 DEF Node, SamePty
<1>3. m = IF n.m_addr # a /\ n.m_listener \in {"tap", "tun"} THEN e ELSE b
  <2>1. b.m_listener = n.m_listener
    BY <1>2
  <2> HIDE DEF b
  <2>2. NewAddr(b, a) = IF n.m_listener \in {"tap", "tun"} THEN e ELSE b
    BY <2>1 DEF NewAddr, TapNewAddr, TunNewAddr
  <2>3. m = IF n.m_addr # a THEN NewAddr(b, a) ELSE b
    BY DEF SetOwnAddress, b
  <2> QED
    BY <2>2, <2>3
<1> HIDE DEF b, m
<1>4. up \in BOOLEAN
  OBVIOUS
<1>5. /\ e \in Node /\ e.m_addr = a /\ e.m_ifUp = up
      /\ e.m_txMsg = n.m_txMsg /\ e.m_cache = n.m_cache
      /\ e.m_rxIf = n.m_rxIf /\ e.m_listener = n.m_listener
      /\ SamePty(n, e)
  <2> HIDE DEF up
  <2> QED
    BY <1>2, <1>4 DEF Node, SamePty
<1> HIDE DEF e
<1>6. /\ m \in Node /\ m.m_addr = a
      /\ m.m_txMsg = n.m_txMsg /\ m.m_cache = n.m_cache
      /\ m.m_rxIf = n.m_rxIf /\ m.m_listener = n.m_listener
      /\ SamePty(n, m)
  BY <1>2, <1>3, <1>5
<1>7. n.mode \in {"tap", "tun"} <=> n.m_listener \in {"tap", "tun"}
  BY <1>1 DEF DriverFits
<1>8. m.m_ifUp = (n.mode \in {"tap", "tun"} /\ a # NullAddr)
  <2>1. CASE n.m_addr # a /\ n.m_listener \in {"tap", "tun"}
    BY <2>1, <1>3, <1>5, <1>7
  <2>2. CASE n.m_addr # a /\ n.m_listener \notin {"tap", "tun"}
    BY <2>2, <1>1, <1>2, <1>3, <1>7 DEF DriverFits
  <2>3. CASE n.m_addr = a
    BY <2>3, <1>1, <1>2, <1>3 DEF DriverFits
  <2> QED
    BY <2>1, <2>2, <2>3
<1>9. DriverFits(m)
  BY <1>1, <1>6, <1>8 DEF DriverFits, SamePty
<1>10. PtyFits(p, m)
  BY <1>6 DEF GoodNode, PtyFits, SamePty
<1>11. /\ \A i \in DOMAIN m.m_txMsg : GoodPacket(p, m.m_txMsg[i], H)
       /\ GoodCache(m.m_cache, H)
  BY <1>6 DEF GoodNode
<1>12. m.m_addr # BroadcastAddr
       /\ (m.stage \in {"off", "dead"} => m.mode = "none")
  BY <1>6 DEF GoodNode, SamePty
<1>13. GoodNode(p, m, H)
  BY <1>6, <1>9, <1>10, <1>11, <1>12 DEF GoodNode
<1> QED
  BY <1>6, <1>13 DEF m

(* master_started takes dynamic addresses away.                            *)
LEMMA MasterStartedGood ==
  ASSUME NEW H, NEW p \in Proc, NEW n, GoodNode(p, n, H)
  PROVE  LET m == MasterStarted(n) IN GoodNode(p, m, H) /\ SamePty(n, m)
<1>1. CASE n.m_dynamic
  <2>1. NullAddr \in Local \ {BroadcastAddr}
    BY SpecialAddresses
  <2>2. GoodNode(p, SetOwnAddress(n, NullAddr), H)
        /\ SamePty(n, SetOwnAddress(n, NullAddr))
    BY <2>1, SetOwnAddressGood
  <2> QED
    BY <1>1, <2>2 DEF MasterStarted
<1>2. CASE ~n.m_dynamic
  BY <1>2 DEF MasterStarted, SamePty
<1> QED
  BY <1>1, <1>2

LEMMA EmptyCacheGood ==
  ASSUME NEW H PROVE GoodCache(EmptyCache, H)
<1>1. EmptyCache.table = <<>> /\ EmptyCache.myLocal = NullAddr
      /\ EmptyCache.myMac = BroadcastMac
  BY DEF EmptyCache
<1>2. EmptyCache \in Cache
  BY SpecialAddresses DEF EmptyCache, Cache
<1>3. DOMAIN EmptyCache.table = {}
  BY <1>1
<1> QED
  BY <1>1, <1>2, <1>3 DEF GoodCache

LEMMA OffFields ==
  /\ Off \in Node
  /\ Off.stage = "off" /\ Off.mode = "none" /\ Off.m_addr = NullAddr
  /\ Off.m_txMsg = <<>> /\ Off.m_cache = EmptyCache /\ Off.m_ifUp = FALSE
  /\ Off.m_rxIf = "illegal_type" /\ Off.m_listener = "none"
  /\ Off.m_pty_fd = 0 /\ Off.watched = FALSE /\ Off.restart = FALSE
<1>1. EmptyCache \in Cache
  BY EmptyCacheGood DEF GoodCache
<1>2. 0 \in 0 .. PtyLimit
  BY BoundAssumption
<1> QED
  BY <1>1, <1>2, SpecialAddresses
  DEF Off, Node, Cache, Row, Mode, ChannelType

(* A process that has ended, however.                                      *)
LEMMA EndedGood ==
  ASSUME NEW H, NEW p \in Proc, NEW n \in {Off, Dead}
  PROVE  /\ GoodNode(p, n, H)
         /\ n.stage \in {"off", "dead"} /\ n.mode = "none"
         /\ n.m_ifUp = FALSE /\ n.m_pty_fd = 0 /\ n.m_addr = NullAddr
<1>1. /\ n \in Node
      /\ n.stage \in {"off", "dead"} /\ n.mode = "none" /\ n.m_addr = NullAddr
      /\ n.m_txMsg = <<>> /\ n.m_cache = EmptyCache /\ n.m_ifUp = FALSE
      /\ n.m_rxIf = "illegal_type" /\ n.m_listener = "none"
      /\ n.m_pty_fd = 0 /\ n.watched = FALSE /\ n.restart = FALSE
  <2>1. CASE n = Off
    BY <2>1, OffFields
  <2>2. CASE n = Dead
    BY <2>2, OffFields DEF Dead, Node
  <2> QED
    BY <2>1, <2>2
<1>2. GoodCache(n.m_cache, H)
  BY <1>1, EmptyCacheGood
<1>3. DriverFits(n) /\ PtyFits(p, n)
  BY <1>1 DEF DriverFits, PtyFits, TapModes
<1>4. DOMAIN n.m_txMsg = {}
  BY <1>1
<1>5. n.m_addr # BroadcastAddr
  BY <1>1, SpecialAddresses
<1> QED
  BY <1>1, <1>2, <1>3, <1>4, <1>5 DEF GoodNode

(* What start builds from valid options, before it opens a pty.            *)
LEMMA BuiltFields ==
  ASSUME NEW p \in Proc, NEW o \in Options[p], ValidOptions(o)
  PROVE  LET n == Built(o)
         IN  /\ n \in Node
             /\ n.stage = "loop" /\ n.mode = ToMode(o.mode)
             /\ n.m_addr # BroadcastAddr /\ n.m_peerAddr = o.peer_address
             /\ n.m_txMsg = <<>> /\ n.m_cache = EmptyCache
             /\ DriverFits(n)
             /\ n.m_pty_fd = 0 /\ n.watched = FALSE /\ n.restart = FALSE
<1> DEFINE a == StaticAddr(o)
           mode == ToMode(o.mode)
           dynamic == (a = NullAddr)
           timeout == (o.master /\ o.mtimeout > -1)
           b == [Off EXCEPT !.stage = "loop", !.mode = mode, !.m_addr = a,
                            !.m_dynamic = dynamic,
                            !.m_peerAddr = o.peer_address,
                            !.m_master = o.master, !.m_masterTimeout = timeout]
           up == (a # NullAddr)
           n == Built(o)
<1>1. n = StartDriver(b)
  BY DEF Built
<1>2. a \in Local /\ a # BroadcastAddr
  BY OptionAddresses, SpecialAddresses
  DEF StaticAddr, ValidOptions, BroadcastAddr
<1>3. mode \in Mode
  BY DEF ToMode, Mode
<1>4. dynamic \in BOOLEAN /\ timeout \in BOOLEAN /\ up \in BOOLEAN
  BY OptionAddresses
<1>5. o.peer_address \in Local /\ o.master \in BOOLEAN
  BY OptionAddresses
<1> HIDE DEF a, mode, dynamic, timeout, n
<1>6. /\ b \in Node
      /\ b.stage = "loop" /\ b.mode = mode /\ b.m_addr = a
      /\ b.m_peerAddr = o.peer_address
      /\ b.m_txMsg = <<>> /\ b.m_cache = EmptyCache /\ b.m_ifUp = FALSE
      /\ b.m_listener = "none" /\ b.m_rxIf = "illegal_type"
      /\ b.m_pty_fd = 0 /\ b.watched = FALSE /\ b.restart = FALSE
  BY <1>2, <1>3, <1>4, <1>5, OffFields DEF Node
<1> HIDE DEF b
<1> DEFINE Rest(k) ==
             /\ k \in Node
             /\ k.stage = "loop" /\ k.mode = mode /\ k.m_addr = a
             /\ k.m_peerAddr = o.peer_address
             /\ k.m_txMsg = <<>> /\ k.m_cache = EmptyCache
             /\ k.m_pty_fd = 0 /\ k.watched = FALSE /\ k.restart = FALSE
<1>7. ASSUME NEW l \in {"tap", "tun"}, NEW c \in ChannelType
      PROVE  LET k == [SetListener(SetRxHandler(b, c), l) EXCEPT !.m_ifUp = up]
             IN  Rest(k) /\ k.m_listener = l /\ k.m_rxIf = c /\ k.m_ifUp = up
  <2> HIDE DEF up
  <2> QED
    BY <1>4, <1>6 DEF SetListener, SetRxHandler, Node
<1>8. ASSUME NEW c \in ChannelType
      PROVE  LET k == SetRxHandler(b, c)
             IN  Rest(k) /\ k.m_listener = "none" /\ k.m_rxIf = c
                 /\ k.m_ifUp = FALSE
  BY <1>6 DEF SetRxHandler, Node
<1>9. /\ "tap_format" \in ChannelType /\ "tun_format" \in ChannelType
      /\ "raw_stream" \in ChannelType
  BY DEF ChannelType
<1>10. Rest(n) /\ DriverFits(n)
  <2>1. CASE mode = "tap"
    <3>1. n = [SetListener(SetRxHandler(b, "tap_format"), "tap")
                 EXCEPT !.m_ifUp = up]
      BY <1>1, <1>6, <2>1 DEF StartDriver, StartTap, TapNewAddr
    <3>2. Rest(n) /\ n.m_listener = "tap" /\ n.m_rxIf = "tap_format"
          /\ n.m_ifUp = up
      BY <3>1, <1>7, <1>9
    <3> QED
      BY <3>2, <2>1 DEF DriverFits, TapModes
  <2>2. CASE mode = "tun"
    <3>1. n = [SetListener(SetRxHandler(b, "tun_format"), "tun")
                 EXCEPT !.m_ifUp = up]
      BY <1>1, <1>6, <2>2 DEF StartDriver, StartTun, TunNewAddr
    <3>2. Rest(n) /\ n.m_listener = "tun" /\ n.m_ifUp = up
      BY <3>1, <1>7, <1>9
    <3> QED
      BY <3>2, <2>2 DEF DriverFits, TapModes
  <2>3. CASE mode = "socat_tap"
    <3>1. n = SetRxHandler(b, "tap_format")
      BY <1>1, <1>6, <2>3 DEF StartDriver, StartSocatTap
    <3>2. Rest(n) /\ n.m_listener = "none" /\ n.m_rxIf = "tap_format"
          /\ n.m_ifUp = FALSE
      BY <3>1, <1>8, <1>9
    <3> QED
      BY <3>2, <2>3 DEF DriverFits, TapModes
  <2>4. CASE mode \in {"socat_tun", "raw_pty"}
    <3>1. PICK c \in {"tun_format", "raw_stream"} : n = SetRxHandler(b, c)
      BY <1>1, <1>6, <2>4 DEF StartDriver, StartSocatTun, SetupPty
    <3>2. c \in ChannelType
      BY <1>9
    <3>3. LET k == SetRxHandler(b, c)
          IN  Rest(k) /\ k.m_listener = "none" /\ k.m_ifUp = FALSE
      BY <3>2, <1>8
    <3>4. Rest(n) /\ n.m_listener = "none" /\ n.m_ifUp = FALSE
      BY <3>1, <3>3
    <3> QED
      BY <3>4, <2>4 DEF DriverFits, TapModes
  <2>5. CASE mode \notin {"tap", "tun", "socat_tap", "socat_tun", "raw_pty"}
    <3>1. n = b
      BY <1>1, <1>6, <2>5 DEF StartDriver
    <3> QED
      BY <3>1, <1>6, <2>5 DEF DriverFits, TapModes
  <2> QED
    BY <2>1, <2>2, <2>3, <2>4, <2>5
<1> QED
  BY <1>2, <1>10 DEF mode, n

LEMMA BuiltGood ==
  ASSUME NEW H, NEW p \in Proc, NEW o \in Options[p], ValidOptions(o),
         o.mode # "raw_pty"
  PROVE  GoodNode(p, Built(o), H) /\ Built(o).mode # "raw_pty"
         /\ Built(o).stage = "loop" /\ Built(o).m_pty_fd = 0
<1> DEFINE n == Built(o)
<1>1. /\ n \in Node
      /\ n.stage = "loop" /\ n.mode = ToMode(o.mode)
      /\ n.m_addr # BroadcastAddr /\ n.m_peerAddr = o.peer_address
      /\ n.m_txMsg = <<>> /\ n.m_cache = EmptyCache
      /\ DriverFits(n)
      /\ n.m_pty_fd = 0 /\ n.watched = FALSE /\ n.restart = FALSE
  BY BuiltFields
<1> HIDE DEF n
<1>2. n.mode # "raw_pty"
  BY <1>1 DEF ToMode
<1>3. PtyFits(p, n)
  BY <1>1, <1>2 DEF PtyFits
<1>4. GoodCache(n.m_cache, H) /\ DOMAIN n.m_txMsg = {}
  BY <1>1, EmptyCacheGood
<1>5. GoodNode(p, n, H)
  BY <1>1, <1>3, <1>4 DEF GoodNode
<1> QED
  BY <1>1, <1>2, <1>5 DEF n

LEMMA BuiltPtyGood ==
  ASSUME NEW H, NEW p \in Proc, NEW o \in Options[p], ValidOptions(o),
         o.mode = "raw_pty", NEW pty \in 1 .. PtyLimit
  PROVE  LET n == [SetFd(Built(o), pty) EXCEPT !.watched = TRUE]
         IN  /\ GoodNode(p, n, H)
             /\ n.stage = "loop" /\ n.mode = "raw_pty"
             /\ n.m_peerAddr = o.peer_address /\ n.m_pty_fd = pty
<1> DEFINE k == Built(o)
           n == [SetFd(k, pty) EXCEPT !.watched = TRUE]
<1>1. /\ k \in Node
      /\ k.stage = "loop" /\ k.mode = ToMode(o.mode)
      /\ k.m_addr # BroadcastAddr /\ k.m_peerAddr = o.peer_address
      /\ k.m_txMsg = <<>> /\ k.m_cache = EmptyCache
      /\ DriverFits(k)
      /\ k.m_pty_fd = 0 /\ k.watched = FALSE /\ k.restart = FALSE
  BY BuiltFields
<1> HIDE DEF k
<1>2. k.mode = "raw_pty"
  BY <1>1 DEF ToMode, Mode
<1>3. pty \in 0 .. PtyLimit /\ pty # 0
  BY BoundAssumption
<1>4. /\ n \in Node
      /\ n.stage = "loop" /\ n.mode = "raw_pty"
      /\ n.m_addr # BroadcastAddr /\ n.m_peerAddr = o.peer_address
      /\ n.m_txMsg = <<>> /\ n.m_cache = EmptyCache
      /\ n.m_pty_fd = pty /\ n.watched = TRUE /\ n.restart = FALSE
      /\ n.m_ifUp = k.m_ifUp /\ n.m_listener = k.m_listener
      /\ n.m_rxIf = k.m_rxIf
  BY <1>1, <1>2, <1>3 DEF SetFd, Node
<1> HIDE DEF n
<1>5. PtyFits(p, n)
  BY <1>3, <1>4 DEF PtyFits
<1>6. DriverFits(n)
  BY <1>1, <1>2, <1>4 DEF DriverFits, TapModes
<1>7. GoodCache(n.m_cache, H) /\ DOMAIN n.m_txMsg = {}
  BY <1>4, EmptyCacheGood
<1>8. GoodNode(p, n, H)
  BY <1>4, <1>5, <1>6, <1>7 DEF GoodNode
<1> QED
  BY <1>4, <1>8 DEF n, k
-----------------------------------------------------------------------------
(* Steps of processes.                                                     *)

(* What a step does to the numbers and to what is written.                 *)
CountersKept ==
  /\ written' \subseteq Proc \X Data
  /\ starts' \in 0 .. StartLimit /\ deaths' \in 0 .. DeathLimit
  /\ reads' \in 0 .. ReadLimit
  /\ deaths' = deaths \/ deaths' > 0

(* Good nodes, and interfaces that follow them: a process that ends        *)
(* without taking its interface down has died.                             *)
LEMMA InvKept ==
  ASSUME Inv, sn' \in [Proc -> Node],
         \A p \in Proc : GoodNode(p, sn'[p], had),
         Consequences, CountersKept,
         link' \in [Local -> 0 .. PtyLimit],
         \A p \in Proc : sn'[p].stage = "dead" =>
                           sn[p].m_ifUp = FALSE \/ deaths' > 0
  PROVE  Inv'
<1> USE DEF Inv
<1>1. /\ device \in [Proc -> [persistent : BOOLEAN, up : BOOLEAN]]
      /\ had \in [Proc -> SUBSET Local] /\ sn \in [Proc -> Node]
  BY DEF TypeOK
<1>2. \A p \in Proc : had'[p] = had[p] \cup ({sn'[p].m_addr} \ {NullAddr})
  BY DEF Consequences
<1>3. \A p \in Proc : sn'[p].m_addr \in Local /\ sn'[p].m_addr # BroadcastAddr
                      /\ sn'[p].m_ifUp \in BOOLEAN
  BY DEF GoodNode, Node
<1>4. had' \in [Proc -> SUBSET Local]
  BY <1>1, <1>3 DEF Consequences
<1>5. \A p \in Proc : had[p] \subseteq had'[p]
  BY <1>2
<1>6. NodesAreGood'
  <2> SUFFICES ASSUME NEW p \in Proc PROVE GoodNode(p, sn'[p], had')
    BY DEF NodesAreGood
  <2>1. had \in Histories /\ had' \in Histories
    BY <1>1, <1>4 DEF Histories
  <2>2. GoodNode(p, sn'[p], had)
    OBVIOUS
  <2> QED
    BY <1>5, <2>1, <2>2, NodeMonotone
<1>7. AddressesAreKept'
  BY <1>2, <1>3 DEF AddressesAreKept
<1>8. \A p \in Proc : device'[p] = DeviceAfter(p)
  BY DEF Consequences
<1>9. \A p \in Proc : device'[p] \in [persistent : BOOLEAN, up : BOOLEAN]
  BY <1>1, <1>3, <1>8 DEF DeviceAfter
<1>10. device' \in [Proc -> [persistent : BOOLEAN, up : BOOLEAN]]
  BY <1>9 DEF Consequences
<1>11. ASSUME NEW p \in Proc
       PROVE  /\ sn'[p].m_ifUp => device'[p].up
              /\ device'[p].up =>
                   sn'[p].m_ifUp \/ (device'[p].persistent /\ deaths' > 0)
  <2> DEFINE n == sn[p]  m == sn'[p]  d == device[p]  e == device'[p]
  <2>1. /\ n.m_ifUp => d.up
        /\ d.up => n.m_ifUp \/ (d.persistent /\ deaths > 0)
    BY DEF InterfaceInv
  <2>2. m.stage \in {"off", "dead"} => m.m_ifUp = FALSE
    BY DEF GoodNode, DriverFits
  <2>3. deaths' = deaths \/ deaths' > 0
    BY DEF CountersKept
  <2>4. m.stage = "dead" => n.m_ifUp = FALSE \/ deaths' > 0
    OBVIOUS
  <2>5. d \in [persistent : BOOLEAN, up : BOOLEAN]
        /\ m.m_ifUp \in BOOLEAN /\ n.m_ifUp \in BOOLEAN
    BY <1>1, <1>3 DEF Node
  <2>6. e = IF m.stage \in {"off", "dead"} /\ ~d.persistent
            THEN [d EXCEPT !.up = FALSE]
            ELSE IF m.m_ifUp # n.m_ifUp /\ m.stage # "dead"
            THEN [d EXCEPT !.up = m.m_ifUp]
            ELSE d
    BY <1>8 DEF DeviceAfter
  <2> HIDE DEF n, m, d, e
  <2>7. /\ m.m_ifUp => e.up
        /\ e.up => m.m_ifUp \/ (e.persistent /\ deaths' > 0)
    <3>1. CASE m.stage \in {"off", "dead"} /\ ~d.persistent
      BY <3>1, <2>2, <2>5, <2>6
    <3>2. CASE /\ ~(m.stage \in {"off", "dead"} /\ ~d.persistent)
               /\ m.m_ifUp # n.m_ifUp /\ m.stage # "dead"
      BY <3>2, <2>5, <2>6
    <3>3. CASE /\ ~(m.stage \in {"off", "dead"} /\ ~d.persistent)
               /\ ~(m.m_ifUp # n.m_ifUp /\ m.stage # "dead")
      <4>1. e = d
        BY <3>3, <2>6
      <4>2. CASE m.m_ifUp = n.m_ifUp
        BY <4>1, <4>2, <2>1, <2>3
      <4>3. CASE m.stage = "dead"
        BY <4>1, <4>3, <3>3, <2>1, <2>2, <2>3, <2>4
      <4> QED
        BY <4>2, <4>3, <3>3
    <3> QED
      BY <3>1, <3>2, <3>3
  <2> QED
    BY <2>7 DEF m, e
<1>12. InterfaceInv'
  BY <1>11 DEF InterfaceInv
<1>13. TypeOK'
  BY <1>4, <1>10 DEF TypeOK, CountersKept
<1> QED
  BY <1>6, <1>7, <1>12, <1>13

(* The same for steps that leave addresses and interfaces alone.           *)
LEMMA InvKeptQuietly ==
  ASSUME Inv, sn' \in [Proc -> Node],
         \A p \in Proc : GoodNode(p, sn'[p], had),
         \A p \in Proc : sn'[p].m_addr \in {sn[p].m_addr, NullAddr},
         \A p \in Proc : sn'[p].m_ifUp = sn[p].m_ifUp,
         UNCHANGED <<link, device, had, deaths>>, CountersKept
  PROVE  Inv'
<1> USE DEF Inv
<1>1. TypeOK'
  BY DEF TypeOK, CountersKept
<1>2. NodesAreGood'
  BY DEF NodesAreGood
<1>3. AddressesAreKept'
  BY DEF AddressesAreKept
<1>4. InterfaceInv'
  BY DEF InterfaceInv
<1> QED
  BY <1>1, <1>2, <1>3, <1>4

(* The links stay right if the processes with pseudo terminals keep them,  *)
(* unless one of them dies.                                                *)
LEMMA LinkKept ==
  ASSUME Inv, Inv', LinkInv, link' = link,
         deaths' = deaths \/ deaths' > 0,
         \A p \in Proc :
           \/ /\ sn'[p].mode = sn[p].mode
              /\ sn'[p].m_peerAddr = sn[p].m_peerAddr
              /\ sn'[p].m_pty_fd = sn[p].m_pty_fd
           \/ /\ sn'[p].mode # "raw_pty"
              /\ sn[p].m_pty_fd = 0 \/ deaths' > 0
  PROVE  LinkInv'
<1>1. ASSUME NEW p \in Proc, sn'[p].mode = "raw_pty"
      PROVE  link'[sn'[p].m_peerAddr] = sn'[p].m_pty_fd
  BY <1>1 DEF LinkInv
<1>2. ASSUME NEW a \in Local, link'[a] # 0, deaths' = 0
      PROVE  \E p \in Proc : /\ sn'[p].m_peerAddr = a
                             /\ sn'[p].m_pty_fd = link'[a]
  <2>1. link[a] # 0 /\ deaths = 0
    BY <1>2
  <2>2. PICK p \in Proc : sn[p].m_peerAddr = a /\ sn[p].m_pty_fd = link[a]
    BY <2>1 DEF LinkInv
  <2>3. sn'[p].m_peerAddr = a /\ sn'[p].m_pty_fd = link[a]
    BY <1>2, <2>1, <2>2
  <2> QED
    BY <2>3
<1> QED
  BY <1>1, <1>2 DEF LinkInv
-----------------------------------------------------------------------------
(* The actions.                                                            *)

(* No running process ends without a destructor, unless it is counted.     *)
Survival ==
  \A q \in Proc : Running(q) /\ sn'[q].stage = "dead" => deaths' = deaths + 1

Kept == Inv' /\ (PeersDiffer /\ LinkInv => LinkInv' /\ Survival)

LEMMA EndedIsDown ==
  ASSUME Inv, NEW p \in Proc
  PROVE  /\ sn[p] \in Node /\ GoodNode(p, sn[p], had)
         /\ sn[p].m_addr \in had[p] \cup {NullAddr}
         /\ sn[p].stage \in {"off", "dead"} =>
              sn[p].mode = "none" /\ sn[p].m_ifUp = FALSE /\ sn[p].m_pty_fd = 0
         /\ sn[p].mode # "raw_pty" => sn[p].m_pty_fd = 0
         /\ sn[p].mode = "raw_pty" => sn[p].m_ifUp = FALSE
  BY DEF Inv, NodesAreGood, AddressesAreKept, GoodNode, DriverFits, PtyFits

(* One process changes.                                                    *)
LEMMA OneProcess ==
  ASSUME Inv, NEW p \in Proc, NEW node, GoodNode(p, node, had),
         sn' = [sn EXCEPT ![p] = node]
  PROVE  /\ sn' \in [Proc -> Node]
         /\ \A q \in Proc : GoodNode(q, sn'[q], had)
         /\ sn'[p] = node
         /\ \A q \in Proc \ {p} : sn'[q] = sn[q]
<1>1. sn \in [Proc -> Node] /\ node \in Node
  BY DEF Inv, TypeOK, GoodNode
<1> QED
  BY <1>1 DEF Inv, NodesAreGood

LEMMA StartCounted ==
  ASSUME Inv, starts < StartLimit, starts' = starts + 1, written' = {},
         UNCHANGED <<deaths, reads>>
  PROVE  CountersKept
  BY BoundAssumption DEF Inv, TypeOK, CountersKept

LEMMA NothingCounted ==
  ASSUME Inv, written' = {}, UNCHANGED <<starts, deaths, reads>>
  PROVE  CountersKept
  BY DEF Inv, TypeOK, CountersKept

(* Data from the host.                                                     *)
LEMMA ReadKept ==
  ASSUME Inv, NEW p \in Proc, NEW node, ReadFromHost(p, node),
         GoodNode(p, node, had) /\ SameDriver(sn[p], node)
  PROVE  Kept
<1>1. sn' = [sn EXCEPT ![p] = node] /\ Consequences
      /\ UNCHANGED <<link, starts, deaths>>
  BY DEF ReadFromHost
<1>2. /\ sn' \in [Proc -> Node]
      /\ \A q \in Proc : GoodNode(q, sn'[q], had)
      /\ sn'[p] = node
      /\ \A q \in Proc \ {p} : sn'[q] = sn[q]
  BY <1>1, OneProcess
<1>3. CountersKept
  BY BoundAssumption DEF Inv, TypeOK, CountersKept, ReadFromHost
<1>4. \A q \in Proc : /\ sn'[q].stage = sn[q].stage
                      /\ sn'[q].mode = sn[q].mode
                      /\ sn'[q].m_peerAddr = sn[q].m_peerAddr
                      /\ sn'[q].m_pty_fd = sn[q].m_pty_fd
  BY <1>2 DEF SameDriver
<1>5. \A q \in Proc : sn'[q].stage = "dead" => sn[q].m_ifUp = FALSE
  BY <1>4, EndedIsDown
<1>6. link' \in [Local -> 0 .. PtyLimit]
  BY <1>1 DEF Inv, TypeOK
<1>7. Inv'
  BY <1>1, <1>2, <1>3, <1>5, <1>6, InvKept
<1>8. LinkInv => LinkInv'
  BY <1>1, <1>4, <1>7, LinkKept
<1>9. Survival
  BY <1>4 DEF Survival, Running
<1> QED
  BY <1>7, <1>8, <1>9 DEF Kept

LEMMA HostKept ==
  ASSUME Inv, NEW p \in Proc,
         \/ StdinReadable(p) \/ PtyReadable(p)
         \/ \E frame \in Frame : TapReadable(p, frame)
         \/ \E ip \in Dest : TunReadable(p, ip) \/ SocatTunReadable(p, ip)
  PROVE  Kept
<1> DEFINE n == sn[p]
<1>1. /\ GoodNode(p, n, had) /\ n.m_addr \in had[p] \cup {NullAddr}
      /\ n.m_peerAddr \in Local
  BY EndedIsDown DEF Node
<1>2. Bytes(p) \in Data /\ Bytes(p).src = p /\ Bytes(p).dst = BroadcastMac
  BY DEF Bytes, Data
<1>3. "raw_stream" \in ChannelType /\ "tun_format" \in ChannelType
      /\ "raw_stream" # "tap_format" /\ "tun_format" # "tap_format"
  BY DEF ChannelType
<1>4. had \in Histories
  BY DEF Inv, TypeOK, Histories
<1> HIDE DEF n
<1>5. ASSUME NEW dest \in Local, NEW chType \in ChannelType,
             chType # "tap_format"
      PROVE  LET m == HostTxSendPacket(n, Bytes(p), dest, chType)
             IN  GoodNode(p, m, had) /\ SameDriver(n, m)
  BY <1>1, <1>2, <1>5, HostTxSendPacketGood
<1>6. CASE StdinReadable(p)
  <2> DEFINE m == StdinRead(n, Bytes(p))
  <2>1. GoodNode(p, m, had) /\ SameDriver(n, m)
    <3>1. CASE n.m_peerAddr = NullAddr
      BY <3>1, <1>1 DEF StdinRead, SameDriver
    <3>2. CASE n.m_peerAddr # NullAddr
      <4>1. m = HostTxSendPacket(n, Bytes(p), n.m_peerAddr, "raw_stream")
        BY <3>2 DEF StdinRead
      <4>2. LET k == HostTxSendPacket(n, Bytes(p), n.m_peerAddr, "raw_stream")
            IN  GoodNode(p, k, had) /\ SameDriver(n, k)
        BY <1>1, <1>3, <1>5
      <4> QED
        BY <4>1, <4>2
    <3> QED
      BY <3>1, <3>2
  <2>2. ReadFromHost(p, m)
    BY <1>6 DEF StdinReadable, n
  <2> HIDE DEF m
  <2> QED
    BY <2>1, <2>2, ReadKept DEF n
<1>7. CASE PtyReadable(p)
  <2> DEFINE m == HostTxSendPacket(n, Bytes(p), n.m_peerAddr, "raw_stream")
  <2>1. GoodNode(p, m, had) /\ SameDriver(n, m)
    BY <1>1, <1>3, <1>5
  <2>2. ReadFromHost(p, m)
    BY <1>7 DEF PtyReadable, PtyDoRead, n
  <2> HIDE DEF m
  <2> QED
    BY <2>1, <2>2, ReadKept DEF n
<1>8. ASSUME NEW frame \in Frame, TapReadable(p, frame) PROVE Kept
  <2> DEFINE m == TapDoRead(n, frame)
  <2>1. frame \in Data /\ frame.src = p
    BY <1>8, FrameAssumption DEF Data, TapReadable
  <2>2. GoodNode(p, m, had) /\ SameDriver(n, m)
    BY <1>1, <1>4, <2>1, TapDoReadGood
  <2>3. ReadFromHost(p, m)
    BY <1>8 DEF TapReadable, n
  <2> HIDE DEF m
  <2> QED
    BY <2>2, <2>3, ReadKept DEF n
<1>9. ASSUME NEW ip \in Dest, TunReadable(p, ip) PROVE Kept
  <2> DEFINE m == HostTxSendPacket(n, Bytes(p), DestAddr(ip), "tun_format")
  <2>1. DestAddr(ip) \in Local
    BY SpecialAddresses
  <2>2. GoodNode(p, m, had) /\ SameDriver(n, m)
    BY <1>3, <1>5, <2>1
  <2>3. ReadFromHost(p, m)
    BY <1>9 DEF TunReadable, TunDoRead2, n
  <2> HIDE DEF m
  <2> QED
    BY <2>2, <2>3, ReadKept DEF n
<1>10. ASSUME NEW ip \in Dest, SocatTunReadable(p, ip) PROVE Kept
  <2> DEFINE m == SocatTunDoRead(n, Bytes(p), ip)
  <2>1. GoodNode(p, m, had) /\ SameDriver(n, m)
    BY <1>1, <1>2, SocatTunDoReadGood
  <2>2. ReadFromHost(p, m)
    BY <1>10 DEF SocatTunReadable, n
  <2> HIDE DEF m
  <2> QED
    BY <2>1, <2>2, ReadKept DEF n
<1> QED
  BY <1>6, <1>7, <1>8, <1>9, <1>10

(* Those in hear get master_started, if a master is started.               *)
LEMMA AfterStartGood ==
  ASSUME NEW nodes \in [Proc -> Node], NEW o, NEW hear, NEW H,
         \A q \in Proc : GoodNode(q, nodes[q], H)
  PROVE  LET r == AfterStart(nodes, o, hear)
         IN  /\ r \in [Proc -> Node]
             /\ \A q \in Proc : GoodNode(q, r[q], H) /\ SamePty(nodes[q], r[q])
<1> DEFINE r == AfterStart(nodes, o, hear)
<1>1. CASE o.master
  <2>1. r = [q \in Proc |-> IF q \in hear
                            THEN MasterStarted(nodes[q]) ELSE nodes[q]]
    BY <1>1 DEF AfterStart, HearMasterStarted
  <2>2. ASSUME NEW q \in Proc
        PROVE  GoodNode(q, r[q], H) /\ SamePty(nodes[q], r[q])
    <3>1. LET m == MasterStarted(nodes[q])
          IN  GoodNode(q, m, H) /\ SamePty(nodes[q], m)
      BY MasterStartedGood
    <3>2. SamePty(nodes[q], nodes[q])
      BY DEF SamePty
    <3>3. r[q] = IF q \in hear
                 THEN MasterStarted(nodes[q]) ELSE nodes[q]
      BY <2>1
    <3> HIDE DEF r
    <3> QED
      BY <3>1, <3>2, <3>3
  <2>3. \A q \in Proc : r[q] \in Node
    BY <2>2 DEF GoodNode
  <2>4. r \in [Proc -> Node]
    <3>1. r = [q \in Proc |-> r[q]]
      BY <2>1
    <3> HIDE DEF r
    <3> QED
      BY <2>3, <3>1
  <2> QED
    BY <2>2, <2>4
<1>2. CASE ~o.master
  BY <1>2 DEF AfterStart, SamePty
<1> QED
  BY <1>1, <1>2

LEMMA StartKept ==
  ASSUME Inv, NEW p \in Proc, NEW o \in Options[p], NEW hear,
         Start(p, o, hear)
  PROVE  Kept
<1> DEFINE node == Built(o)
           nodes == [sn EXCEPT ![p] = node]
<1>1. /\ sn[p].stage \in {"off", "dead"} /\ starts < StartLimit
      /\ ValidOptions(o) /\ o.mode # "raw_pty"
      /\ sn' = AfterStart(nodes, o, hear)
      /\ starts' = starts + 1 /\ written' = {} /\ Consequences
      /\ UNCHANGED <<link, deaths, reads>>
  BY DEF Start, Startable
<1>2. GoodNode(p, node, had) /\ node.mode # "raw_pty"
      /\ node.stage = "loop" /\ node.m_pty_fd = 0
  BY <1>1, BuiltGood
<1> HIDE DEF node
<1>3. sn \in [Proc -> Node] /\ node \in Node
  BY <1>2 DEF Inv, TypeOK, GoodNode
<1>4. /\ nodes \in [Proc -> Node] /\ nodes[p] = node
      /\ \A q \in Proc \ {p} : nodes[q] = sn[q]
      /\ \A q \in Proc : GoodNode(q, nodes[q], had)
  BY <1>2, <1>3 DEF Inv, NodesAreGood
<1> HIDE DEF nodes
<1>5. /\ sn' \in [Proc -> Node]
      /\ \A q \in Proc : GoodNode(q, sn'[q], had) /\ SamePty(nodes[q], sn'[q])
  BY <1>1, <1>4, AfterStartGood
<1>6. CountersKept
  BY <1>1, StartCounted
<1>7. \A q \in Proc : sn'[q].stage = "dead" => sn[q].m_ifUp = FALSE
  BY <1>2, <1>4, <1>5, EndedIsDown DEF SamePty
<1>8. Inv'
  <2>1. link' \in [Local -> 0 .. PtyLimit]
    BY <1>1 DEF Inv, TypeOK
  <2> QED
    BY <1>1, <1>5, <1>6, <1>7, <2>1, InvKept
<1>9. LinkInv => LinkInv'
  <2>1. sn[p].m_pty_fd = 0
    BY <1>1, EndedIsDown
  <2>2. sn'[p].mode # "raw_pty"
    BY <1>2, <1>4, <1>5 DEF SamePty
  <2>3. \A q \in Proc \ {p} : /\ sn'[q].mode = sn[q].mode
                              /\ sn'[q].m_peerAddr = sn[q].m_peerAddr
                              /\ sn'[q].m_pty_fd = sn[q].m_pty_fd
    BY <1>4, <1>5 DEF SamePty
  <2> QED
    BY <1>1, <1>8, <2>1, <2>2, <2>3, LinkKept
<1>10. Survival
  BY <1>2, <1>4, <1>5 DEF Survival, Running, SamePty
<1> QED
  BY <1>8, <1>9, <1>10 DEF Kept

(* A process that is not running ends again: nothing else changes.         *)
LEMMA EndsAgainKept ==
  ASSUME Inv, NEW p \in Proc, NEW end \in {Off, Dead}, Startable(p),
         sn' = [sn EXCEPT ![p] = end], starts' = starts + 1, written' = {},
         UNCHANGED <<link, device, had, deaths, reads>>
  PROVE  Kept
<1>1. /\ GoodNode(p, end, had)
      /\ end.stage \in {"off", "dead"} /\ end.mode = "none"
      /\ end.m_ifUp = FALSE /\ end.m_pty_fd = 0 /\ end.m_addr = NullAddr
  BY EndedGood
<1>2. /\ sn' \in [Proc -> Node]
      /\ \A q \in Proc : GoodNode(q, sn'[q], had)
      /\ sn'[p] = end
      /\ \A q \in Proc \ {p} : sn'[q] = sn[q]
  BY <1>1, OneProcess
<1>3. sn[p].m_ifUp = FALSE /\ sn[p].m_pty_fd = 0 /\ starts < StartLimit
  BY EndedIsDown DEF Startable
<1>4. CountersKept
  BY <1>3, StartCounted
<1>5. Inv'
  BY <1>1, <1>2, <1>3, <1>4, InvKeptQuietly
<1>6. LinkInv => LinkInv'
  BY <1>1, <1>2, <1>3, <1>5, LinkKept
<1>7. Survival
  BY <1>2 DEF Survival, Running, Startable
<1> QED
  BY <1>5, <1>6, <1>7 DEF Kept

LEMMA SetupTapKept ==
  ASSUME Inv, NEW p \in Proc, NEW o \in Options[p], SetupTap(p, o)
  PROVE  Kept
<1> USE DEF Inv
<1>1. /\ GoodNode(p, Off, had) /\ Off.mode = "none"
      /\ Off.m_ifUp = FALSE /\ Off.m_pty_fd = 0 /\ Off.m_addr = NullAddr
  BY EndedGood
<1>2. /\ sn' \in [Proc -> Node]
      /\ \A q \in Proc : GoodNode(q, sn'[q], had)
      /\ sn'[p] = Off
      /\ \A q \in Proc \ {p} : sn'[q] = sn[q]
  BY <1>1, OneProcess DEF SetupTap
<1>3. sn[p].m_ifUp = FALSE /\ sn[p].m_pty_fd = 0 /\ starts < StartLimit
  BY EndedIsDown DEF SetupTap, Startable
<1>4. CountersKept
  BY <1>3, StartCounted DEF SetupTap
<1> DEFINE on == (o.mode = "setup_tap")
<1>5. /\ device' = [device EXCEPT ![p] = [persistent |-> on,
                                          up |-> device[p].up /\ on]]
      /\ UNCHANGED <<link, had, deaths>>
  BY DEF SetupTap, Persist
<1>6. device \in [Proc -> [persistent : BOOLEAN, up : BOOLEAN]]
  BY DEF TypeOK
<1>7. on \in BOOLEAN
  OBVIOUS
<1> HIDE DEF on
<1>8. /\ device' \in [Proc -> [persistent : BOOLEAN, up : BOOLEAN]]
      /\ device'[p].persistent = on /\ device'[p].up = (device[p].up /\ on)
      /\ \A q \in Proc \ {p} : device'[q] = device[q]
  BY <1>5, <1>6, <1>7
<1>9. TypeOK'
  BY <1>2, <1>4, <1>5, <1>8 DEF TypeOK, CountersKept
<1>10. NodesAreGood'
  BY <1>2, <1>5 DEF NodesAreGood
<1>11. AddressesAreKept'
  BY <1>1, <1>2, <1>5 DEF AddressesAreKept
<1>12. InterfaceInv'
  BY <1>1, <1>2, <1>3, <1>5, <1>8 DEF InterfaceInv
<1>13. Inv'
  BY <1>9, <1>10, <1>11, <1>12
<1>14. LinkInv => LinkInv'
  <2> HIDE DEF Inv
  <2> QED
    BY <1>1, <1>2, <1>3, <1>5, <1>13, LinkKept
<1>15. Survival
  BY <1>2 DEF Survival, Running, SetupTap, Startable
<1> QED
  BY <1>13, <1>14, <1>15 DEF Kept

(* A link to a new pseudo terminal: no other process has this peer.        *)
LEMMA LinkMoved ==
  ASSUME Inv, Inv', LinkInv, PeersDiffer, NEW p \in Proc,
         NEW pty \in 1 .. PtyLimit, NEW peer \in Local,
         link' = [link EXCEPT ![peer] = pty], deaths' = deaths,
         sn'[p].mode = "raw_pty", sn'[p].m_peerAddr = peer,
         sn'[p].m_pty_fd = pty,
         sn[p].m_pty_fd = 0 \/ sn[p].m_peerAddr = peer,
         \A q \in Proc \ {p} : /\ sn'[q].mode = sn[q].mode
                               /\ sn'[q].m_peerAddr = sn[q].m_peerAddr
                               /\ sn'[q].m_pty_fd = sn[q].m_pty_fd
  PROVE  LinkInv'
<1>1. link \in [Local -> 0 .. PtyLimit]
  BY DEF Inv, TypeOK
<1>2. link'[peer] = pty /\ \A a \in Local \ {peer} : link'[a] = link[a]
  BY <1>1
<1>3. \A q \in Proc : sn'[q].mode = "raw_pty" =>
        \E o \in Options[q] :
          o.mode = "raw_pty" /\ o.peer_address = sn'[q].m_peerAddr
  BY DEF Inv, NodesAreGood, GoodNode, PtyFits
<1>4. ASSUME NEW q \in Proc \ {p}, sn'[q].mode = "raw_pty"
      PROVE  sn'[q].m_peerAddr # peer /\ sn'[q].m_peerAddr \in Local
  <2>1. PICK o \in Options[q] :
          o.mode = "raw_pty" /\ o.peer_address = sn'[q].m_peerAddr
    BY <1>3, <1>4
  <2>2. PICK w \in Options[p] : w.mode = "raw_pty" /\ w.peer_address = peer
    BY <1>3
  <2>3. o.peer_address # w.peer_address
    BY <2>1, <2>2 DEF PeersDiffer
  <2> QED
    BY <2>1, <2>2, <2>3, OptionAddresses
<1>5. ASSUME NEW q \in Proc, sn'[q].mode = "raw_pty"
      PROVE  link'[sn'[q].m_peerAddr] = sn'[q].m_pty_fd
  <2>1. CASE q = p
    BY <2>1, <1>2
  <2>2. CASE q # p
    BY <2>2, <1>2, <1>4, <1>5 DEF LinkInv
  <2> QED
    BY <2>1, <2>2
<1>6. ASSUME NEW a \in Local, link'[a] # 0, deaths' = 0
      PROVE  \E q \in Proc : /\ sn'[q].m_peerAddr = a
                             /\ sn'[q].m_pty_fd = link'[a]
  <2>1. CASE a = peer
    BY <2>1, <1>2
  <2>2. CASE a # peer
    <3>1. link[a] # 0 /\ deaths = 0 /\ link'[a] = link[a]
      BY <1>6, <1>2, <2>2
    <3>2. PICK q \in Proc : sn[q].m_peerAddr = a /\ sn[q].m_pty_fd = link[a]
      BY <3>1 DEF LinkInv
    <3>3. q # p
      BY <2>2, <3>1, <3>2
    <3> QED
      BY <3>1, <3>2, <3>3
  <2> QED
    BY <2>1, <2>2
<1> QED
  BY <1>5, <1>6 DEF LinkInv

LEMMA StartPtyKept ==
  ASSUME Inv, NEW p \in Proc, NEW o \in Options[p],
         NEW pty \in 1 .. PtyLimit, NEW hear, StartPty(p, o, pty, hear)
  PROVE  Kept
<1>1. /\ sn[p].stage \in {"off", "dead"} /\ starts < StartLimit
      /\ ValidOptions(o) /\ o.mode = "raw_pty"
      /\ starts' = starts + 1 /\ written' = {} /\ Consequences
      /\ UNCHANGED <<deaths, reads>>
  BY DEF StartPty, Startable
<1>2. CountersKept
  BY <1>1, StartCounted
<1>3. sn[p].m_ifUp = FALSE /\ sn[p].m_pty_fd = 0
  BY <1>1, EndedIsDown
<1>4. CASE AddPtyLinkWorks(p, o.peer_address, pty)
  <2> DEFINE node == [SetFd(Built(o), pty) EXCEPT !.watched = TRUE]
             nodes == [sn EXCEPT ![p] = node]
  <2>1. sn' = AfterStart(nodes, o, hear)
        /\ link' = [link EXCEPT ![o.peer_address] = pty]
    BY <1>4 DEF StartPty
  <2>2. /\ GoodNode(p, node, had)
        /\ node.stage = "loop" /\ node.mode = "raw_pty"
        /\ node.m_peerAddr = o.peer_address /\ node.m_pty_fd = pty
    BY <1>1, BuiltPtyGood
  <2> HIDE DEF node
  <2>3. sn \in [Proc -> Node] /\ node \in Node
    BY <2>2 DEF Inv, TypeOK, GoodNode
  <2>4. /\ nodes \in [Proc -> Node] /\ nodes[p] = node
        /\ \A q \in Proc \ {p} : nodes[q] = sn[q]
        /\ \A q \in Proc : GoodNode(q, nodes[q], had)
    BY <2>2, <2>3 DEF Inv, NodesAreGood
  <2> HIDE DEF nodes
  <2>5. /\ sn' \in [Proc -> Node]
        /\ \A q \in Proc : GoodNode(q, sn'[q], had) /\ SamePty(nodes[q], sn'[q])
    BY <2>1, <2>4, AfterStartGood
  <2>6. \A q \in Proc : sn'[q].stage = "dead" => sn[q].m_ifUp = FALSE
    BY <2>2, <2>4, <2>5, EndedIsDown DEF SamePty
  <2>7. link' \in [Local -> 0 .. PtyLimit] /\ o.peer_address \in Local
    BY <2>1, OptionAddresses, BoundAssumption DEF Inv, TypeOK
  <2>8. Inv'
    BY <1>1, <1>2, <2>5, <2>6, <2>7, InvKept
  <2>9. \A q \in Proc \ {p} : /\ sn'[q].mode = sn[q].mode
                              /\ sn'[q].m_peerAddr = sn[q].m_peerAddr
                              /\ sn'[q].m_pty_fd = sn[q].m_pty_fd
    BY <2>4, <2>5 DEF SamePty
  <2>10. /\ sn'[p].mode = "raw_pty" /\ sn'[p].m_peerAddr = o.peer_address
         /\ sn'[p].m_pty_fd = pty
    BY <2>2, <2>4, <2>5 DEF SamePty
  <2>11. ASSUME LinkInv, PeersDiffer PROVE LinkInv'
    BY <1>1, <1>3, <2>1, <2>7, <2>8, <2>9, <2>10, <2>11, LinkMoved
  <2>12. Survival
    BY <2>2, <2>4, <2>5 DEF Survival, Running, SamePty
  <2> QED
    BY <2>8, <2>11, <2>12 DEF Kept
<1>5. CASE ~AddPtyLinkWorks(p, o.peer_address, pty)
  <2>1. sn' = [sn EXCEPT ![p] = Dead] /\ link' = link
    BY <1>5 DEF StartPty
  <2>2. GoodNode(p, Dead, had) /\ Dead.mode = "none"
    BY EndedGood
  <2>3. /\ sn' \in [Proc -> Node]
        /\ \A q \in Proc : GoodNode(q, sn'[q], had)
        /\ sn'[p] = Dead
        /\ \A q \in Proc \ {p} : sn'[q] = sn[q]
    BY <2>1, <2>2, OneProcess
  <2>4. \A q \in Proc : sn'[q].stage = "dead" => sn[q].m_ifUp = FALSE
    BY <1>3, <2>3, EndedIsDown
  <2>5. link' \in [Local -> 0 .. PtyLimit]
    BY <2>1 DEF Inv, TypeOK
  <2>6. Inv'
    BY <1>1, <1>2, <2>3, <2>4, <2>5, InvKept
  <2>7. LinkInv => LinkInv'
    BY <1>1, <1>3, <2>1, <2>2, <2>3, <2>6, LinkKept
  <2>8. Survival
    BY <1>1, <2>3 DEF Survival, Running
  <2> QED
    BY <2>6, <2>7, <2>8 DEF Kept
<1> QED
  BY <1>4, <1>5

(* A change of one process that leaves its address, interface, mode and    *)
(* pty alone.                                                              *)
LEMMA SlightKept ==
  ASSUME Inv, NEW p \in Proc, NEW node, GoodNode(p, node, had),
         sn' = [sn EXCEPT ![p] = node],
         node.mode = sn[p].mode, node.m_peerAddr = sn[p].m_peerAddr,
         node.m_pty_fd = sn[p].m_pty_fd, node.m_addr = sn[p].m_addr,
         node.m_ifUp = sn[p].m_ifUp, node.stage # "dead", written' = {},
         UNCHANGED <<link, device, had, starts, deaths, reads>>
  PROVE  Kept
<1>1. /\ sn' \in [Proc -> Node]
      /\ \A q \in Proc : GoodNode(q, sn'[q], had)
      /\ sn'[p] = node
      /\ \A q \in Proc \ {p} : sn'[q] = sn[q]
  BY OneProcess
<1>2. CountersKept
  BY NothingCounted
<1>3. \A q \in Proc : /\ sn'[q].m_addr = sn[q].m_addr
                      /\ sn'[q].m_ifUp = sn[q].m_ifUp
                      /\ sn'[q].mode = sn[q].mode
                      /\ sn'[q].m_peerAddr = sn[q].m_peerAddr
                      /\ sn'[q].m_pty_fd = sn[q].m_pty_fd
  BY <1>1
<1>4. Inv'
  BY <1>1, <1>2, <1>3, InvKeptQuietly
<1>5. LinkInv => LinkInv'
  BY <1>3, <1>4, LinkKept
<1>6. Survival
  BY <1>1 DEF Survival, Running
<1> QED
  BY <1>4, <1>5, <1>6 DEF Kept

LEMMA PtySlaveDiesKept ==
  ASSUME Inv, NEW p \in Proc, PtySlaveDies(p)
  PROVE  Kept
<1> DEFINE n == sn[p]
           m == [n EXCEPT !.watched = FALSE, !.restart = TRUE]
<1>1. GoodNode(p, n, had) /\ n \in Node /\ n.watched
  BY EndedIsDown DEF PtySlaveDies
<1>2. sn' = [sn EXCEPT ![p] = m]
  BY DEF PtySlaveDies, Inv, TypeOK
<1> HIDE DEF n
<1>3. /\ m \in Node /\ m.watched = FALSE /\ m.restart = TRUE
      /\ m.stage = n.stage /\ m.mode = n.mode /\ m.m_addr = n.m_addr
      /\ m.m_peerAddr = n.m_peerAddr /\ m.m_pty_fd = n.m_pty_fd
      /\ m.m_ifUp = n.m_ifUp /\ m.m_txMsg = n.m_txMsg
      /\ m.m_cache = n.m_cache /\ m.m_rxIf = n.m_rxIf
      /\ m.m_listener = n.m_listener
  BY <1>1 DEF Node
<1> HIDE DEF m
<1>4. n.mode = "raw_pty"
  BY <1>1 DEF GoodNode, PtyFits
<1>5. PtyFits(p, m)
  BY <1>1, <1>3, <1>4 DEF GoodNode, PtyFits
<1>6. DriverFits(m)
  BY <1>1, <1>3 DEF GoodNode, DriverFits
<1>7. GoodNode(p, m, had)
  BY <1>1, <1>3, <1>5, <1>6 DEF GoodNode
<1> QED
  BY <1>2, <1>3, <1>7, SlightKept DEF PtySlaveDies, Running, n

LEMMA SignalKept ==
  ASSUME Inv, NEW p \in Proc, Signal(p)
  PROVE  Kept
<1> DEFINE n == sn[p]
           m == [n EXCEPT !.stage = "break"]
<1>1. GoodNode(p, n, had) /\ n \in Node
  BY EndedIsDown
<1>2. sn' = [sn EXCEPT ![p] = m]
  BY DEF Signal, Inv, TypeOK
<1> HIDE DEF n
<1>3. /\ m \in Node /\ m.stage = "break" /\ m.watched = n.watched
      /\ m.restart = n.restart /\ m.mode = n.mode /\ m.m_addr = n.m_addr
      /\ m.m_peerAddr = n.m_peerAddr /\ m.m_pty_fd = n.m_pty_fd
      /\ m.m_ifUp = n.m_ifUp /\ m.m_txMsg = n.m_txMsg
      /\ m.m_cache = n.m_cache /\ m.m_rxIf = n.m_rxIf
      /\ m.m_listener = n.m_listener
  BY <1>1 DEF Node
<1> HIDE DEF m
<1>4. DriverFits(m)
  BY <1>1, <1>3 DEF GoodNode, DriverFits
<1>5. PtyFits(p, m)
  BY <1>1, <1>3 DEF GoodNode, PtyFits
<1>6. GoodNode(p, m, had)
  BY <1>1, <1>3, <1>4, <1>5 DEF GoodNode
<1> QED
  BY <1>2, <1>3, <1>6, SlightKept DEF Signal, n

(* The pty is opened again, with the link in its place.                    *)
LEMMA RestartPtyKept ==
  ASSUME Inv, NEW p \in Proc, NEW pty \in 1 .. PtyLimit, RestartPty(p, pty)
  PROVE  Kept
<1> DEFINE n == sn[p]
<1>1. /\ GoodNode(p, n, had) /\ n \in Node /\ n.restart
      /\ written' = {} /\ Consequences /\ UNCHANGED <<starts, deaths, reads>>
  BY EndedIsDown DEF RestartPty
<1>2. CountersKept
  BY <1>1, NothingCounted
<1>3. n.mode = "raw_pty" /\ n.m_ifUp = FALSE /\ n.m_peerAddr \in Local
  BY <1>1 DEF GoodNode, PtyFits, DriverFits, Node
<1>4. CASE RemovePtyLinkWorks(n.m_peerAddr)
  <2> DEFINE m == [SetFd(n, pty) EXCEPT !.restart = FALSE, !.watched = TRUE]
  <2>1. sn' = [sn EXCEPT ![p] = m]
        /\ link' = [link EXCEPT ![n.m_peerAddr] = pty]
    BY <1>4 DEF RestartPty, Inv, TypeOK
  <2>2. pty \in 0 .. PtyLimit /\ pty # 0
    BY BoundAssumption
  <2> HIDE DEF n
  <2>3. /\ m \in Node /\ m.watched = TRUE /\ m.restart = FALSE
        /\ m.stage = n.stage /\ m.mode = n.mode /\ m.m_addr = n.m_addr
        /\ m.m_peerAddr = n.m_peerAddr /\ m.m_pty_fd = pty
        /\ m.m_ifUp = n.m_ifUp /\ m.m_txMsg = n.m_txMsg
        /\ m.m_cache = n.m_cache /\ m.m_rxIf = n.m_rxIf
        /\ m.m_listener = n.m_listener
    BY <1>1, <2>2 DEF Node, SetFd
  <2> HIDE DEF m
  <2>4. PtyFits(p, m)
    BY <1>1, <1>3, <2>2, <2>3 DEF GoodNode, PtyFits
  <2>5. DriverFits(m)
    BY <1>1, <2>3 DEF GoodNode, DriverFits
  <2>6. GoodNode(p, m, had)
    BY <1>1, <2>3, <2>4, <2>5 DEF GoodNode
  <2>7. /\ sn' \in [Proc -> Node]
        /\ \A q \in Proc : GoodNode(q, sn'[q], had)
        /\ sn'[p] = m
        /\ \A q \in Proc \ {p} : sn'[q] = sn[q]
    BY <2>1, <2>6, OneProcess
  <2>8. \A q \in Proc : sn'[q].stage = "dead" => sn[q].m_ifUp = FALSE
    BY <1>3, <2>7, EndedIsDown DEF n
  <2>9. link' \in [Local -> 0 .. PtyLimit]
    BY <2>1, <2>2 DEF Inv, TypeOK
  <2>10. Inv'
    BY <1>1, <1>2, <2>7, <2>8, <2>9, InvKept
  <2>11. ASSUME LinkInv, PeersDiffer PROVE LinkInv'
    <3>1. /\ sn'[p].mode = "raw_pty" /\ sn'[p].m_peerAddr = n.m_peerAddr
          /\ sn'[p].m_pty_fd = pty /\ sn[p].m_peerAddr = n.m_peerAddr
      BY <1>3, <2>3, <2>7 DEF n
    <3>2. \A q \in Proc \ {p} : /\ sn'[q].mode = sn[q].mode
                                /\ sn'[q].m_peerAddr = sn[q].m_peerAddr
                                /\ sn'[q].m_pty_fd = sn[q].m_pty_fd
      BY <2>7
    <3> QED
      BY <1>1, <1>3, <2>1, <2>10, <2>11, <3>1, <3>2, LinkMoved
  <2>12. Survival
    BY <2>3, <2>7 DEF Survival, Running, n
  <2> QED
    BY <2>10, <2>11, <2>12 DEF Kept
<1>5. CASE ~RemovePtyLinkWorks(n.m_peerAddr)
  <2>1. sn' = [sn EXCEPT ![p] = Dead] /\ link' = link
    BY <1>5 DEF RestartPty
  <2>2. GoodNode(p, Dead, had)
    BY EndedGood
  <2>3. /\ sn' \in [Proc -> Node]
        /\ \A q \in Proc : GoodNode(q, sn'[q], had)
        /\ sn'[p] = Dead
        /\ \A q \in Proc \ {p} : sn'[q] = sn[q]
    BY <2>1, <2>2, OneProcess
  <2>4. \A q \in Proc : sn'[q].stage = "dead" => sn[q].m_ifUp = FALSE
    BY <1>3, <2>3, EndedIsDown
  <2>5. link' \in [Local -> 0 .. PtyLimit]
    BY <2>1 DEF Inv, TypeOK
  <2>6. Inv'
    BY <1>1, <1>2, <2>3, <2>4, <2>5, InvKept
  <2>7. ~LinkInv
    <3>1. n.m_pty_fd # 0
      BY <1>1, <1>3 DEF GoodNode, PtyFits
    <3> QED
      BY <1>3, <1>5, <3>1 DEF RemovePtyLinkWorks, LinkInv
  <2> QED
    BY <2>6, <2>7 DEF Kept
<1> QED
  BY <1>4, <1>5

(* The loop is over: the driver of a pty removes its link.                 *)
LEMMA QuitKept ==
  ASSUME Inv, NEW p \in Proc, Quit(p)
  PROVE  Kept
<1>1. /\ written' = {} /\ Consequences /\ UNCHANGED <<starts, deaths, reads>>
  BY DEF Quit
<1>2. CountersKept
  BY <1>1, NothingCounted
<1>3. /\ GoodNode(p, sn[p], had) /\ sn[p].m_peerAddr \in Local
      /\ sn[p].mode = "raw_pty" => sn[p].m_ifUp = FALSE
  BY EndedIsDown DEF Node
<1>4. PICK end \in {Off, Dead} :
        /\ sn' = [sn EXCEPT ![p] = end]
        /\ end = Dead => sn[p].mode = "raw_pty"
        /\ IF sn[p].mode = "raw_pty" /\ RemovePtyLinkWorks(sn[p].m_peerAddr)
           THEN link' = [link EXCEPT ![sn[p].m_peerAddr] = 0]
           ELSE link' = link
  <2>1. Off # Dead
    BY OffFields DEF Dead, Node
  <2>2. CASE sn[p].mode = "raw_pty" /\ RemovePtyLinkWorks(sn[p].m_peerAddr)
    BY <2>1, <2>2 DEF Quit
  <2>3. CASE sn[p].mode = "raw_pty" /\ ~RemovePtyLinkWorks(sn[p].m_peerAddr)
    BY <2>3 DEF Quit
  <2>4. CASE sn[p].mode # "raw_pty"
    BY <2>1, <2>4 DEF Quit
  <2> QED
    BY <2>2, <2>3, <2>4
<1>5. GoodNode(p, end, had) /\ end.mode = "none" /\ end.m_pty_fd = 0
  BY EndedGood
<1>6. /\ sn' \in [Proc -> Node]
      /\ \A q \in Proc : GoodNode(q, sn'[q], had)
      /\ sn'[p] = end
      /\ \A q \in Proc \ {p} : sn'[q] = sn[q]
  BY <1>4, <1>5, OneProcess
<1>7. ASSUME NEW q \in Proc, sn'[q].stage = "dead"
      PROVE  sn[q].m_ifUp = FALSE
  <2>1. CASE q # p
    BY <2>1, <1>6, <1>7, EndedIsDown
  <2>2. CASE q = p
    <3>1. end = Dead
      BY <2>2, <1>6, <1>7, OffFields
    <3> QED
      BY <2>2, <3>1, <1>3, <1>4
  <2> QED
    BY <2>1, <2>2
<1>8. link' \in [Local -> 0 .. PtyLimit]
  <2>1. 0 \in 0 .. PtyLimit /\ link \in [Local -> 0 .. PtyLimit]
    BY BoundAssumption DEF Inv, TypeOK
  <2> QED
    BY <1>4, <2>1
<1>9. Inv'
  BY <1>1, <1>2, <1>6, <1>7, <1>8, InvKept
<1>10. ASSUME LinkInv, PeersDiffer PROVE LinkInv'
  <2>1. CASE sn[p].mode # "raw_pty"
    <3>1. link' = link
      BY <2>1, <1>4
    <3>2. sn[p].m_pty_fd = 0
      BY <2>1, EndedIsDown
    <3> QED
      BY <1>1, <1>5, <1>6, <1>9, <1>10, <3>1, <3>2, LinkKept
  <2>2. CASE sn[p].mode = "raw_pty"
    <3> DEFINE peer == sn[p].m_peerAddr
    <3>1. link[peer] = sn[p].m_pty_fd /\ sn[p].m_pty_fd # 0
      BY <1>3, <1>10, <2>2 DEF LinkInv, GoodNode, PtyFits
    <3>2. link' = [link EXCEPT ![peer] = 0]
      BY <1>4, <2>2, <3>1 DEF RemovePtyLinkWorks
    <3>3. link'[peer] = 0 /\ \A a \in Local \ {peer} : link'[a] = link[a]
      BY <1>3, <3>2 DEF Inv, TypeOK
    <3>4. ASSUME NEW q \in Proc, sn'[q].mode = "raw_pty"
          PROVE  link'[sn'[q].m_peerAddr] = sn'[q].m_pty_fd
      <4>1. q # p /\ sn'[q] = sn[q]
        BY <1>5, <1>6, <3>4
      <4>2. /\ GoodNode(q, sn[q], had) /\ sn[q].mode = "raw_pty"
            /\ sn[q].m_peerAddr \in Local
        BY <3>4, <4>1, EndedIsDown DEF Node
      <4>3. PICK o \in Options[q] :
              o.mode = "raw_pty" /\ o.peer_address = sn[q].m_peerAddr
        BY <4>2 DEF GoodNode, PtyFits
      <4>4. PICK w \in Options[p] :
              w.mode = "raw_pty" /\ w.peer_address = peer
        BY <1>3, <2>2 DEF GoodNode, PtyFits
      <4>5. sn[q].m_peerAddr # peer
        BY <4>1, <4>3, <4>4, <1>10 DEF PeersDiffer
      <4>6. link[sn[q].m_peerAddr] = sn[q].m_pty_fd
        BY <1>10, <4>2 DEF LinkInv
      <4> QED
        BY <3>3, <4>1, <4>2, <4>5, <4>6
    <3>5. ASSUME NEW a \in Local, link'[a] # 0, deaths' = 0
          PROVE  \E q \in Proc : /\ sn'[q].m_peerAddr = a
                                 /\ sn'[q].m_pty_fd = link'[a]
      <4>1. a # peer /\ link'[a] = link[a] /\ deaths = 0
        BY <1>1, <3>3, <3>5
      <4>2. PICK q \in Proc : sn[q].m_peerAddr = a /\ sn[q].m_pty_fd = link[a]
        BY <1>10, <3>5, <4>1 DEF LinkInv
      <4> QED
        BY <1>6, <4>1, <4>2
    <3> QED
      BY <3>4, <3>5 DEF LinkInv
  <2> QED
    BY <2>1, <2>2
<1>11. Survival
  BY <1>6 DEF Survival, Running, Quit
<1> QED
  BY <1>9, <1>10, <1>11 DEF Kept

LEMMA DieKept ==
  ASSUME Inv, NEW p \in Proc, Die(p)
  PROVE  Kept
<1>1. /\ sn' = [sn EXCEPT ![p] = Dead] /\ Consequences
      /\ link' = link /\ deaths' = deaths + 1
  BY DEF Die
<1>2. CountersKept /\ deaths' > 0
  BY BoundAssumption DEF Inv, TypeOK, CountersKept, Die
<1>3. GoodNode(p, Dead, had) /\ Dead.mode = "none"
  BY EndedGood
<1>4. /\ sn' \in [Proc -> Node]
      /\ \A q \in Proc : GoodNode(q, sn'[q], had)
      /\ sn'[p] = Dead
      /\ \A q \in Proc \ {p} : sn'[q] = sn[q]
  BY <1>1, <1>3, OneProcess
<1>5. link' \in [Local -> 0 .. PtyLimit]
  BY <1>1 DEF Inv, TypeOK
<1>6. Inv'
  BY <1>1, <1>2, <1>4, <1>5, InvKept
<1>7. LinkInv => LinkInv'
  BY <1>1, <1>2, <1>3, <1>4, <1>6, LinkKept
<1>8. Survival
  BY <1>1 DEF Survival
<1> QED
  BY <1>6, <1>7, <1>8 DEF Kept

LEMMA MasterTimeoutKept ==
  ASSUME Inv, NEW p \in Proc, NEW hear \in SUBSET {q \in Proc : Running(q)},
         MasterTimeout(p, hear)
  PROVE  Kept
<1>1. /\ Consequences /\ UNCHANGED <<link, starts, deaths, reads>>
      /\ written' = {}
  BY DEF MasterTimeout
<1>2. CountersKept
  BY <1>1, NothingCounted
<1>3. ASSUME NEW q \in Proc
      PROVE  /\ GoodNode(q, sn'[q], had)
             /\ sn'[q].mode = sn[q].mode
             /\ sn'[q].m_peerAddr = sn[q].m_peerAddr
             /\ sn'[q].m_pty_fd = sn[q].m_pty_fd
             /\ sn'[q].stage = "dead" => sn[q].m_ifUp = FALSE
             /\ sn'[q].stage = "dead" => sn[q].stage # "loop"
  <2> DEFINE n == sn[q]
             stage == IF q \in hear THEN "break" ELSE n.stage
             also == (n.m_master /\ q # p)
             timed == (n.m_masterTimeout /\ q # p)
             m == [n EXCEPT !.stage = stage, !.m_master = also,
                            !.m_masterTimeout = timed]
  <2>1. sn'[q] = m
    BY DEF MasterTimeout
  <2>2. GoodNode(q, n, had) /\ n \in Node
    BY EndedIsDown
  <2>3. /\ also \in BOOLEAN /\ timed \in BOOLEAN
        /\ \/ stage = n.stage
           \/ stage = "break" /\ n.stage = "loop"
    BY <2>2 DEF Node, Running
  <2>4. n.stage = "dead" => n.m_ifUp = FALSE
    BY EndedIsDown
  <2> HIDE DEF n, stage, also, timed
  <2>5. /\ m \in Node /\ m.stage = stage /\ m.watched = n.watched
        /\ m.restart = n.restart /\ m.mode = n.mode /\ m.m_addr = n.m_addr
        /\ m.m_peerAddr = n.m_peerAddr /\ m.m_pty_fd = n.m_pty_fd
        /\ m.m_ifUp = n.m_ifUp /\ m.m_txMsg = n.m_txMsg
        /\ m.m_cache = n.m_cache /\ m.m_rxIf = n.m_rxIf
        /\ m.m_listener = n.m_listener
    BY <2>2, <2>3 DEF Node
  <2> HIDE DEF m
  <2>6. DriverFits(m)
    BY <2>2, <2>3, <2>5 DEF GoodNode, DriverFits
  <2>7. PtyFits(q, m)
    BY <2>2, <2>3, <2>5 DEF GoodNode, PtyFits
  <2>8. GoodNode(q, m, had)
    BY <2>2, <2>3, <2>5, <2>6, <2>7 DEF GoodNode
  <2> QED
    BY <2>1, <2>3, <2>4, <2>5, <2>8 DEF n
<1>4. sn' \in [Proc -> Node]
  <2>1. \A q \in Proc : sn'[q] \in Node
    BY <1>3 DEF GoodNode
  <2>2. sn' = [q \in Proc |-> sn'[q]]
    BY DEF MasterTimeout
  <2> QED
    BY <2>1, <2>2
<1>5. link' \in [Local -> 0 .. PtyLimit]
  BY <1>1 DEF Inv, TypeOK
<1>6. Inv'
  BY <1>1, <1>2, <1>3, <1>4, <1>5, InvKept
<1>7. LinkInv => LinkInv'
  BY <1>1, <1>3, <1>6, LinkKept
<1>8. Survival
  BY <1>3 DEF Survival, Running
<1> QED
  BY <1>6, <1>7, <1>8 DEF Kept

LEMMA AddressReplyKept ==
  ASSUME Inv, NEW p \in Proc, NEW a \in Dynamic, AddressReply(p, a)
  PROVE  Kept
<1> DEFINE node == SetOwnAddress(sn[p], a)
<1>1. /\ sn' = [sn EXCEPT ![p] = node] /\ Consequences /\ written' = {}
      /\ UNCHANGED <<link, starts, deaths, reads>>
  BY DEF AddressReply, Inv, TypeOK
<1>2. CountersKept
  BY <1>1, NothingCounted
<1>3. GoodNode(p, node, had) /\ SamePty(sn[p], node)
  <2>1. a \in Local \ {BroadcastAddr}
    BY SpecialAddresses
  <2>2. GoodNode(p, sn[p], had)
    BY EndedIsDown
  <2> QED
    BY <2>1, <2>2, SetOwnAddressGood
<1> HIDE DEF node
<1>4. /\ sn' \in [Proc -> Node]
      /\ \A q \in Proc : GoodNode(q, sn'[q], had)
      /\ sn'[p] = node
      /\ \A q \in Proc \ {p} : sn'[q] = sn[q]
  BY <1>1, <1>3, OneProcess
<1>5. \A q \in Proc : /\ sn'[q].stage = sn[q].stage
                      /\ sn'[q].mode = sn[q].mode
                      /\ sn'[q].m_peerAddr = sn[q].m_peerAddr
                      /\ sn'[q].m_pty_fd = sn[q].m_pty_fd
  BY <1>3, <1>4 DEF SamePty
<1>6. \A q \in Proc : sn'[q].stage = "dead" => sn[q].m_ifUp = FALSE
  BY <1>5, EndedIsDown
<1>7. link' \in [Local -> 0 .. PtyLimit]
  BY <1>1 DEF Inv, TypeOK
<1>8. Inv'
  BY <1>1, <1>2, <1>4, <1>6, <1>7, InvKept
<1>9. LinkInv => LinkInv'
  BY <1>1, <1>5, <1>8, LinkKept
<1>10. Survival
  BY <1>5 DEF Survival, Running
<1> QED
  BY <1>8, <1>9, <1>10 DEF Kept

LEMMA PacketTaken ==
  ASSUME NEW H, NEW p \in Proc, NEW n, GoodNode(p, n, H), n.m_txMsg # <<>>
  PROVE  /\ GoodPacket(p, Head(n.m_txMsg), H)
         /\ LET m == [n EXCEPT !.m_txMsg = Tail(@)]
            IN  GoodNode(p, m, H) /\ SameDriver(n, m)
<1> DEFINE q == Tail(n.m_txMsg)
           m == [n EXCEPT !.m_txMsg = q]
<1>1. n \in Node /\ n.m_txMsg \in Seq(Message)
  BY DEF GoodNode, Node
<1>2. /\ q \in Seq(Message) /\ 1 \in DOMAIN n.m_txMsg
      /\ Head(n.m_txMsg) = n.m_txMsg[1]
      /\ \A i \in DOMAIN q : i + 1 \in DOMAIN n.m_txMsg
                             /\ q[i] = n.m_txMsg[i + 1]
  BY <1>1
<1>3. [n EXCEPT !.m_txMsg = Tail(@)] = m
  OBVIOUS
<1> HIDE DEF q
<1>4. m \in Node /\ m.m_txMsg = q /\ m.m_cache = n.m_cache
  BY <1>1, <1>2 DEF Node
<1>5. SameDriver(n, m)
  BY <1>1 DEF Node, SameDriver
<1> HIDE DEF m
<1>6. \A i \in DOMAIN m.m_txMsg : GoodPacket(p, m.m_txMsg[i], H)
  BY <1>2, <1>4 DEF GoodNode
<1>7. GoodCache(m.m_cache, H)
  BY <1>4 DEF GoodNode
<1>8. GoodNode(p, m, H)
  BY <1>4, <1>5, <1>6, <1>7, DriverKept
<1>9. GoodPacket(p, Head(n.m_txMsg), H)
  BY <1>2 DEF GoodNode
<1> QED
  BY <1>3, <1>5, <1>8, <1>9

(* A packet is sent, and what others make of it.                           *)
LEMMA TransmitKept ==
  ASSUME Inv, NEW p \in Proc, NEW hear \in SUBSET Proc, Transmit(p, hear)
  PROVE  Kept
<1> DEFINE packet == Head(sn[p].m_txMsg)
           taken == [sn[p] EXCEPT !.m_txMsg = Tail(@)]
           sent == [sn EXCEPT ![p] = taken]
<1>1. /\ sn' = [q \in Proc |-> IF q \in hear THEN RxPacket(sent[q], packet)
                               ELSE sent[q]]
      /\ written' = {<<q, packet.data>> :
                       q \in {h \in hear : WritesToHost(sn[h], packet)}}
      /\ Consequences /\ UNCHANGED <<link, starts, deaths, reads>>
  BY DEF Transmit, Inv, TypeOK
<1>2. GoodNode(p, sn[p], had) /\ sn[p].m_txMsg # <<>>
  BY EndedIsDown DEF Transmit
<1>3. /\ GoodPacket(p, packet, had)
      /\ GoodNode(p, taken, had) /\ SameDriver(sn[p], taken)
  BY <1>2, PacketTaken
<1> HIDE DEF packet, taken
<1>4. packet.data \in Data
  BY <1>3 DEF GoodPacket, Message
<1>5. CountersKept
  BY <1>1, <1>4 DEF Inv, TypeOK, CountersKept
<1>6. had \in Histories
  BY DEF Inv, TypeOK, Histories
<1>7. ASSUME NEW q \in Proc
      PROVE  GoodNode(q, sn'[q], had) /\ SameDriver(sn[q], sn'[q])
  <2>1. GoodNode(q, sent[q], had) /\ SameDriver(sn[q], sent[q])
    <3>1. CASE q = p
      BY <3>1, <1>3 DEF Inv, TypeOK
    <3>2. CASE q # p
      <4>1. sent[q] = sn[q]
        BY <3>2 DEF Inv, TypeOK
      <4> QED
        BY <4>1, EndedIsDown DEF SameDriver
    <3> QED
      BY <3>1, <3>2
  <2>2. sn'[q] = IF q \in hear THEN RxPacket(sent[q], packet) ELSE sent[q]
    BY <1>1
  <2> HIDE DEF sent
  <2>3. LET m == RxPacket(sent[q], packet)
        IN  GoodNode(q, m, had) /\ SameDriver(sent[q], m)
    BY <1>3, <1>6, <2>1, RxPacketGood
  <2>4. SameDriver(sn[q], RxPacket(sent[q], packet))
    BY <2>1, <2>3, SameDriverTransitive
  <2> QED
    BY <2>1, <2>2, <2>3, <2>4
<1>8. sn' \in [Proc -> Node]
  <2>1. \A q \in Proc : sn'[q] \in Node
    BY <1>7 DEF GoodNode
  <2>2. sn' = [q \in Proc |-> sn'[q]]
    BY <1>1
  <2> QED
    BY <2>1, <2>2
<1>9. \A q \in Proc : /\ sn'[q].stage = sn[q].stage
                      /\ sn'[q].mode = sn[q].mode
                      /\ sn'[q].m_peerAddr = sn[q].m_peerAddr
                      /\ sn'[q].m_pty_fd = sn[q].m_pty_fd
  BY <1>7 DEF SameDriver
<1>10. \A q \in Proc : sn'[q].stage = "dead" => sn[q].m_ifUp = FALSE
  BY <1>9, EndedIsDown
<1>11. link' \in [Local -> 0 .. PtyLimit]
  BY <1>1 DEF Inv, TypeOK
<1>12. Inv'
  BY <1>1, <1>5, <1>7, <1>8, <1>10, <1>11, InvKept
<1>13. LinkInv => LinkInv'
  BY <1>1, <1>9, <1>12, LinkKept
<1>14. Survival
  BY <1>9 DEF Survival, Running
<1> QED
  BY <1>12, <1>13, <1>14 DEF Kept

LEMMA StepKept ==
  ASSUME Inv, [Next]_vars
  PROVE  Kept
<1>1. CASE UNCHANGED vars
  BY <1>1 DEF vars, Kept, Inv, TypeOK, NodesAreGood, AddressesAreKept,
              InterfaceInv, LinkInv, Survival, Running
<1>2. ASSUME NEW p \in Proc, NEW o \in Options[p], Main(p, o) PROVE Kept
  BY <1>2, EndsAgainKept DEF Main
<1>3. ASSUME NEW p \in Proc, NEW o \in Options[p],
             StartFails(p, o) \/ TuntapAllocFails(p, o)
      PROVE  Kept
  <2>1. \E end \in {Off, Dead} : Fails(p, end)
    BY <1>3 DEF StartFails, TuntapAllocFails
  <2> QED
    BY <2>1, EndsAgainKept DEF Fails
<1>4. ASSUME NEW p \in Proc, NEW hear \in SUBSET {q \in Proc : Running(q)},
             \/ \E o \in Options[p] :
                  \/ Start(p, o, hear)
                  \/ \E pty \in 1 .. PtyLimit : StartPty(p, o, pty, hear)
             \/ Transmit(p, hear) \/ MasterTimeout(p, hear)
      PROVE  Kept
  BY <1>4, StartKept, StartPtyKept, TransmitKept, MasterTimeoutKept
<1> QED
  BY <1>1, <1>2, <1>3, <1>4, SetupTapKept, HostKept, PtySlaveDiesKept,
     RestartPtyKept, AddressReplyKept, SignalKept, QuitKept, DieKept
  DEF Next

LEMMA InitInv == Init => Inv /\ LinkInv
<1> SUFFICES ASSUME Init PROVE Inv /\ LinkInv
  OBVIOUS
<1>1. \A p \in Proc : sn[p] = Off /\ had[p] = {} /\ device[p].up = FALSE
  BY DEF Init
<1>2. ASSUME NEW p \in Proc
      PROVE  /\ GoodNode(p, Off, had) /\ Off.mode = "none"
             /\ Off.m_ifUp = FALSE /\ Off.m_addr = NullAddr
  BY EndedGood
<1>3. TypeOK
  <2>1. /\ 0 \in 0 .. PtyLimit /\ 0 \in 0 .. StartLimit
        /\ 0 \in 0 .. DeathLimit /\ 0 \in 0 .. ReadLimit
    BY BoundAssumption
  <2> QED
    BY <2>1, OffFields DEF Init, TypeOK
<1>4. NodesAreGood
  BY <1>1, <1>2 DEF NodesAreGood
<1>5. AddressesAreKept
  BY <1>1, <1>2 DEF AddressesAreKept
<1>6. InterfaceInv
  BY <1>1, <1>2 DEF InterfaceInv
<1>7. LinkInv
  BY <1>1, <1>2 DEF LinkInv, Init
<1> QED
  BY <1>3, <1>4, <1>5, <1>6, <1>7 DEF Inv
-----------------------------------------------------------------------------
(* Theorems.                                                               *)

(* The inductive invariant: every node is good by itself, no address but   *)
(* the ones nodes have or had is known, and interfaces follow addresses.   *)
THEOREM Invariance == Spec => []Inv
<1>1. Init => Inv
  BY InitInv
<1>2. Inv /\ [Next]_vars => Inv'
  BY StepKept DEF Kept
<1> QED
  BY <1>1, <1>2, PTL DEF Spec

(* The variables have their types: in particular every packet in a queue   *)
(* has a source that is an address of a client, and every row of a cache   *)
(* belongs to a host.                                                      *)
THEOREM TypeSafety == Spec => []TypeOK
<1>1. Inv => TypeOK
  BY DEF Inv
<1> QED
  BY <1>1, Invariance, PTL

(* A queued packet has a source that its node has or had, and a cache has  *)
(* one row for a local address, which the host in it has or had            *)
(* (sendPacket, sendMacUpdate, setAddress, packetReceived), whatever the   *)
(* number of processes, their options and the frames of their hosts.       *)
THEOREM AddressSafety == Spec => []AddressesAreNeverInvented
<1>1. Inv => AddressesAreNeverInvented
  <2> SUFFICES ASSUME Inv, NEW p \in Proc
               PROVE  /\ \A i \in DOMAIN sn[p].m_txMsg :
                           sn[p].m_txMsg[i].src \in had[p]
                      /\ \A i \in DOMAIN sn[p].m_cache.table :
                           LET row == sn[p].m_cache.table[i]
                           IN  /\ row.local \in had[row.mac]
                               /\ RowOf(sn[p].m_cache, row.local) = {i}
    BY DEF AddressesAreNeverInvented
  <2>1. /\ GoodCache(sn[p].m_cache, had)
        /\ \A i \in DOMAIN sn[p].m_txMsg : GoodPacket(p, sn[p].m_txMsg[i], had)
    BY DEF Inv, NodesAreGood, GoodNode
  <2>2. \A i \in DOMAIN sn[p].m_txMsg : sn[p].m_txMsg[i].src \in had[p]
    BY <2>1 DEF GoodPacket
  <2> DEFINE c == sn[p].m_cache
  <2> HIDE DEF c
  <2>3. GoodCache(c, had)
    BY <2>1 DEF c
  <2>4. \A i \in DOMAIN c.table :
          /\ c.table[i].local \in had[c.table[i].mac]
          /\ RowOf(c, c.table[i].local) = {i}
    BY <2>3 DEF GoodCache, RowOf
  <2> QED
    BY <2>2, <2>4 DEF c
<1> QED
  BY <1>1, Invariance, PTL

(* The network interface of a host is up exactly while its node has an     *)
(* address (msgHostRx_newAddr, the destructors of the drivers), but for a  *)
(* persistent interface whose program has died.                            *)
THEOREM InterfaceSafety == Spec => []InterfaceFollowsAddress
<1>1. Inv => InterfaceFollowsAddress
  <2> SUFFICES ASSUME Inv, NEW p \in Proc
               PROVE  /\ sn[p].mode \in {"tap", "tun"} =>
                           /\ sn[p].m_ifUp = (sn[p].m_addr # NullAddr)
                           /\ sn[p].m_ifUp => device[p].up
                      /\ device[p].up =>
                           \/ sn[p].m_ifUp
                           \/ device[p].persistent /\ deaths > 0
    BY DEF InterfaceFollowsAddress
  <2>1. DriverFits(sn[p])
    BY DEF Inv, NodesAreGood, GoodNode
  <2> QED
    BY <2>1 DEF Inv, InterfaceInv, DriverFits
<1> QED
  BY <1>1, Invariance, PTL

(* A frame that is written to a host is for that host, for all, or for a   *)
(* host whose node had the address of this one; bytes that are written to  *)
(* a pty come from a node that had the address of its peer                 *)
(* (getLocalAddress, rxRawPacket, packetReceivedFromNet).                  *)
THEOREM DataSafety == Spec => DataReachesItsHost
<1> DEFINE Right(w) ==
             LET n == sn[w[1]]
             IN  CASE n.mode \in TapModes ->
                        \/ w[2].dst \in {w[1], BroadcastMac}
                        \/ n.m_addr \in had[w[2].dst]
                   [] n.mode = "raw_pty" ->
                        \/ n.m_peerAddr = BroadcastAddr
                        \/ n.m_peerAddr \in had[w[2].src]
                   [] OTHER -> TRUE
<1>1. ASSUME Inv, NEW p \in Proc, NEW hear \in SUBSET Proc, Transmit(p, hear),
             NEW w \in written'
      PROVE  Right(w)
  <2> DEFINE packet == Head(sn[p].m_txMsg)
  <2>1. PICK q \in hear : w = <<q, packet.data>> /\ WritesToHost(sn[q], packet)
    BY <1>1 DEF Transmit
  <2>2. GoodPacket(p, packet, had)
    <3>1. GoodNode(p, sn[p], had) /\ sn[p].m_txMsg # <<>>
      BY <1>1, EndedIsDown DEF Transmit
    <3> QED
      BY <3>1, PacketTaken
  <2> HIDE DEF packet
  <2> DEFINE n == sn[q]
  <2>3. GoodNode(q, n, had) /\ n.m_addr # BroadcastAddr /\ DriverFits(n)
    BY <1>1, EndedIsDown DEF GoodNode
  <2>4. \A h \in Proc : BroadcastAddr \notin had[h]
    BY <1>1 DEF Inv, AddressesAreKept
  <2>5. /\ packet.type = "send_packet"
        /\ (packet.dest = n.m_addr /\ n.m_addr # NullAddr)
             \/ BroadcastAddr \in {n.m_addr, packet.dest}
        /\ n.m_rxIf = packet.chType
        /\ n.mode = "raw_pty" => n.m_peerAddr \in {packet.src, BroadcastAddr}
    BY <2>1 DEF WritesToHost, IsForHost, GetRxIf, PtyReceives, TunReceives,
                SocatTunReceives, TapModes
  <2>6. w[1] = q /\ w[2] = packet.data
    BY <2>1
  <2> HIDE DEF n
  <2>7. CASE n.mode \in TapModes
    <3>1. packet.chType = "tap_format"
      BY <2>3, <2>5, <2>7 DEF DriverFits
    <3>2. \/ packet.data.dst = BroadcastMac
          \/ packet.data.dst \in Proc /\ packet.dest \in had[packet.data.dst]
      BY <2>2, <2>5, <3>1 DEF GoodPacket
    <3>3. packet.data.dst = BroadcastMac \/ n.m_addr \in had[packet.data.dst]
      BY <2>3, <2>4, <2>5, <3>2
    <3> QED
      BY <2>6, <2>7, <3>3 DEF n, TapModes
  <2>8. CASE n.mode = "raw_pty"
    <3>1. packet.data.src = p /\ packet.src \in had[p]
      BY <2>2 DEF GoodPacket
    <3> QED
      BY <2>5, <2>6, <2>8, <3>1 DEF n, TapModes
  <2>9. CASE n.mode \notin TapModes /\ n.mode # "raw_pty"
    BY <2>6, <2>9 DEF n
  <2> QED
    BY <2>7, <2>8, <2>9
<1>2. ASSUME Next, NEW w \in written'
      PROVE  \E p \in Proc : \E hear \in SUBSET Proc : Transmit(p, hear)
  <2>1. ASSUME NEW p \in Proc, NEW o \in Options[p],
               \/ Main(p, o) \/ SetupTap(p, o)
               \/ \E hear \in SUBSET {q \in Proc : Running(q)} :
                    \/ Start(p, o, hear)
                    \/ \E pty \in 1 .. PtyLimit : StartPty(p, o, pty, hear)
               \/ StartFails(p, o) \/ TuntapAllocFails(p, o)
        PROVE  written' = {}
    BY <2>1 DEF Main, Start, SetupTap, StartPty, StartFails, TuntapAllocFails,
                Fails
  <2>2. ASSUME NEW p \in Proc,
               \/ StdinReadable(p) \/ PtyReadable(p)
               \/ \E frame \in Frame : TapReadable(p, frame)
               \/ \E ip \in Dest :
                    TunReadable(p, ip) \/ SocatTunReadable(p, ip)
        PROVE  written' = {}
    BY <2>2 DEF StdinReadable, PtyReadable, TapReadable, TunReadable,
                SocatTunReadable, ReadFromHost
  <2>3. ASSUME NEW p \in Proc,
               \/ PtySlaveDies(p)
               \/ \E pty \in 1 .. PtyLimit : RestartPty(p, pty)
               \/ \E a \in Dynamic : AddressReply(p, a)
               \/ \E hear \in SUBSET {q \in Proc : Running(q)} :
                    MasterTimeout(p, hear)
               \/ Signal(p) \/ Quit(p) \/ Die(p)
        PROVE  written' = {}
    BY <2>3 DEF PtySlaveDies, RestartPty, AddressReply, MasterTimeout, Signal,
                Quit, Die
  <2>4. SUBSET {q \in Proc : Running(q)} \subseteq SUBSET Proc
    OBVIOUS
  <2> QED
    BY <1>2, <2>1, <2>2, <2>3, <2>4 DEF Next
<1>3. Inv /\ [Next]_vars => [\A w \in written' : Right(w)]_vars
  BY <1>1, <1>2
<1> QED
  BY <1>3, Invariance, PTL DEF Spec, DataReachesItsHost

(* The links are part of the inductive invariant if processes have         *)
(* different peers: addPtyLink and removePtyLink of one then never touch   *)
(* the link of another (FolderManager).                                    *)
THEOREM LinkInvariance ==
  ASSUME PeersDiffer
  PROVE  Spec => [](Inv /\ LinkInv)
<1>1. Init => Inv /\ LinkInv
  BY InitInv
<1>2. Inv /\ LinkInv /\ [Next]_vars => (Inv /\ LinkInv)'
  BY StepKept DEF Kept
<1> QED
  BY <1>1, <1>2, PTL DEF Spec

(* While processes have different peers, the link of each leads to its pty *)
(* and no link is left over unless a process has died (monitorRead,        *)
(* closePty, triggerPtyRestart, FolderManager).                            *)
THEOREM LinkSafety ==
  ASSUME PeersDiffer
  PROVE  Spec => []LinkLeadsToPty
<1>1. Inv /\ LinkInv => LinkLeadsToPty
  BY DEF Inv, NodesAreGood, GoodNode, PtyFits, LinkInv, LinkLeadsToPty
<1> QED
  BY <1>1, LinkInvariance, PTL

(* "This should not result in this side crashing" (doRead) is true of a    *)
(* process whose peer is nobody else's: the callback that opens the pty    *)
(* again finds the link it removes.                                        *)
THEOREM SlaveDeathSafety ==
  ASSUME PeersDiffer
  PROVE  Spec => SlaveDeathIsSurvived
<1>1. Inv /\ LinkInv /\ [Next]_vars =>
        [\A p \in Proc : sn[p].restart /\ Running(p) /\ sn'[p].stage = "dead"
                         => deaths' = deaths + 1]_vars
  BY StepKept DEF Kept, Survival
<1> QED
  BY <1>1, LinkInvariance, PTL DEF Spec, SlaveDeathIsSurvived
=============================================================================
