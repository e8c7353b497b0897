----------------------------- MODULE SerialNet ------------------------------
(***************************************************************************)
(* Programs of src/src/mains/serialnet at work: each process is configured *)
(* from its options (SNConfig), builds its parts (SerialNet::start), runs  *)
(* the event loop, in which its host driver reads and is handed packets,   *)
(* and ends: after a signal, after master_ended, or by an exception, which *)
(* nobody catches, so that no destructor runs.                             *)
(*                                                                         *)
(* The processes share the serial bus and the directory of links to pseudo *)
(* terminals (FolderManager); each has a network interface of its own that *)
(* may outlive it.  The token protocol is the subject of Network; here a   *)
(* node sends a packet at any time, every running node hears it unless it  *)
(* is disturbed, and the master gives free addresses to whom has none.     *)
(***************************************************************************)
EXTENDS Integers, HostDrivers

CONSTANTS
  Proc,           \* the processes, also the names of their hosts
  Options,        \* per process: the options it may be started with
  Dynamic,        \* the addresses the master hands out
  Frame,          \* the Ethernet frames that hosts send
  Dest,           \* the IP addresses that hosts send to, as numbers
  PtyLimit,       \* bound: numbers of pseudo terminals
  StartLimit,     \* bound: starts of processes
  DeathLimit,     \* bound: processes that die
  ReadLimit       \* bound: reads from hosts

ASSUME BoundAssumption ==
  {PtyLimit, StartLimit, DeathLimit, ReadLimit} \subseteq Nat
ASSUME OptionAssumption ==
  \A p \in Proc :
    Options[p] \subseteq [mode : STRING, address : Int, peer_address : Int,
                         master : BOOLEAN, mtimeout : Int]
ASSUME FrameAssumption ==
  Frame \subseteq [src : Proc, dst : Proc \cup {BroadcastMac}, arp : BOOLEAN]
ASSUME DestAssumption ==
  /\ Dest \subseteq Nat
  /\ NullAddr \notin Dynamic \cup {DestAddr(ip) : ip \in Dest}
  /\ BroadcastAddr \notin Dynamic

VARIABLES
  sn,          \* per process: its state, see Node
  link,        \* per peer address: the number of the pty that the link
               \* <root>/pty/<peer> names, 0 if there is no link
  device,      \* per host: its network interface
  had,         \* per host: the local addresses its node has or had
  written,     \* the data handed to hosts by the last transmission
  starts, deaths, reads    \* for the bounds

vars == <<sn, link, device, had, written, starts, deaths, reads>>

Off ==
  [stage |-> "off", mode |-> "none", m_addr |-> NullAddr,
   m_dynamic |-> FALSE, m_peerAddr |-> NullAddr, m_txMsg |-> <<>>,
   m_cache |-> EmptyCache, m_ifUp |-> FALSE, m_rxTunPacket |-> NullAddr,
   m_rxIf |-> "illegal_type", m_listener |-> "none",
   m_pty_fd |-> 0, watched |-> FALSE, restart |-> FALSE,
   m_master |-> FALSE, m_masterTimeout |-> FALSE]

Dead == [Off EXCEPT !.stage = "dead"]

Running(p) == sn[p].stage = "loop"

(* The addresses that occur.                                               *)
Local == {NullAddr, BroadcastAddr, 1} \cup Dynamic
         \cup {DestAddr(ip) : ip \in Dest}
         \cup UNION {{o.address, o.peer_address} :
                       o \in UNION {Options[p] : p \in Proc}}

Data == [src : Proc, dst : Proc \cup {BroadcastMac}, arp : BOOLEAN]

(* What is in the header of a packet, and its data.                        *)
Message == [type : {"send_packet", "mac_update"}, chType : ChannelType,
            src : Local \ {NullAddr, BroadcastAddr}, dest : Local, data : Data]

Node ==
  [stage : {"off", "loop", "break", "dead"}, mode : Mode, m_addr : Local,
   m_dynamic : BOOLEAN, m_peerAddr : Local,
   m_txMsg : Seq(Message),
   m_cache : [table : Seq([local : Local, mac : Proc]), myLocal : Local,
              myMac : Proc \cup {BroadcastMac}],
   m_ifUp : BOOLEAN, m_rxTunPacket : Local,
   m_rxIf : ChannelType, m_listener : {"none", "tap", "tun"},
   m_pty_fd : 0 .. PtyLimit, watched : BOOLEAN, restart : BOOLEAN,
   m_master : BOOLEAN, m_masterTimeout : BOOLEAN]

TypeOK ==
  /\ sn \in [Proc -> Node]
  /\ link \in [Local -> 0 .. PtyLimit]
  /\ device \in [Proc -> [persistent : BOOLEAN, up : BOOLEAN]]
  /\ had \in [Proc -> SUBSET Local]
  /\ written \subseteq Proc \X Data
  /\ starts \in 0 .. StartLimit /\ deaths \in 0 .. DeathLimit
  /\ reads \in 0 .. ReadLimit

Init ==
  /\ sn = [p \in Proc |-> Off]
  /\ link = [a \in Local |-> 0]
  /\ device = [p \in Proc |-> [persistent |-> FALSE, up |-> FALSE]]
  /\ had = [p \in Proc |-> {}]
  /\ written = {}
  /\ starts = 0 /\ deaths = 0 /\ reads = 0
-----------------------------------------------------------------------------
(* What a step does besides changing processes.                            *)

(* setIfUpDown: the interface follows m_ifUp when that changes.  An        *)
(* interface that is not persistent goes with its process.                 *)
DeviceAfter(p) ==
  IF sn'[p].stage \in {"off", "dead"} /\ ~device[p].persistent
  THEN [device[p] EXCEPT !.up = FALSE]
  ELSE IF sn'[p].m_ifUp # sn[p].m_ifUp /\ sn'[p].stage # "dead"
  THEN [device[p] EXCEPT !.up = sn'[p].m_ifUp]
  ELSE device[p]

Consequences ==
  /\ device' = [p \in Proc |-> DeviceAfter(p)]
  /\ had' = [p \in Proc |-> had[p] \cup ({sn'[p].m_addr} \ {NullAddr})]
-----------------------------------------------------------------------------
(* Pseudo terminals, and the links to them: FolderManager.                 *)

\* The pseudo terminals in use by processes other than p.
PtysInUse(p) == {sn[q].m_pty_fd : q \in Proc \ {p}}

(* PosixFd::set: the file that was open before is closed, so that its      *)
(* number may be given to another.                                         *)
SetFd(node, fd) == [node EXCEPT !.m_pty_fd = fd]

(* openPty: the system gives a number that nobody uses.                    *)
OpenPty(p, pty) == pty \in 1 .. PtyLimit \ PtysInUse(p)

(* addPtyLink replaces a link if the pty it names exists, possibly the one *)
(* just opened.  It fails if it does not: stat follows the link and finds  *)
(* nothing, and symlink finds the link.                                    *)
AddPtyLinkWorks(p, peer, pty) == link[peer] \in {0, pty} \cup PtysInUse(p)

(* removePtyLink fails if there is no link.                                *)
RemovePtyLinkWorks(peer) == link[peer] # 0
-----------------------------------------------------------------------------
(* Starting.                                                               *)

(* setupOptions: what an option is if it is not given.                     *)
DefaultOptions ==
  [mode |-> "", address |-> 0, peer_address |-> 0, master |-> FALSE,
   mtimeout |-> -1]

(* SNConfig::toMode *)
ToMode(word) == IF word \in Mode THEN word ELSE "unknown"

(* setupSNConfig ends the program if the address is not one of these.      *)
ValidOptions(o) == o.address \in 0 .. 32

(* setupSNConfig: a master without an address gets 1.                      *)
StaticAddr(o) == IF o.address = 0 /\ o.master THEN 1 ELSE o.address

(* SerialNet::start, and TxQueue with the address of the configuration.    *)
Built(o) ==
  StartDriver([Off EXCEPT !.stage = "loop", !.mode = ToMode(o.mode),
                          !.m_addr = StaticAddr(o),
                          !.m_dynamic = (StaticAddr(o) = NullAddr),
                          !.m_peerAddr = o.peer_address,
                          !.m_master = o.master,
                          !.m_masterTimeout = (o.master /\ o.mtimeout > -1)])

(* The processes after Master::Master has sent master_started, heard by    *)
(* those in hear.  The address of its own node is static.                  *)
HearMasterStarted(nodes, hear) ==
  [p \in Proc |-> IF p \in hear THEN MasterStarted(nodes[p]) ELSE nodes[p]]

(* setupMaster is the last step of start.                                  *)
AfterStart(nodes, o, hear) ==
  IF o.master THEN HearMasterStarted(nodes, hear) ELSE nodes

Startable(p) == sn[p].stage \in {"off", "dead"} /\ starts < StartLimit

(* main without a mode: it prints a message and returns.                   *)
Main(p, o) ==
  /\ Startable(p)
  /\ o.mode = ""
  /\ sn' = [sn EXCEPT ![p] = Off]
  /\ starts' = starts + 1
  /\ written' = {}
  /\ UNCHANGED <<link, device, had, deaths, reads>>

Start(p, o, hear) ==
  /\ Startable(p)
  /\ o.mode \notin {"", "raw_pty", "setup_tap", "remove_tap"}
  /\ ValidOptions(o)
  /\ sn' = AfterStart([sn EXCEPT ![p] = Built(o)], o, hear)
  /\ starts' = starts + 1
  /\ written' = {}
  /\ Consequences
  /\ UNCHANGED <<link, deaths, reads>>

(* start with a pseudo terminal: monitorRead.                              *)
StartPty(p, o, pty, hear) ==
  /\ Startable(p)
  /\ o.mode = "raw_pty"
  /\ ValidOptions(o)
  /\ OpenPty(p, pty)
  /\ IF AddPtyLinkWorks(p, o.peer_address, pty)
     THEN /\ LET node == [SetFd(Built(o), pty) EXCEPT !.watched = TRUE]
             IN  sn' = AfterStart([sn EXCEPT ![p] = node], o, hear)
          /\ link' = [link EXCEPT ![o.peer_address] = pty]
     ELSE /\ sn' = [sn EXCEPT ![p] = Dead]
          /\ UNCHANGED link
  /\ starts' = starts + 1
  /\ written' = {}
  /\ Consequences
  /\ UNCHANGED <<deaths, reads>>

Fails(p, end) ==
  /\ Startable(p)
  /\ sn' = [sn EXCEPT ![p] = end]
  /\ starts' = starts + 1
  /\ written' = {}
  /\ UNCHANGED <<link, device, had, deaths, reads>>

(* The serial port cannot be opened, or the options are not valid.         *)
StartFails(p, o) ==
  /\ ~ValidOptions(o) \/ o.mode \notin {"", "setup_tap", "remove_tap"}
  /\ Fails(p, Dead)

(* The interface cannot be opened; remove_tap does not mind.               *)
TuntapAllocFails(p, o) ==
  /\ o.mode \in {"tap", "tun", "setup_tap", "remove_tap"}
  /\ ValidOptions(o)
  /\ Fails(p, IF o.mode = "remove_tap" THEN Off ELSE Dead)

(* TunTapDriver::persist.  An interface that nobody holds goes.            *)
Persist(dev, on) == [persistent |-> on, up |-> dev.up /\ on]

(* start in the modes setup_tap and remove_tap: the program ends at once.  *)
SetupTap(p, o) ==
  /\ Startable(p)
  /\ o.mode \in {"setup_tap", "remove_tap"}
  /\ ValidOptions(o)
  /\ device' = [device EXCEPT ![p] = Persist(@, o.mode = "setup_tap")]
  /\ sn' = [sn EXCEPT ![p] = Off]
  /\ starts' = starts + 1
  /\ written' = {}
  /\ UNCHANGED <<link, had, deaths, reads>>
-----------------------------------------------------------------------------
(* The event loop: the host.                                               *)

ReadFromHost(p, node) ==
  /\ Running(p)
  /\ reads < ReadLimit
  /\ Len(node.m_txMsg) <= TxLimit
  /\ sn' = [sn EXCEPT ![p] = node]
  /\ reads' = reads + 1
  /\ written' = {}
  /\ Consequences
  /\ UNCHANGED <<link, starts, deaths>>

Bytes(p) == [src |-> p, dst |-> BroadcastMac, arp |-> FALSE]

StdinReadable(p) ==
  /\ sn[p].mode = "std_io"
  /\ ReadFromHost(p, StdinRead(sn[p], Bytes(p)))

PtyReadable(p) ==
  /\ sn[p].mode = "raw_pty"
  /\ sn[p].watched
  /\ ReadFromHost(p, PtyDoRead(sn[p], Bytes(p)))

TapReadable(p, frame) ==
  /\ sn[p].mode \in TapModes
  /\ sn[p].mode = "tap" => device[p].up
  /\ frame.src = p
  /\ ReadFromHost(p, TapDoRead(sn[p], frame))

TunReadable(p, ip) ==
  /\ sn[p].mode = "tun"
  /\ device[p].up
  /\ ReadFromHost(p, TunDoRead2(sn[p], Bytes(p), ip))

SocatTunReadable(p, ip) ==
  /\ sn[p].mode = "socat_tun"
  /\ ReadFromHost(p, SocatTunDoRead(sn[p], Bytes(p), ip))

(* doRead finds that the other side of the pty is gone: the watcher is     *)
(* stopped and triggerPtyRestart asks for a callback.                      *)
PtySlaveDies(p) ==
  /\ Running(p)
  /\ sn[p].watched
  /\ sn' = [sn EXCEPT ![p].watched = FALSE, ![p].restart = TRUE]
  /\ written' = {}
  /\ UNCHANGED <<link, device, had, starts, deaths, reads>>

(* Mutant: the old pty is closed after the new one is opened. *)
RestartPtyClosesLast(p, pty) ==
  /\ Running(p)
  /\ sn[p].restart
  /\ OpenPty(p, pty)
  /\ IF RemovePtyLinkWorks(sn[p].m_peerAddr)
     THEN /\ sn' = [sn EXCEPT ![p] = [SetFd(@, pty) EXCEPT !.restart = FALSE,
                                                         !.watched = TRUE]]
          /\ link' = [link EXCEPT ![sn[p].m_peerAddr] = 0]
     ELSE /\ sn' = [sn EXCEPT ![p] = Dead]
          /\ UNCHANGED link
  /\ written' = {}
  /\ Consequences
  /\ UNCHANGED <<starts, deaths, reads>>

(* The callback of triggerPtyRestart: closePty and monitorRead.            *)
RestartPty(p, pty) ==
  /\ Running(p)
  /\ sn[p].restart
  /\ OpenPty(p, pty)
  /\ IF RemovePtyLinkWorks(sn[p].m_peerAddr)
     THEN /\ sn' = [sn EXCEPT ![p] = [SetFd(@, pty) EXCEPT !.restart = FALSE,
                                                         !.watched = TRUE]]
          /\ link' = [link EXCEPT ![sn[p].m_peerAddr] = pty]
     ELSE /\ sn' = [sn EXCEPT ![p] = Dead]
          /\ UNCHANGED link
  /\ written' = {}
  /\ Consequences
  /\ UNCHANGED <<starts, deaths, reads>>
-----------------------------------------------------------------------------
(* The event loop: the bus.                                                *)

(* A node with the token sends its first packet.  The nodes in hear, which *)
(* may include the sender, receive it undisturbed.                         *)
Transmit(p, hear) ==
  /\ Running(p)
  /\ sn[p].m_txMsg # <<>>
  /\ LET packet == Head(sn[p].m_txMsg)
         sent == [sn EXCEPT ![p].m_txMsg = Tail(@)]
     IN  /\ sn' = [q \in Proc |-> IF q \in hear THEN RxPacket(sent[q], packet)
                                  ELSE sent[q]]
         /\ written' = {<<q, packet.data>> :
                          q \in {h \in hear : WritesToHost(sn[h], packet)}}
  /\ Consequences
  /\ UNCHANGED <<link, starts, deaths, reads>>

(* An address_reply for this node.  The master hands out an address once,  *)
(* but nodes that have missed its start or too many tokens may still have  *)
(* that address.                                                           *)
AddressReply(p, a) ==
  /\ Running(p)
  /\ sn[p].m_dynamic /\ sn[p].m_addr = NullAddr
  /\ \E m \in Proc : Running(m) /\ sn[m].m_master
  /\ sn' = [sn EXCEPT ![p] = SetOwnAddress(@, a)]
  /\ written' = {}
  /\ Consequences
  /\ UNCHANGED <<link, starts, deaths, reads>>

(* The time of the master is over: exitMaster sends master_ended, and the  *)
(* callback setMasterEndedCB of every node that hears it, its own among    *)
(* them, stops the event loop.                                             *)
MasterTimeout(p, hear) ==
  /\ Running(p)
  /\ sn[p].m_master /\ sn[p].m_masterTimeout
  /\ sn' = [q \in Proc |->
              [sn[q] EXCEPT !.stage = IF q \in hear THEN "break" ELSE @,
                            !.m_master = @ /\ q # p,
                            !.m_masterTimeout = @ /\ q # p]]
  /\ written' = {}
  /\ Consequences
  /\ UNCHANGED <<link, starts, deaths, reads>>
-----------------------------------------------------------------------------
(* The end of a process.                                                   *)

(* SIGINT                                                                  *)
Signal(p) ==
  /\ Running(p)
  /\ sn' = [sn EXCEPT ![p].stage = "break"]
  /\ written' = {}
  /\ UNCHANGED <<link, device, had, starts, deaths, reads>>

(* The event loop has returned and the members of SerialNet are destroyed. *)
(* The driver of a pty removes its link, an exception from which ends the  *)
(* process; the drivers of interfaces take them down.                      *)
Quit(p) ==
  /\ sn[p].stage = "break"
  /\ IF sn[p].mode = "raw_pty"
     THEN IF RemovePtyLinkWorks(sn[p].m_peerAddr)
          THEN /\ link' = [link EXCEPT ![sn[p].m_peerAddr] = 0]
               /\ sn' = [sn EXCEPT ![p] = Off]
          ELSE /\ UNCHANGED link
               /\ sn' = [sn EXCEPT ![p] = Dead]
     ELSE /\ UNCHANGED link
          /\ sn' = [sn EXCEPT ![p] = Off]
  /\ written' = {}
  /\ Consequences
  /\ UNCHANGED <<starts, deaths, reads>>

(* An exception nobody catches (a failed read or write of the serial port, *)
(* of the interface or of the pty), or SIGKILL: no destructor runs.  When  *)
(* the loop has returned, setIfUpDown may fail in the destructor of a      *)
(* driver, which ends the process as well.                                 *)
Die(p) ==
  /\ sn[p].stage \in {"loop", "break"}
  /\ deaths < DeathLimit
  /\ sn' = [sn EXCEPT ![p] = Dead]
  /\ deaths' = deaths + 1
  /\ written' = {}
  /\ Consequences
  /\ UNCHANGED <<link, starts, reads>>

Next ==
  \E p \in Proc :
    \/ \E o \in Options[p] :
         \/ Main(p, o) \/ SetupTap(p, o)
         \/ StartFails(p, o) \/ TuntapAllocFails(p, o)
    \/ \E hear \in SUBSET {q \in Proc : Running(q)} :
         \/ \E o \in Options[p] :
              \/ Start(p, o, hear)
              \/ \E pty \in 1 .. PtyLimit : StartPty(p, o, pty, hear)
         \/ Transmit(p, hear)
         \/ MasterTimeout(p, hear)
    \/ StdinReadable(p) \/ PtyReadable(p)
    \/ \E frame \in Frame : TapReadable(p, frame)
    \/ \E ip \in Dest : TunReadable(p, ip) \/ SocatTunReadable(p, ip)
    \/ PtySlaveDies(p)
    \/ \E pty \in 1 .. PtyLimit : RestartPty(p, pty)
    \/ \E a \in Dynamic : AddressReply(p, a)
    \/ Signal(p) \/ Quit(p) \/ Die(p)

Spec == Init /\ [][Next]_vars
-----------------------------------------------------------------------------
(* Properties.                                                             *)

(* The local address that a packet names as its source, or that a cache    *)
(* has for a MAC address, is one that the node of that host has or had:    *)
(* it may be stale, because queued packets keep the address they were      *)
(* queued with and rows of the cache are never removed, but never wrong    *)
(* (sendPacket, sendMacUpdate, setAddress, packetReceived).  A cache has   *)
(* at most one row for a local address.                                    *)
AddressesAreNeverInvented ==
  \A p \in Proc :
    /\ \A i \in DOMAIN sn[p].m_txMsg : sn[p].m_txMsg[i].src \in had[p]
    /\ \A i \in DOMAIN sn[p].m_cache.table :
         LET row == sn[p].m_cache.table[i]
         IN  /\ row.local \in had[row.mac]
             /\ RowOf(sn[p].m_cache, row.local) = {i}

(* An Ethernet frame reaches only the host it is for, or one whose node    *)
(* has an address that the node of that host had: no frame goes astray     *)
(* while nodes keep their addresses (getLocalAddress, rxRawPacket,         *)
(* packetReceived).  Bytes written to a pty come from its peer, if there   *)
(* is one (PtyRawHostDriver::packetReceivedFromNet).                       *)
DataReachesItsHost ==
  [][\A w \in written' :
       LET n == sn[w[1]]
       IN  CASE n.mode \in TapModes ->
                  \/ w[2].dst \in {w[1], BroadcastMac}
                  \/ n.m_addr \in had[w[2].dst]
             [] n.mode = "raw_pty" ->
                  \/ n.m_peerAddr = BroadcastAddr
                  \/ n.m_peerAddr \in had[w[2].src]
             [] OTHER -> TRUE]_vars

(* The network interface is up while the node has an address, and down     *)
(* while it has none and when its program has ended (msgHostRx_newAddr,    *)
(* the destructors of TunHostDriver and TapHostDriver).  The exception is  *)
(* a persistent interface after the death of its program: it stays up, and *)
(* the next program, which assumes that it is down, leaves it so.          *)
InterfaceFollowsAddress ==
  \A p \in Proc :
    /\ sn[p].mode \in {"tap", "tun"} =>
         /\ sn[p].m_ifUp = (sn[p].m_addr # NullAddr)
         /\ sn[p].m_ifUp => device[p].up
    /\ device[p].up => sn[p].m_ifUp \/ (device[p].persistent /\ deaths > 0)

(* A process watches its pty unless it is about to reopen it, and while no *)
(* other process has the same peer the link leads to that pty; no link is  *)
(* left over unless a process has died (monitorRead, closePty,             *)
(* triggerPtyRestart, FolderManager).                                      *)
LinkLeadsToPty ==
  /\ \A p \in Proc :
       Running(p) /\ sn[p].mode = "raw_pty" =>
         /\ sn[p].watched = ~sn[p].restart
         /\ link[sn[p].m_peerAddr] = sn[p].m_pty_fd
  /\ \A a \in Local :
       link[a] # 0 /\ deaths = 0 =>
         \E p \in Proc : /\ sn[p].m_peerAddr = a
                         /\ sn[p].m_pty_fd = link[a]

(* "This will happen when the pty slave side has unexpectedly died.  This  *)
(* should not result in this side crashing" (PtyRawHostDriver::doRead):    *)
(* the callback that reopens the pty does not end the process.             *)
SlaveDeathIsSurvived ==
  [][\A p \in Proc :
       sn[p].restart /\ Running(p) /\ sn'[p].stage = "dead"
         => deaths' = deaths + 1]_vars
=============================================================================
