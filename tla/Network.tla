------------------------------- MODULE Network -------------------------------
(***************************************************************************)
(* A bus: clients (ClientNode) and one master on a wire.                   *)
(*                                                                         *)
(* The master is the abstract arbiter that Master is shown to implement,   *)
(* with the packets that go with its actions: whom it polls next and when  *)
(* its timers expire is left open.                                         *)
(*                                                                         *)
(* The time the master waits after an address reply is left out.  Its own  *)
(* client is not among the nodes: it sends only in its own turn.           *)
(*                                                                         *)
(* A packet on the wire reaches every client in the order of transmission, *)
(* unless noise spoils it for some of them; each client has its own buffer *)
(* and works through it at its own pace.  The master hears a client at     *)
(* once or not at all, and requests of several clients may spoil each      *)
(* other.                                                                  *)
(***************************************************************************)
EXTENDS ClientNode

CONSTANTS
  Static,        \* addresses that are always polled
  Dynamic,       \* addresses that are given to clients
  NoNode,        \* the client of a static row: none that asks for addresses
  Noise,         \* types of packet that noise may spoil
  Late,          \* clients may react later than the timers of the master
  Bursts,        \* noise and late clients may cost a client its address
  BufferLimit,   \* packets in the buffer of a client (a bound)
  RestartLimit   \* restarts of the master (a bound)

(* AddressLine::setState gives up a row on the fourth miss. *)
Patience == 4

ASSUME NetworkAssumption ==
  /\ StaticAddr \in [Node -> Static \cup {NullAddr}]
  /\ Static \cap Dynamic = {} /\ NullAddr \notin Static \cup Dynamic
  /\ NoNode \notin Node
  /\ Late \in BOOLEAN /\ Bursts \in BOOLEAN
  /\ RestartLimit \in Nat

VARIABLES
  holder, onWire, owner, misses,  \* the master's, see TokenArbiter
  querying,      \* the master waits for address requests
  buffer,        \* packets each client has received and not yet processed
  restarts,      \* restarts of the master so far
  speakers,      \* clients that have spoken since the last token was granted
  tardy          \* clients that had not read an earlier token at that time

arbiterVars == <<holder, onWire, owner, misses>>
vars == <<clientVars, arbiterVars, querying, buffer, restarts, speakers, tardy>>

Arbiter == INSTANCE TokenArbiter
             WITH Uid <- Node \cup {NoNode}, NoOne <- NullAddr

Address == Static \cup Dynamic

GrantToken(a) == [type |-> "grant_token", dest |-> a]
AddressReply(a, c) == [type |-> "address_reply", assigned |-> a, uid |-> c]
AddressDiscovery == [type |-> "address_discovery"]
MasterStartedPacket == [type |-> "master_started"]

MasterPacket == {AddressDiscovery, MasterStartedPacket}
  \cup {GrantToken(a) : a \in Address}
  \cup {AddressReply(a, c) : a \in Address, c \in Node}

ClientPacket == {Silent} \cup {ReturnToken(a) : a \in Address}
  \cup {SendPacket(a) : a \in Address} \cup {AddressRequest(c) : c \in Node}

TypeOK ==
  /\ m_addr \in [Node -> Address \cup {NullAddr}]
  /\ m_txMsg \in [Node -> Seq(Address)]
  /\ said \in ClientPacket
  /\ holder \in Address \cup {NullAddr}
  /\ onWire \in BOOLEAN
  /\ DOMAIN owner \subseteq Address
  /\ \A a \in DOMAIN owner : owner[a] \in Node \cup {NoNode}
  /\ misses \in [Address -> 0 .. Patience]
  /\ querying \in BOOLEAN
  /\ buffer \in [Node -> Seq(MasterPacket)]
  /\ restarts \in 0 .. RestartLimit
  /\ speakers \subseteq Node /\ tardy \subseteq Node

-----------------------------------------------------------------------------
(* The wire. *)

(* One more token that is not answered and the address is taken away. *)
LastToken(a) == a \in Dynamic /\ misses[a] + 1 = Patience

(* Noise may spoil the packet, sent while that address has the token. *)
Spoils(packet, a) == packet.type \in Noise /\ (LastToken(a) => Bursts)

(* A request that another client without an address may spoil: all of them *)
(* answer a discovery at once, and again with the next one.                *)
Collides(c) == \E d \in Node \ {c} : m_addr[d] = NullAddr

(* The buffers after a packet was sent: noise may spoil it for some. *)
Broadcast(buffers, packet, a) ==
  /\ \A c \in Node : Len(buffers[c]) < BufferLimit
  /\ \E deaf \in (IF Spoils(packet, a) THEN SUBSET Node ELSE {{}}) :
       buffer' = [c \in Node |-> IF c \in deaf THEN buffers[c]
                                 ELSE Append(buffers[c], packet)]

(* Every client has reacted.  A client that is later than a timer of the    *)
(* master speaks in the time of another: neither side can tell.             *)
Settled == \A c \in Node : buffer[c] = <<>>

(* Clients that have a token before them. *)
Owing ==
  {c \in Node : \E i \in 1 .. Len(buffer[c]) : buffer[c][i].type = "grant_token"}

-----------------------------------------------------------------------------
(* The master. *)

Init ==
  /\ ClientInit
  /\ Arbiter!Init
  /\ owner = [a \in Static |-> NoNode]
  /\ querying = FALSE
  /\ buffer = [c \in Node |-> <<MasterStartedPacket>>]
  /\ restarts = 0
  /\ speakers = {} /\ tardy = {}

Grant(a) ==
  /\ ~querying
  /\ Arbiter!Grant(a)
  /\ onWire' = TRUE
  /\ Broadcast(buffer, GrantToken(a), a)
  /\ speakers' = {} /\ tardy' = Owing
  /\ UNCHANGED <<m_addr, m_txMsg, querying, restarts>>
  /\ said' = Silent

TokenTimeout(a) ==
  /\ Settled \/ (Late /\ (LastToken(a) => Bursts))
  /\ Arbiter!Silence(a)
  /\ said' = Silent
  /\ UNCHANGED <<m_addr, m_txMsg, querying, buffer, restarts, speakers, tardy>>

Discover ==
  /\ holder = NullAddr
  /\ ~querying
  /\ querying' = TRUE
  /\ Broadcast(buffer, AddressDiscovery, NullAddr)
  /\ said' = Silent
  /\ UNCHANGED <<m_addr, m_txMsg, arbiterVars, restarts, speakers, tardy>>

QueryTimeout ==
  /\ Settled \/ Late
  /\ querying
  /\ querying' = FALSE
  /\ said' = Silent
  /\ UNCHANGED <<m_addr, m_txMsg, arbiterVars, buffer, restarts, speakers, tardy>>

(* The process of the master ends and another one is started, whatever the  *)
(* clients have before them.                                                *)
Restart ==
  /\ restarts < RestartLimit
  /\ restarts' = restarts + 1
  /\ holder' = NullAddr
  /\ onWire' = FALSE
  /\ owner' = [a \in Static |-> NoNode]
  /\ misses' = [a \in Address |-> 0]
  /\ querying' = FALSE
  /\ Broadcast(buffer, MasterStartedPacket, NullAddr)
  /\ said' = Silent
  /\ speakers' = {} /\ tardy' = Owing
  /\ UNCHANGED <<m_addr, m_txMsg>>

(* What the master does with a packet of a client, and the buffers the     *)
(* client leaves behind.                                                   *)

(* Any answer counts as the answer of the address that has the token. *)
HearsAnswer(buffers) ==
  /\ said'.type \in {"return_token", "send_packet"}
  /\ holder # NullAddr
  /\ Arbiter!Answer(holder)
  /\ buffer' = buffers
  /\ UNCHANGED querying

HearsRequest(buffers) ==
  /\ said'.type = "address_request"
  /\ querying
  /\ querying' = FALSE
  /\ LET c == said'.uid
         known == {a \in DOMAIN owner : owner[a] = c}
     IN  \/ /\ \E a \in known :
                 Broadcast(buffers, AddressReply(a, c), NullAddr)
            /\ UNCHANGED arbiterVars
         \/ /\ known = {}
            /\ \E a \in Dynamic :
                 /\ Arbiter!Join(c, a)
                 /\ Broadcast(buffers, AddressReply(a, c), NullAddr)
         \/ /\ known = {} /\ Dynamic \subseteq DOMAIN owner
            /\ buffer' = buffers
            /\ UNCHANGED arbiterVars

(* Nothing was said, the master does not wait for it, or it is spoilt. *)
HearsNothing(buffers) ==
  /\ \/ said' = Silent
     \/ said'.type = "address_request" /\ ~querying
     \/ said'.type \in {"return_token", "send_packet"} /\ holder = NullAddr
     \/ Spoils(said', holder)
     \/ said'.type = "address_request" /\ Collides(said'.uid)
  /\ buffer' = buffers
  /\ UNCHANGED <<arbiterVars, querying>>

(* A client processes the next packet of its buffer. *)
ClientReceives(c) ==
  /\ buffer[c] # <<>>
  /\ RxRawPacket(c, Head(buffer[c]))
  /\ LET buffers == [buffer EXCEPT ![c] = Tail(@)]
     IN  HearsAnswer(buffers) \/ HearsRequest(buffers) \/ HearsNothing(buffers)
  /\ speakers' = IF said'.type \in {"return_token", "send_packet"}
                 THEN speakers \cup {c} ELSE speakers
  /\ UNCHANGED <<restarts, tardy>>

Host(c) ==
  /\ HostSends(c)
  /\ UNCHANGED <<arbiterVars, querying, buffer, restarts, speakers, tardy>>

Next ==
  \/ \E a \in Address : Grant(a) \/ TokenTimeout(a)
  \/ Discover
  \/ QueryTimeout
  \/ Restart
  \/ \E c \in Node : ClientReceives(c) \/ Host(c)

Spec == Init /\ [][Next]_vars

-----------------------------------------------------------------------------
(***************************************************************************)
(* Properties.                                                             *)
(***************************************************************************)

(* The client has been told of a restart but has not read it yet. *)
AboutToReset(c) ==
  \E i \in 1 .. Len(buffer[c]) : buffer[c][i].type = "master_started"

(* Two clients that both believe in their addresses never have the same     *)
(* one (ClientAddress.cpp:57-65): replies, requests and tokens may be lost, *)
(* clients may answer late and in the time of another                       *)
(* (MasterFSM.cpp:245-259 looks at no source), the master may restart at    *)
(* any time.  The one thing excluded is that a client misses four tokens in *)
(* a row through noise and its own delay (Bursts).                          *)
AddressesAreUnique ==
  \A c, d \in Node :
    /\ m_addr[c] # NullAddr /\ m_addr[c] = m_addr[d]
    /\ ~AboutToReset(c) /\ ~AboutToReset(d)
    => c = d

(* An address that a client believes to have been given is booked for it,   *)
(* under the same conditions: the master will poll it and will not give it  *)
(* to another, even if it has taken the answers of one for those of another.*)
AddressIsBooked ==
  \A c \in Node :
    m_addr[c] \in Dynamic /\ ~AboutToReset(c) =>
      m_addr[c] \in DOMAIN owner /\ owner[m_addr[c]] = c

(* At most one client speaks per token: help.cpp:36 promises to "manage     *)
(* access control to avoid interference between nodes".  The exception are  *)
(* clients that still had an earlier token to answer when this one was      *)
(* granted: the master gives them up after a timeout (MasterFSM.cpp:262),   *)
(* they answer all the same.                                                *)
NoInterference == \A c, d \in speakers \ tardy : c = d

-----------------------------------------------------------------------------
(***************************************************************************)
(* Fairness.  Clients read their buffers and the timers of the master      *)
(* expire.  The master polls every member and asks for new ones again and  *)
(* again, which is what its liveness properties say (module Master).       *)
(***************************************************************************)
Fairness ==
  /\ \A c \in Node : WF_vars(ClientReceives(c))
  /\ \A a \in Address : SF_vars(Grant(a)) /\ WF_vars(TokenTimeout(a))
  /\ SF_vars(Discover)
  /\ WF_vars(QueryTimeout)

FairSpec == Spec /\ Fairness

(* The client has no address and its requests may collide with others. *)
Contends(c) == m_addr[c] = NullAddr /\ Collides(c)

(* A client that does not contend for an address for ever comes to have one *)
(* and keeps it, although the master hears one request per discovery and    *)
(* may restart, which makes all clients ask again.  Requests that collide   *)
(* may do so for ever: no client waits before it asks again                 *)
(* (ClientAddress.cpp:49).  There is no noise, and clients are in time.     *)
LoneClientGetsAnAddress ==
  \A c \in Node : <>[]~Contends(c) => <>[](m_addr[c] # NullAddr)

(* A full transmit queue gets room again, through restarts of the master    *)
(* and changes of the address (TxQueue.cpp:53-74), unless the client comes  *)
(* to contend for an address.  As above there is no noise and clients are   *)
(* in time.                                                                 *)
QueueIsServed ==
  \A c \in Node :
    Len(m_txMsg[c]) = TxLimit ~> Len(m_txMsg[c]) < TxLimit \/ Contends(c)
=============================================================================
