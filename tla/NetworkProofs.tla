---------------------------- MODULE NetworkProofs ---------------------------
(***************************************************************************)
(* Proofs about the bus, for every set of clients and addresses, every     *)
(* length of the buffers and every number of restarts.                     *)
(*                                                                         *)
(* Clients may be late, replies, requests and tokens may be lost, and the  *)
(* master may restart at any time.  The properties rest on what the code   *)
(* cannot defend itself against, and the theorems name it (TameNoise,      *)
(* StaticAddressesDiffer).                                                 *)
(***************************************************************************)
EXTENDS Network, SequenceTheorems, TLAPS

(* Noise does not spoil the packet of a master that starts, and noise and  *)
(* delay together do not cost a client four tokens in a row.               *)
TameNoise == "master_started" \notin Noise /\ ~Bursts

(* Two clients are not started with the same static address.               *)
StaticAddressesDiffer ==
  \A c, d \in Node :
    StaticAddr[c] = StaticAddr[d] /\ StaticAddr[c] # NullAddr => c = d

(***************************************************************************)
(* The inductive invariant.                                                *)
(***************************************************************************)

(* Static rows stay, clients own dynamic addresses, and only clients that  *)
(* were started without an address.                                        *)
OwnerInv ==
  /\ Static \subseteq DOMAIN owner
  /\ \A a \in Static : owner[a] = NoNode
  /\ \A a \in DOMAIN owner : owner[a] \in Node => IsDynamic(owner[a])

(* A client with a static address keeps it, and no other has one of those. *)
StaticInv ==
  \A c \in Node :
    /\ ~IsDynamic(c) => m_addr[c] = StaticAddr[c]
    /\ IsDynamic(c) => m_addr[c] \notin Static

(* The packet at that place was sent by the master that is there now. *)
Fresh(c, i) ==
  \A j \in i + 1 .. Len(buffer[c]) : buffer[c][j].type # "master_started"

(* Addresses under way to clients agree with the rows of the master that   *)
(* sent them.                                                              *)
UnderWay ==
  \A c \in Node : \A i \in 1 .. Len(buffer[c]) :
    buffer[c][i].type = "address_reply" =>
      /\ buffer[c][i].assigned \in Dynamic /\ IsDynamic(buffer[c][i].uid)
      /\ Fresh(c, i) =>
           /\ buffer[c][i].assigned \in DOMAIN owner
           /\ owner[buffer[c][i].assigned] = buffer[c][i].uid

(* The address is the client's, whether or not the client knows.           *)
Entitled(c, a) ==
  \/ StaticAddr[c] = a
  \/ a \in DOMAIN owner /\ owner[a] = c

(* Clients that are not behind have before them no other token than the    *)
(* last one, and whoever of them has answered it was entitled to.          *)
TokenInv ==
  \A c \in Node \ tardy : \A i \in 1 .. Len(buffer[c]) :
    buffer[c][i].type = "grant_token" =>
      /\ Fresh(c, i)
      /\ \A d \in Node \ tardy : \A j \in 1 .. Len(buffer[d]) :
           buffer[d][j].type = "grant_token" => buffer[d][j] = buffer[c][i]
      /\ \A d \in speakers \ tardy : Entitled(d, buffer[c][i].dest)

(* A token that would cost a client its address if it was not answered is  *)
(* still before every client that may believe to have the address.         *)
LastChance ==
  LastToken(holder) =>
    \A c \in Node :
      IF buffer[c] = <<>> THEN m_addr[c] # holder
      ELSE buffer[c][Len(buffer[c])] = GrantToken(holder)

(* The master does not ask for clients while a token is out.               *)
QueryInv == querying => holder = NullAddr

Inv ==
  /\ TypeOK
  /\ OwnerInv
  /\ StaticInv
  /\ UnderWay
  /\ TokenInv
  /\ LastChance
  /\ QueryInv
  /\ AddressIsBooked
  /\ NoInterference

-----------------------------------------------------------------------------
(* Sequences.                                                              *)

LEMMA TailFacts ==
  ASSUME NEW S, NEW s \in Seq(S), s # <<>>
  PROVE  /\ Tail(s) \in Seq(S)
         /\ Len(s) \in Nat \ {0}
         /\ Len(Tail(s)) = Len(s) - 1
         /\ \A i \in 1 .. Len(s) - 1 : Tail(s)[i] = s[i + 1]
         /\ Head(s) = s[1]
         /\ Head(s) \in S
BY HeadTailProperties

LEMMA AppendFacts ==
  ASSUME NEW S, NEW s \in Seq(S), NEW e \in S
  PROVE  /\ Append(s, e) \in Seq(S)
         /\ Append(s, e) # <<>>
         /\ Len(s) \in Nat
         /\ Len(Append(s, e)) = Len(s) + 1
         /\ \A i \in 1 .. Len(s) : Append(s, e)[i] = s[i]
         /\ Append(s, e)[Len(s) + 1] = e
BY AppendProperties

-----------------------------------------------------------------------------
(* Types.                                                                  *)

LEMMA PacketFacts ==
  /\ AddressDiscovery \in MasterPacket /\ MasterStartedPacket \in MasterPacket
  /\ \A a \in Address : GrantToken(a) \in MasterPacket
  /\ \A a \in Address, c \in Node : AddressReply(a, c) \in MasterPacket
  /\ \A p \in MasterPacket :
       /\ p.type \in {"grant_token", "address_reply", "address_discovery",
                      "master_started"}
       /\ p.type = "grant_token" => p.dest \in Address /\ p = GrantToken(p.dest)
       /\ p.type = "address_reply" =>
            p.assigned \in Address /\ p.uid \in Node
<1>1. /\ AddressDiscovery \in MasterPacket /\ MasterStartedPacket \in MasterPacket
      /\ \A a \in Address : GrantToken(a) \in MasterPacket
      /\ \A a \in Address, c \in Node : AddressReply(a, c) \in MasterPacket
  BY DEF MasterPacket
<1>2. /\ AddressDiscovery.type = "address_discovery"
      /\ MasterStartedPacket.type = "master_started"
      /\ \A a \in Address :
           GrantToken(a).type = "grant_token" /\ GrantToken(a).dest = a
      /\ \A a \in Address, c \in Node :
           /\ AddressReply(a, c).type = "address_reply"
           /\ AddressReply(a, c).assigned = a /\ AddressReply(a, c).uid = c
  BY DEF AddressDiscovery, MasterStartedPacket, GrantToken, AddressReply
<1>3. ASSUME NEW p \in MasterPacket
      PROVE  \/ p \in {AddressDiscovery, MasterStartedPacket}
             \/ \E a \in Address : p = GrantToken(a)
             \/ \E a \in Address, c \in Node : p = AddressReply(a, c)
  BY DEF MasterPacket
<1> QED
  BY <1>1, <1>2, <1>3

LEMMA BroadcastFacts ==
  ASSUME NEW buffers \in [Node -> Seq(MasterPacket)],
         NEW packet \in MasterPacket, NEW a, Broadcast(buffers, packet, a)
  PROVE  /\ buffer' \in [Node -> Seq(MasterPacket)]
         /\ \A c \in Node : buffer'[c] \in {buffers[c], Append(buffers[c], packet)}
         /\ ~Spoils(packet, a) =>
              \A c \in Node : buffer'[c] = Append(buffers[c], packet)
<1>1. PICK deaf \in SUBSET Node :
        buffer' = [c \in Node |-> IF c \in deaf THEN buffers[c]
                                  ELSE Append(buffers[c], packet)]
  BY DEF Broadcast
<1>2. ASSUME ~Spoils(packet, a)
      PROVE  buffer' = [c \in Node |-> Append(buffers[c], packet)]
  BY <1>2 DEF Broadcast
<1>3. \A c \in Node : Append(buffers[c], packet) \in Seq(MasterPacket)
  BY AppendFacts
<1> QED
  BY <1>1, <1>2, <1>3

LEMMA SaidFacts ==
  /\ Silent \in ClientPacket /\ Silent.type = "none"
  /\ \A a \in Address :
       /\ ReturnToken(a) \in ClientPacket /\ ReturnToken(a).type = "return_token"
       /\ SendPacket(a) \in ClientPacket /\ SendPacket(a).type = "send_packet"
  /\ \A c \in Node :
       /\ AddressRequest(c) \in ClientPacket
       /\ AddressRequest(c).type = "address_request"
       /\ AddressRequest(c).uid = c
BY DEF ClientPacket, Silent, ReturnToken, SendPacket, AddressRequest

LEMMA TypeInit == Init => TypeOK
<1> SUFFICES ASSUME Init PROVE TypeOK
  OBVIOUS
<1>1. buffer \in [Node -> Seq(MasterPacket)]
  BY PacketFacts DEF Init
<1>2. /\ m_addr \in [Node -> Address \cup {NullAddr}]
      /\ m_txMsg \in [Node -> Seq(Address)]
      /\ said \in ClientPacket
  BY NetworkAssumption, SaidFacts DEF Init, ClientInit, Address
<1>3. misses \in [Address -> 0 .. Patience]
  BY DEF Init, Arbiter!Init, Arbiter!Address, Address, Patience
<1>4. DOMAIN owner = Static /\ \A a \in Static : owner[a] = NoNode
  BY DEF Init
<1>5. onWire \in BOOLEAN /\ querying \in BOOLEAN
  BY DEF Init, Arbiter!Init
<1>6. holder = NullAddr /\ restarts = 0 /\ speakers = {} /\ tardy = {}
  BY DEF Init, Arbiter!Init
<1>7. restarts \in 0 .. RestartLimit
  BY <1>6, NetworkAssumption
<1> QED
  BY <1>1, <1>2, <1>3, <1>4, <1>5, <1>6, <1>7 DEF TypeOK, Address

(* The ways in which a client works off a packet: a reply, a start of the  *)
(* master, or nothing that concerns it; a token; a question.               *)
Rest(c) == [buffer EXCEPT ![c] = Tail(@)]

TakesNote(c) ==
  /\ \/ /\ Head(buffer[c]).type = "address_reply" /\ Head(buffer[c]).uid = c
        /\ m_addr' = [m_addr EXCEPT ![c] = Head(buffer[c]).assigned]
     \/ /\ Head(buffer[c]).type = "master_started"
        /\ m_addr' = [m_addr EXCEPT ![c] =
                        IF IsDynamic(c) THEN NullAddr ELSE m_addr[c]]
     \/ Ignores(c, Head(buffer[c])) /\ UNCHANGED m_addr
  /\ buffer' = Rest(c)
  /\ said' = Silent
  /\ UNCHANGED <<m_txMsg, arbiterVars, querying, restarts, speakers, tardy>>

UsesToken(c) ==
  /\ Head(buffer[c]).type = "grant_token" /\ Head(buffer[c]).dest = m_addr[c]
  /\ said'.type \in {"return_token", "send_packet"}
  /\ HearsAnswer(Rest(c)) \/ HearsNothing(Rest(c))
  /\ speakers' = speakers \cup {c}
  /\ UNCHANGED <<m_addr, restarts, tardy>>

Asks(c) ==
  /\ Head(buffer[c]).type = "address_discovery" /\ m_addr[c] = NullAddr
  /\ said' = AddressRequest(c)
  /\ HearsRequest(Rest(c)) \/ HearsNothing(Rest(c))
  /\ UNCHANGED <<m_addr, m_txMsg, restarts, speakers, tardy>>

LEMMA ReceiveCases ==
  ASSUME TypeOK, NEW c \in Node, ClientReceives(c)
  PROVE  /\ TakesNote(c) \/ UsesToken(c) \/ Asks(c)
         /\ said' \in ClientPacket
         /\ m_txMsg' \in [Node -> Seq(Address)]
<1> DEFINE head == Head(buffer[c])
<1>1. head \in MasterPacket /\ buffer[c] # <<>>
  BY TailFacts DEF TypeOK, ClientReceives
<1>2. /\ RxRawPacket(c, head)
      /\ HearsAnswer(Rest(c)) \/ HearsRequest(Rest(c)) \/ HearsNothing(Rest(c))
      /\ speakers' = IF said'.type \in {"return_token", "send_packet"}
                     THEN speakers \cup {c} ELSE speakers
      /\ UNCHANGED <<restarts, tardy>>
  BY DEF ClientReceives, Rest
<1>3. m_txMsg \in [Node -> Seq(Address)] /\ m_addr \in [Node -> Address \cup {NullAddr}]
  BY DEF TypeOK
<1>4. CASE said' = Silent /\ UNCHANGED m_txMsg
  <2>1. HearsNothing(Rest(c))
    BY <1>2, <1>4, SaidFacts DEF HearsAnswer, HearsRequest
  <2>2. /\ buffer' = Rest(c) /\ speakers' = speakers
        /\ UNCHANGED <<arbiterVars, querying>>
    BY <2>1, <1>2, <1>4, SaidFacts DEF HearsNothing
  <2>3. ~ (head.type = "grant_token" /\ RxGrantToken(c, head.dest))
    BY <1>1, <1>3, <1>4, SaidFacts, PacketFacts, TailFacts DEF RxGrantToken
  <2>4. ~ RxDiscoveryPacket(c)
    BY <1>4, SaidFacts DEF RxDiscoveryPacket
  <2>5. TakesNote(c)
    BY <1>2, <1>4, <2>2, <2>3, <2>4
    DEF RxRawPacket, TakesNote, RxAddrReplyPacket, MasterStarted
  <2> QED
    BY <1>3, <1>4, <2>5, SaidFacts
<1>5. CASE head.type = "grant_token" /\ RxGrantToken(c, head.dest)
  <2>1. head.dest \in Address /\ head.dest = m_addr[c] /\ UNCHANGED m_addr
    BY <1>1, <1>5, PacketFacts DEF RxGrantToken
  <2>2. /\ said' \in ClientPacket
        /\ said'.type \in {"return_token", "send_packet"}
        /\ m_txMsg' \in [Node -> Seq(Address)]
    <3>1. CASE m_txMsg[c] = <<>>
      BY <1>3, <1>5, <2>1, <3>1, SaidFacts DEF RxGrantToken
    <3>2. CASE m_txMsg[c] # <<>>
      <4>1. Head(m_txMsg[c]) \in Address /\ Tail(m_txMsg[c]) \in Seq(Address)
        BY <1>3, <3>2, TailFacts
      <4>2. /\ said' = SendPacket(Head(m_txMsg[c]))
            /\ m_txMsg' = [m_txMsg EXCEPT ![c] = Tail(m_txMsg[c])]
        BY <1>5, <3>2 DEF RxGrantToken
      <4> QED
        BY <1>3, <4>1, <4>2, SaidFacts
    <3> QED
      BY <3>1, <3>2
  <2>3. UsesToken(c)
    BY <1>2, <1>5, <2>1, <2>2 DEF UsesToken, HearsRequest
  <2> QED
    BY <2>2, <2>3
<1>6. CASE head.type = "address_discovery" /\ RxDiscoveryPacket(c)
  <2>1. m_addr[c] = NullAddr /\ said' = AddressRequest(c) /\ UNCHANGED <<m_addr, m_txMsg>>
    BY <1>6 DEF RxDiscoveryPacket
  <2>2. said' \in ClientPacket /\ said'.type = "address_request"
    BY <2>1, SaidFacts
  <2>3. Asks(c)
    BY <1>2, <1>6, <2>1, <2>2 DEF Asks, HearsAnswer
  <2> QED
    BY <1>3, <2>1, <2>2, <2>3
<1> QED
  BY <1>2, <1>4, <1>5, <1>6
  DEF RxRawPacket, RxAddrReplyPacket, MasterStarted

(* The master's part of the type, in the steps of the arbiter.             *)
ArbiterOK ==
  /\ holder \in Address \cup {NullAddr}
  /\ onWire \in BOOLEAN
  /\ DOMAIN owner \subseteq Address
  /\ \A a \in DOMAIN owner : owner[a] \in Node \cup {NoNode}
  /\ misses \in [Address -> 0 .. Patience]

LEMMA ArbiterType ==
  ASSUME ArbiterOK,
         \/ UNCHANGED arbiterVars
         \/ \E a \in Address :
              \/ Arbiter!Grant(a) /\ onWire' = TRUE
              \/ Arbiter!Answer(a) \/ Arbiter!Silence(a)
         \/ \E a \in Dynamic, c \in Node : Arbiter!Join(c, a)
  PROVE  ArbiterOK'
<1>1. CASE UNCHANGED arbiterVars
  BY <1>1 DEF ArbiterOK, arbiterVars
<1>2. ASSUME NEW a \in Address, Arbiter!Grant(a), onWire' = TRUE
      PROVE  ArbiterOK'
  BY <1>2 DEF ArbiterOK, Arbiter!Grant
<1>3. ASSUME NEW a \in Address, Arbiter!Answer(a)
      PROVE  ArbiterOK'
  <2>1. holder' = NullAddr /\ UNCHANGED owner
    BY <1>3 DEF Arbiter!Answer
  <2>2. onWire' \in BOOLEAN
    BY <1>3 DEF Arbiter!Answer
  <2>3. misses' \in [Address -> 0 .. Patience]
    BY <1>3 DEF Arbiter!Answer, ArbiterOK, Patience
  <2> QED
    BY <2>1, <2>2, <2>3 DEF ArbiterOK
<1>4. ASSUME NEW a \in Address, Arbiter!Silence(a)
      PROVE  ArbiterOK'
  <2>1. holder' = NullAddr /\ onWire' \in BOOLEAN
    BY <1>4 DEF Arbiter!Silence
  <2>2. misses' \in [Address -> 0 .. Patience]
    BY <1>4 DEF Arbiter!Silence, ArbiterOK, Patience
  <2>3. \/ UNCHANGED owner
        \/ owner' = [b \in DOMAIN owner \ {a} |-> owner[b]]
    BY <1>4 DEF Arbiter!Silence
  <2> QED
    BY <2>1, <2>2, <2>3 DEF ArbiterOK
<1>5. ASSUME NEW a \in Dynamic, NEW c \in Node, Arbiter!Join(c, a)
      PROVE  ArbiterOK'
  BY <1>5 DEF ArbiterOK, Arbiter!Join, Address
<1> QED
  BY <1>1, <1>2, <1>3, <1>4, <1>5

LEMMA TypeStep == TypeOK /\ [Next]_vars => TypeOK'
<1> SUFFICES ASSUME TypeOK, [Next]_vars PROVE TypeOK'
  OBVIOUS
<1>1. ArbiterOK
  BY DEF TypeOK, ArbiterOK
<1>2. /\ m_addr \in [Node -> Address \cup {NullAddr}]
      /\ m_txMsg \in [Node -> Seq(Address)]
      /\ buffer \in [Node -> Seq(MasterPacket)]
      /\ restarts \in 0 .. RestartLimit
      /\ speakers \subseteq Node /\ tardy \subseteq Node /\ Owing \subseteq Node
  BY DEF TypeOK, Owing
<1>3. CASE UNCHANGED vars
  BY <1>3 DEF TypeOK, vars, clientVars, arbiterVars
<1>4. ASSUME NEW a \in Address, Grant(a)
      PROVE  TypeOK'
  <2>1. ArbiterOK'
    BY <1>1, <1>4, ArbiterType DEF Grant
  <2>2. buffer' \in [Node -> Seq(MasterPacket)]
    BY <1>2, <1>4, PacketFacts, BroadcastFacts DEF Grant
  <2> QED
    BY <1>2, <1>4, <2>1, <2>2, SaidFacts DEF Grant, TypeOK, ArbiterOK
<1>5. ASSUME NEW a \in Address, TokenTimeout(a)
      PROVE  TypeOK'
  <2>1. ArbiterOK'
    BY <1>1, <1>5, ArbiterType DEF TokenTimeout
  <2> QED
    BY <1>2, <1>5, <2>1, SaidFacts DEF TokenTimeout, TypeOK, ArbiterOK
<1>6. CASE Discover
  <2>1. buffer' \in [Node -> Seq(MasterPacket)]
    BY <1>2, <1>6, PacketFacts, BroadcastFacts DEF Discover
  <2>2. querying' \in BOOLEAN
    BY <1>6 DEF Discover
  <2> QED
    BY <1>2, <1>6, <2>1, <2>2, SaidFacts DEF Discover, TypeOK, arbiterVars
<1>7. CASE QueryTimeout
  <2>1. querying' \in BOOLEAN
    BY <1>7 DEF QueryTimeout
  <2> QED
    BY <1>2, <1>7, <2>1, SaidFacts DEF QueryTimeout, TypeOK, arbiterVars
<1>8. CASE Restart
  <2>1. buffer' \in [Node -> Seq(MasterPacket)]
    BY <1>2, <1>8, PacketFacts, BroadcastFacts DEF Restart
  <2>2. querying' \in BOOLEAN /\ onWire' \in BOOLEAN
    BY <1>8 DEF Restart
  <2>3. DOMAIN owner' \subseteq Address /\ \A a \in DOMAIN owner' : owner'[a] = NoNode
    BY <1>8 DEF Restart, Address
  <2>4. misses' \in [Address -> 0 .. Patience]
    BY <1>8 DEF Restart, Patience
  <2>5. restarts' \in 0 .. RestartLimit
    BY <1>2, <1>8, NetworkAssumption DEF Restart
  <2>6. /\ holder' = NullAddr /\ speakers' = {} /\ tardy' = Owing /\ said' = Silent
        /\ UNCHANGED <<m_addr, m_txMsg>>
    BY <1>8 DEF Restart
  <2> QED
    BY <1>2, <2>1, <2>2, <2>3, <2>4, <2>5, <2>6, SaidFacts DEF TypeOK
<1>9. ASSUME NEW c \in Node, Host(c)
      PROVE  TypeOK'
  <2>1. Append(m_txMsg[c], m_addr[c]) \in Seq(Address)
    BY <1>2, <1>9, AppendFacts DEF Host, HostSends
  <2>2. m_txMsg' \in [Node -> Seq(Address)]
    BY <1>2, <1>9, <2>1 DEF Host, HostSends
  <2> QED
    BY <1>2, <1>9, <2>2, SaidFacts
    DEF Host, HostSends, TypeOK, arbiterVars
<1>10. ASSUME NEW c \in Node, ClientReceives(c)
       PROVE  TypeOK'
  <2>1. /\ TakesNote(c) \/ UsesToken(c) \/ Asks(c)
        /\ said' \in ClientPacket /\ m_txMsg' \in [Node -> Seq(Address)]
    BY <1>10, ReceiveCases
  <2>2. /\ Rest(c) \in [Node -> Seq(MasterPacket)]
        /\ Head(buffer[c]) \in MasterPacket
    BY <1>2, <1>10, TailFacts DEF Rest, ClientReceives
  <2>3. CASE TakesNote(c)
    <3>1. m_addr' \in [Node -> Address \cup {NullAddr}]
      BY <1>2, <2>2, <2>3, PacketFacts DEF TakesNote
    <3> QED
      BY <1>2, <2>1, <2>2, <2>3, <3>1 DEF TakesNote, TypeOK, arbiterVars
  <2>4. CASE UsesToken(c)
    <3>1. ArbiterOK' /\ buffer' = Rest(c) /\ UNCHANGED querying
      BY <1>1, <2>4, ArbiterType
      DEF UsesToken, HearsAnswer, HearsNothing, ArbiterOK
    <3> QED
      BY <1>2, <2>1, <2>2, <2>4, <3>1 DEF UsesToken, TypeOK, ArbiterOK
  <2>5. CASE Asks(c)
    <3>1. CASE HearsNothing(Rest(c))
      BY <1>2, <2>1, <2>2, <2>5, <3>1
      DEF Asks, HearsNothing, TypeOK, arbiterVars
    <3>2. CASE HearsRequest(Rest(c))
      <4>0. said'.uid = c
        BY <2>5, SaidFacts DEF Asks
      <4>1. querying' \in BOOLEAN
        BY <3>2 DEF HearsRequest
      <4>2. ArbiterOK'
        BY <1>1, <3>2, <4>0, ArbiterType DEF HearsRequest
      <4>3. buffer' \in [Node -> Seq(MasterPacket)]
        BY <1>1, <2>2, <3>2, <4>0, PacketFacts, BroadcastFacts
        DEF HearsRequest, ArbiterOK, Address
      <4> QED
        BY <1>2, <2>1, <2>5, <4>1, <4>2, <4>3 DEF Asks, TypeOK, ArbiterOK
    <3> QED
      BY <2>5, <3>1, <3>2 DEF Asks
  <2> QED
    BY <2>1, <2>3, <2>4, <2>5
<1> QED
  BY <1>3, <1>4, <1>5, <1>6, <1>7, <1>8, <1>9, <1>10 DEF Next

(* The state of clients, buffers and master stays well typed.              *)
THEOREM TypeSafety == Spec => []TypeOK
  BY TypeInit, TypeStep, PTL DEF Spec
-----------------------------------------------------------------------------
(* What a step does to the buffers.                                        *)

(* A step takes at most one packet from the front of a buffer and adds at  *)
(* most this one at the end.                                               *)
OnlyAdds(packet) ==
  \A d \in Node : \E k \in {0, 1} :
    /\ Len(buffer'[d]) \in {Len(buffer[d]) - k, Len(buffer[d]) - k + 1}
    /\ \A i \in 1 .. Len(buffer[d]) - k : buffer'[d][i] = buffer[d][i + k]
    /\ Len(buffer'[d]) = Len(buffer[d]) - k + 1 =>
         buffer'[d][Len(buffer'[d])] = packet

(* No client reads that the master has started. *)
KeepsStarts == \A d \in Node : AboutToReset(d) => AboutToReset(d)'

LEMMA RestFacts ==
  ASSUME TypeOK, NEW c \in Node, buffer[c] # <<>>
  PROVE  /\ Rest(c) \in [Node -> Seq(MasterPacket)]
         /\ \A d \in Node \ {c} : Rest(c)[d] = buffer[d]
         /\ Rest(c)[c] = Tail(buffer[c])
         /\ \A d \in Node : Len(buffer[d]) \in Nat
         /\ Len(buffer[c]) > 0
         /\ Len(Rest(c)[c]) = Len(buffer[c]) - 1
         /\ \A i \in 1 .. Len(buffer[c]) - 1 : Rest(c)[c][i] = buffer[c][i + 1]
         /\ Head(buffer[c]) = buffer[c][1]
         /\ Head(buffer[c]) \in MasterPacket
<1>1. buffer \in [Node -> Seq(MasterPacket)]
  BY DEF TypeOK
<1>2. Tail(buffer[c]) \in Seq(MasterPacket)
  BY <1>1, TailFacts
<1>3. \A d \in Node : Len(buffer[d]) \in Nat
  BY <1>1, LenProperties
<1>4. /\ Rest(c) \in [Node -> Seq(MasterPacket)]
      /\ \A d \in Node \ {c} : Rest(c)[d] = buffer[d]
      /\ Rest(c)[c] = Tail(buffer[c])
  BY <1>1, <1>2 DEF Rest
<1> QED
  BY <1>1, <1>3, <1>4, TailFacts

LEMMA RestOnlyAdds ==
  ASSUME TypeOK, NEW c \in Node, buffer[c] # <<>>, buffer' = Rest(c), NEW packet
  PROVE  OnlyAdds(packet)
<1> SUFFICES ASSUME NEW d \in Node
             PROVE  \E k \in {0, 1} :
                      /\ Len(buffer'[d]) = Len(buffer[d]) - k
                      /\ \A i \in 1 .. Len(buffer[d]) - k :
                           buffer'[d][i] = buffer[d][i + k]
  <2>1. \A d \in Node : Len(buffer[d]) \in Nat
    BY RestFacts
  <2> QED
    BY <2>1 DEF OnlyAdds
<1>1. CASE d = c
  BY <1>1, RestFacts
<1>2. CASE d # c
  <2>1. buffer'[d] = buffer[d] /\ Len(buffer[d]) \in Nat
    BY <1>2, RestFacts
  <2>2. /\ Len(buffer'[d]) = Len(buffer[d]) - 0
        /\ \A i \in 1 .. Len(buffer[d]) - 0 : buffer'[d][i] = buffer[d][i + 0]
    BY <2>1
  <2> QED
    BY <2>2
<1> QED
  BY <1>1, <1>2

LEMMA RestKeepsStarts ==
  ASSUME TypeOK, NEW c \in Node, buffer[c] # <<>>, buffer' = Rest(c),
         Head(buffer[c]).type # "master_started"
  PROVE  KeepsStarts
<1> SUFFICES ASSUME NEW d \in Node, AboutToReset(d)
             PROVE  AboutToReset(d)'
  BY DEF KeepsStarts
<1>1. PICK i \in 1 .. Len(buffer[d]) : buffer[d][i].type = "master_started"
  BY DEF AboutToReset
<1>2. CASE d = c
  <2>1. i # 1
    BY <1>1, <1>2, RestFacts
  <2>2. i - 1 \in 1 .. Len(buffer'[c]) /\ buffer'[c][i - 1] = buffer[c][i]
    BY <1>1, <1>2, <2>1, RestFacts
  <2> QED
    BY <1>1, <1>2, <2>2 DEF AboutToReset
<1>3. CASE d # c
  BY <1>1, <1>3, RestFacts DEF AboutToReset
<1> QED
  BY <1>2, <1>3

(* A broadcast to the buffers that are left, of the whole or of the rest. *)
LEMMA BroadcastOnlyAdds ==
  ASSUME NEW buffers \in [Node -> Seq(MasterPacket)],
         NEW packet \in MasterPacket, NEW a, Broadcast(buffers, packet, a)
  PROVE  \A d \in Node :
           /\ Len(buffers[d]) \in Nat
           /\ Len(buffer'[d]) \in {Len(buffers[d]), Len(buffers[d]) + 1}
           /\ \A i \in 1 .. Len(buffers[d]) : buffer'[d][i] = buffers[d][i]
           /\ Len(buffer'[d]) = Len(buffers[d]) + 1 =>
                buffer'[d][Len(buffers[d]) + 1] = packet
<1> TAKE d \in Node
<1>1. buffer'[d] \in {buffers[d], Append(buffers[d], packet)}
  BY BroadcastFacts
<1>2. Len(buffers[d]) \in Nat
  BY LenProperties
<1> QED
  BY <1>1, <1>2, AppendFacts

LEMMA SendFacts ==
  ASSUME TypeOK, NEW packet \in MasterPacket, NEW a, Broadcast(buffer, packet, a)
  PROVE  OnlyAdds(packet) /\ KeepsStarts
<1>1. buffer \in [Node -> Seq(MasterPacket)]
  BY DEF TypeOK
<1>2. OnlyAdds(packet)
  <2> SUFFICES ASSUME NEW d \in Node
               PROVE  /\ Len(buffer'[d]) \in {Len(buffer[d]) - 0,
                                              Len(buffer[d]) - 0 + 1}
                      /\ \A i \in 1 .. Len(buffer[d]) - 0 :
                           buffer'[d][i] = buffer[d][i + 0]
                      /\ Len(buffer'[d]) = Len(buffer[d]) - 0 + 1 =>
                           buffer'[d][Len(buffer'[d])] = packet
    BY DEF OnlyAdds
  <2> QED
    BY <1>1, BroadcastOnlyAdds
<1>3. KeepsStarts
  <2> SUFFICES ASSUME NEW d \in Node, AboutToReset(d)
               PROVE  AboutToReset(d)'
    BY DEF KeepsStarts
  <2> QED
    BY <1>1, BroadcastOnlyAdds DEF AboutToReset
<1> QED
  BY <1>2, <1>3

LEMMA ReplyFacts ==
  ASSUME TypeOK, NEW c \in Node, buffer[c] # <<>>,
         Head(buffer[c]).type # "master_started",
         NEW packet \in MasterPacket, NEW a, Broadcast(Rest(c), packet, a)
  PROVE  OnlyAdds(packet) /\ KeepsStarts
<1>1. Rest(c) \in [Node -> Seq(MasterPacket)]
  BY RestFacts
<1>2. OnlyAdds(packet)
  <2> SUFFICES ASSUME NEW d \in Node
               PROVE  \E k \in {0, 1} :
                        /\ Len(buffer'[d]) \in {Len(buffer[d]) - k,
                                                Len(buffer[d]) - k + 1}
                        /\ \A i \in 1 .. Len(buffer[d]) - k :
                             buffer'[d][i] = buffer[d][i + k]
                        /\ Len(buffer'[d]) = Len(buffer[d]) - k + 1 =>
                             buffer'[d][Len(buffer'[d])] = packet
    BY DEF OnlyAdds
  <2>1. /\ Len(Rest(c)[d]) \in Nat
        /\ Len(buffer'[d]) \in {Len(Rest(c)[d]), Len(Rest(c)[d]) + 1}
        /\ \A i \in 1 .. Len(Rest(c)[d]) : buffer'[d][i] = Rest(c)[d][i]
        /\ Len(buffer'[d]) = Len(Rest(c)[d]) + 1 =>
             buffer'[d][Len(Rest(c)[d]) + 1] = packet
    BY <1>1, BroadcastOnlyAdds
  <2>2. CASE d = c
    <3>1. /\ Len(buffer[c]) \in Nat /\ Len(Rest(c)[c]) = Len(buffer[c]) - 1
          /\ \A i \in 1 .. Len(buffer[c]) - 1 : Rest(c)[c][i] = buffer[c][i + 1]
      BY RestFacts
    <3> QED
      BY <2>1, <2>2, <3>1
  <2>3. CASE d # c
    <3>1. Len(buffer[d]) \in Nat /\ Rest(c)[d] = buffer[d]
      BY <2>3, RestFacts
    <3>2. /\ Len(buffer'[d]) \in {Len(buffer[d]) - 0, Len(buffer[d]) - 0 + 1}
          /\ \A i \in 1 .. Len(buffer[d]) - 0 : buffer'[d][i] = buffer[d][i + 0]
          /\ Len(buffer'[d]) = Len(buffer[d]) - 0 + 1 =>
               buffer'[d][Len(buffer'[d])] = packet
      BY <2>1, <3>1
    <3> QED
      BY <3>2
  <2> QED
    BY <2>2, <2>3
<1>3. KeepsStarts
  <2> SUFFICES ASSUME NEW d \in Node, AboutToReset(d)
               PROVE  AboutToReset(d)'
    BY DEF KeepsStarts
  <2>1. PICK i \in 1 .. Len(buffer[d]) : buffer[d][i].type = "master_started"
    BY DEF AboutToReset
  <2>2. PICK j \in 1 .. Len(Rest(c)[d]) : Rest(c)[d][j] = buffer[d][i]
    <3>1. CASE d = c
      <4>1. i # 1
        BY <2>1, <3>1, RestFacts
      <4>2. i - 1 \in 1 .. Len(Rest(c)[c]) /\ Rest(c)[c][i - 1] = buffer[c][i]
        BY <2>1, <3>1, <4>1, RestFacts
      <4> QED
        BY <3>1, <4>2
    <3>2. CASE d # c
      BY <2>1, <3>2, RestFacts
    <3> QED
      BY <3>1, <3>2
  <2>3. /\ Len(Rest(c)[d]) \in Nat
        /\ Len(buffer'[d]) \in {Len(Rest(c)[d]), Len(Rest(c)[d]) + 1}
        /\ \A k \in 1 .. Len(Rest(c)[d]) : buffer'[d][k] = Rest(c)[d][k]
    BY <1>1, BroadcastOnlyAdds
  <2>4. j \in 1 .. Len(buffer'[d]) /\ buffer'[d][j] = buffer[d][i]
    BY <2>2, <2>3
  <2> QED
    BY <2>1, <2>4 DEF AboutToReset
<1> QED
  BY <1>2, <1>3
-----------------------------------------------------------------------------
(* The invariant in the first state.                                       *)

LEMMA InitInv == Init => Inv
<1> SUFFICES ASSUME Init PROVE Inv
  OBVIOUS
<1>1. TypeOK
  BY TypeInit
<1>2. \A c \in Node :
        /\ buffer[c] = <<MasterStartedPacket>>
        /\ Len(buffer[c]) = 1 /\ buffer[c][1] = MasterStartedPacket
  BY DEF Init
<1>3. MasterStartedPacket.type = "master_started"
  BY DEF MasterStartedPacket
<1>4. m_addr = StaticAddr /\ owner = [a \in Static |-> NoNode]
      /\ holder = NullAddr /\ querying = FALSE /\ speakers = {}
  BY DEF Init, ClientInit, Arbiter!Init
<1>5. OwnerInv
  BY <1>4, NetworkAssumption DEF OwnerInv
<1>6. StaticInv
  BY <1>4, NetworkAssumption DEF StaticInv, IsDynamic
<1>7. UnderWay /\ TokenInv
  BY <1>2, <1>3 DEF UnderWay, TokenInv
<1>8. LastChance /\ QueryInv /\ NoInterference
  BY <1>4, NetworkAssumption DEF LastChance, LastToken, QueryInv, NoInterference
<1>9. AddressIsBooked
  BY <1>2, <1>3 DEF AddressIsBooked, AboutToReset
<1> QED
  BY <1>1, <1>5, <1>6, <1>7, <1>8, <1>9 DEF Inv

-----------------------------------------------------------------------------
(* Facts the steps share.                                                  *)

(* A packet in a buffer after the step was there before, from the same     *)
(* master, or is the one of this step.                                     *)
LEMMA OldOrNew ==
  ASSUME TypeOK, TypeOK', NEW packet, OnlyAdds(packet),
         packet.type # "master_started",
         NEW c \in Node, NEW i \in 1 .. Len(buffer'[c])
  PROVE  \/ buffer'[c][i] = packet /\ Fresh(c, i)'
         \/ \E j \in 1 .. Len(buffer[c]) :
              buffer'[c][i] = buffer[c][j] /\ (Fresh(c, i)' <=> Fresh(c, j))
<1>1. Len(buffer[c]) \in Nat /\ Len(buffer'[c]) \in Nat
  BY LenProperties DEF TypeOK
<1>2. PICK k \in {0, 1} :
        /\ Len(buffer'[c]) \in {Len(buffer[c]) - k, Len(buffer[c]) - k + 1}
        /\ \A n \in 1 .. Len(buffer[c]) - k : buffer'[c][n] = buffer[c][n + k]
        /\ Len(buffer'[c]) = Len(buffer[c]) - k + 1 =>
             buffer'[c][Len(buffer'[c])] = packet
  BY DEF OnlyAdds
<1>3. CASE i > Len(buffer[c]) - k
  <2>1. i = Len(buffer'[c]) /\ buffer'[c][i] = packet
    BY <1>1, <1>2, <1>3
  <2>2. Fresh(c, i)'
    BY <1>1, <2>1 DEF Fresh
  <2> QED
    BY <2>1, <2>2
<1>4. CASE i <= Len(buffer[c]) - k
  <2>1. i + k \in 1 .. Len(buffer[c]) /\ buffer'[c][i] = buffer[c][i + k]
    BY <1>1, <1>2, <1>4
  <2>2. ASSUME Fresh(c, i)', NEW n \in i + k + 1 .. Len(buffer[c])
        PROVE  buffer[c][n].type # "master_started"
    <3>1. /\ n - k \in 1 .. Len(buffer[c]) - k
          /\ n - k \in i + 1 .. Len(buffer'[c]) /\ n - k + k = n
      BY <1>1, <1>2
    <3>2. buffer'[c][n - k] = buffer[c][n]
      BY <1>2, <3>1
    <3> QED
      BY <2>2, <3>1, <3>2 DEF Fresh
  <2>3. ASSUME Fresh(c, i + k), NEW n \in i + 1 .. Len(buffer'[c])
        PROVE  buffer'[c][n].type # "master_started"
    <3>1. CASE n > Len(buffer[c]) - k
      BY <1>1, <1>2, <3>1
    <3>2. CASE n <= Len(buffer[c]) - k
      <4>1. /\ n \in 1 .. Len(buffer[c]) - k
            /\ n + k \in i + k + 1 .. Len(buffer[c])
        BY <1>1, <3>2
      <4>2. buffer'[c][n] = buffer[c][n + k]
        BY <1>2, <4>1
      <4> QED
        BY <2>3, <4>1, <4>2 DEF Fresh
    <3> QED
      BY <1>1, <3>1, <3>2
  <2>4. Fresh(c, i)' <=> Fresh(c, i + k)
    BY <2>2, <2>3 DEF Fresh
  <2> QED
    BY <2>1, <2>4
<1> QED
  BY <1>1, <1>3, <1>4

(* Packets that are kept stay as they should be while rows are only added. *)
LEMMA BuffersStep ==
  ASSUME Inv, TypeOK', NEW packet, OnlyAdds(packet),
         packet.type # "master_started",
         \A a \in DOMAIN owner : a \in DOMAIN owner' /\ owner'[a] = owner[a],
         packet.type = "address_reply" =>
           /\ packet.assigned \in Dynamic \cap DOMAIN owner'
           /\ owner'[packet.assigned] = packet.uid
           /\ IsDynamic(packet.uid)
  PROVE  UnderWay'
<1> SUFFICES ASSUME NEW c \in Node, NEW i \in 1 .. Len(buffer'[c]),
                    buffer'[c][i].type = "address_reply"
             PROVE  /\ buffer'[c][i].assigned \in Dynamic
                    /\ IsDynamic(buffer'[c][i].uid)
                    /\ Fresh(c, i)' =>
                         /\ buffer'[c][i].assigned \in DOMAIN owner'
                         /\ owner'[buffer'[c][i].assigned] = buffer'[c][i].uid
  BY DEF UnderWay, IsDynamic
<1>0. TypeOK
  BY DEF Inv
<1>1. CASE buffer'[c][i] = packet
  BY <1>1
<1>2. ASSUME NEW j \in 1 .. Len(buffer[c]), buffer'[c][i] = buffer[c][j],
             Fresh(c, i)' <=> Fresh(c, j)
      PROVE  /\ buffer'[c][i].assigned \in Dynamic
             /\ IsDynamic(buffer'[c][i].uid)
             /\ Fresh(c, i)' =>
                  /\ buffer'[c][i].assigned \in DOMAIN owner'
                  /\ owner'[buffer'[c][i].assigned] = buffer'[c][i].uid
  BY <1>2 DEF Inv, UnderWay
<1> QED
  BY <1>0, <1>1, <1>2, OldOrNew

(* So do the tokens, while no client answers one.                          *)
LEMMA TokensKept ==
  ASSUME Inv, TypeOK', NEW packet, OnlyAdds(packet),
         packet.type \notin {"grant_token", "master_started"},
         UNCHANGED tardy, speakers' \ tardy = speakers \ tardy,
         \A c \in Node : \A a : Entitled(c, a) => Entitled(c, a)'
  PROVE  TokenInv'
<1>0. TypeOK /\ speakers \subseteq Node
  BY DEF Inv, TypeOK
<1>1. ASSUME NEW c \in Node, NEW i \in 1 .. Len(buffer'[c]),
             buffer'[c][i].type = "grant_token"
      PROVE  \E j \in 1 .. Len(buffer[c]) :
               buffer'[c][i] = buffer[c][j] /\ (Fresh(c, i)' <=> Fresh(c, j))
  BY <1>0, <1>1, OldOrNew
<1> SUFFICES ASSUME NEW c \in Node \ tardy, NEW i \in 1 .. Len(buffer'[c]),
                    buffer'[c][i].type = "grant_token"
             PROVE  /\ Fresh(c, i)'
                    /\ \A d \in Node \ tardy : \A j \in 1 .. Len(buffer'[d]) :
                         buffer'[d][j].type = "grant_token" =>
                           buffer'[d][j] = buffer'[c][i]
                    /\ \A d \in speakers' \ tardy :
                         Entitled(d, buffer[c][i].dest)'
  BY DEF TokenInv
<1>2. PICK j \in 1 .. Len(buffer[c]) :
        buffer'[c][i] = buffer[c][j] /\ (Fresh(c, i)' <=> Fresh(c, j))
  BY <1>1
<1>3. /\ Fresh(c, j)
      /\ \A d \in Node \ tardy : \A n \in 1 .. Len(buffer[d]) :
           buffer[d][n].type = "grant_token" => buffer[d][n] = buffer[c][j]
      /\ \A d \in speakers \ tardy : Entitled(d, buffer[c][j].dest)
  BY <1>2 DEF Inv, TokenInv
<1>4. ASSUME NEW d \in Node \ tardy, NEW n \in 1 .. Len(buffer'[d]),
             buffer'[d][n].type = "grant_token"
      PROVE  buffer'[d][n] = buffer'[c][i]
  <2>1. PICK m \in 1 .. Len(buffer[d]) : buffer'[d][n] = buffer[d][m]
    BY <1>1, <1>4
  <2> QED
    BY <1>2, <1>3, <1>4, <2>1
<1>5. ASSUME NEW d \in speakers' \ tardy
      PROVE  Entitled(d, buffer[c][i].dest)'
  <2>1. d \in Node /\ Entitled(d, buffer[c][j].dest)
    BY <1>0, <1>3
  <2>2. Entitled(d, buffer[c][j].dest)
    BY <2>1
  <2>3. \A a : Entitled(d, a) => StaticAddr[d] = a \/ (a \in DOMAIN owner' /\ owner'[a] = d)
    BY <2>1 DEF Entitled
  <2> QED
    BY <1>2, <2>2, <2>3 DEF Entitled
<1> QED
  BY <1>2, <1>3, <1>4, <1>5

(* An address belongs to one client.                                       *)
LEMMA EntitledUnique ==
  ASSUME Inv, StaticAddressesDiffer, NEW a \in Address,
         NEW c \in Node, NEW d \in Node, Entitled(c, a), Entitled(d, a)
  PROVE  c = d
<1>1. a # NullAddr
  BY NetworkAssumption DEF Address
<1>2. ASSUME NEW e \in Node, StaticAddr[e] = a
      PROVE  a \in Static /\ owner[a] = NoNode
  BY <1>1, <1>2, NetworkAssumption DEF Inv, OwnerInv
<1> QED
  BY <1>1, <1>2, NetworkAssumption DEF Entitled, StaticAddressesDiffer

(* A client that believes in its address and need not think again has it.  *)
LEMMA BelieverEntitled ==
  ASSUME Inv, NEW c \in Node, m_addr[c] # NullAddr, ~AboutToReset(c)
  PROVE  m_addr[c] \in Address /\ Entitled(c, m_addr[c])
<1>1. m_addr[c] \in Address
  BY DEF Inv, TypeOK
<1>2. CASE m_addr[c] \in Dynamic
  BY <1>1, <1>2 DEF Inv, AddressIsBooked, Entitled
<1>3. CASE m_addr[c] \in Static
  BY <1>1, <1>3 DEF Inv, StaticInv, Entitled
<1> QED
  BY <1>1, <1>2, <1>3 DEF Address
-----------------------------------------------------------------------------
(* The invariant in the steps of the master.                               *)

LEMMA GrantStep ==
  ASSUME Inv, TypeOK', TameNoise, NEW a \in Address, Grant(a)
  PROVE  Inv'
<1>1. /\ holder = NullAddr /\ holder' = a /\ a \in DOMAIN owner /\ ~querying
      /\ speakers' = {} /\ tardy' = Owing
      /\ Broadcast(buffer, GrantToken(a), a)
      /\ UNCHANGED <<m_addr, owner, misses, querying>>
  BY DEF Grant, Arbiter!Grant
<1>2. TypeOK /\ buffer \in [Node -> Seq(MasterPacket)]
  BY DEF Inv, TypeOK
<1>3. /\ GrantToken(a) \in MasterPacket /\ GrantToken(a).type = "grant_token"
      /\ GrantToken(a).dest = a
  BY PacketFacts DEF GrantToken
<1>4. OnlyAdds(GrantToken(a)) /\ KeepsStarts
  BY <1>1, <1>2, <1>3, SendFacts
<1>5. OwnerInv' /\ StaticInv' /\ QueryInv' /\ NoInterference'
  BY <1>1 DEF Inv, OwnerInv, StaticInv, QueryInv, NoInterference
<1>6. UnderWay'
  BY <1>1, <1>3, <1>4, BuffersStep
<1>7. TokenInv'
  <2>1. ASSUME NEW c \in Node \ tardy', NEW i \in 1 .. Len(buffer'[c]),
               buffer'[c][i].type = "grant_token"
        PROVE  buffer'[c][i] = GrantToken(a) /\ Fresh(c, i)'
    <3>1. \A j \in 1 .. Len(buffer[c]) : buffer[c][j].type # "grant_token"
      BY <1>1, <2>1 DEF Owing
    <3> QED
      BY <1>2, <1>3, <1>4, <2>1, <3>1, OldOrNew
  <2> QED
    BY <1>1, <2>1 DEF TokenInv
<1>8. LastChance'
  <2> SUFFICES ASSUME LastToken(a), NEW c \in Node
               PROVE  /\ buffer'[c] # <<>>
                      /\ buffer'[c][Len(buffer'[c])] = GrantToken(a)
    BY <1>1 DEF LastChance, LastToken, GrantToken
  <2>1. ~Spoils(GrantToken(a), a)
    BY DEF Spoils, TameNoise
  <2>2. buffer'[c] = Append(buffer[c], GrantToken(a))
    BY <1>1, <1>2, <1>3, <2>1, BroadcastFacts
  <2> QED
    BY <1>2, <1>3, <2>2, AppendFacts
<1>9. AddressIsBooked'
  BY <1>1, <1>4 DEF Inv, AddressIsBooked, KeepsStarts
<1> QED
  BY <1>5, <1>6, <1>7, <1>8, <1>9 DEF Inv

(* The row that is dropped for its silence is no client's any more: the    *)
(* last token before it was dropped was one that all clients have read.    *)
LEMMA TimeoutStep ==
  ASSUME Inv, TypeOK', TameNoise, NEW a \in Address, TokenTimeout(a)
  PROVE  Inv'
<1>1. /\ LastToken(a) => Settled
      /\ holder = a /\ holder' = NullAddr
      /\ UNCHANGED <<m_addr, m_txMsg, buffer, querying, speakers, tardy>>
  BY DEF TokenTimeout, Arbiter!Silence, TameNoise
<1>2. \/ UNCHANGED owner
      \/ LastToken(a) /\ owner' = [b \in DOMAIN owner \ {a} |-> owner[b]]
  BY DEF TokenTimeout, Arbiter!Silence, LastToken
<1>3. OwnerInv'
  BY <1>2, NetworkAssumption DEF Inv, OwnerInv, LastToken
<1>4. StaticInv' /\ NoInterference' /\ QueryInv'
  BY <1>1 DEF Inv, StaticInv, NoInterference, QueryInv
<1>5. LastChance'
  BY <1>1, NetworkAssumption DEF LastChance, LastToken
<1>6. CASE UNCHANGED owner
  <2>1. UnderWay' /\ TokenInv'
    BY <1>1, <1>6 DEF Inv, UnderWay, TokenInv, Entitled, Fresh
  <2>2. AddressIsBooked'
    BY <1>1, <1>6 DEF Inv, AddressIsBooked, AboutToReset
  <2> QED
    BY <1>3, <1>4, <1>5, <2>1, <2>2 DEF Inv
<1>7. CASE LastToken(a) /\ owner' = [b \in DOMAIN owner \ {a} |-> owner[b]]
  <2>1. \A c \in Node : buffer[c] = <<>> /\ buffer'[c] = <<>> /\ Len(buffer'[c]) = 0
    BY <1>1, <1>7 DEF Settled
  <2>2. UnderWay' /\ TokenInv'
    BY <2>1 DEF UnderWay, TokenInv
  <2>3. \A c \in Node : m_addr[c] # a
    BY <1>1, <1>7, <2>1 DEF Inv, LastChance
  <2>4. \A c \in Node : AboutToReset(c)' = AboutToReset(c)
    BY <1>1 DEF AboutToReset
  <2>5. AddressIsBooked'
    BY <1>1, <1>7, <2>3, <2>4 DEF Inv, AddressIsBooked
  <2> QED
    BY <1>3, <1>4, <1>5, <2>2, <2>5 DEF Inv
<1> QED
  BY <1>2, <1>6, <1>7

LEMMA DiscoverStep ==
  ASSUME Inv, TypeOK', Discover
  PROVE  Inv'
<1>1. /\ holder = NullAddr /\ Broadcast(buffer, AddressDiscovery, NullAddr)
      /\ UNCHANGED <<m_addr, holder, owner, misses, speakers, tardy>>
  BY DEF Discover, arbiterVars
<1>2. TypeOK
  BY DEF Inv
<1>3. AddressDiscovery \in MasterPacket /\ AddressDiscovery.type = "address_discovery"
  BY PacketFacts DEF AddressDiscovery
<1>4. OnlyAdds(AddressDiscovery) /\ KeepsStarts
  BY <1>1, <1>2, <1>3, SendFacts
<1>5. OwnerInv' /\ StaticInv' /\ QueryInv' /\ NoInterference' /\ LastChance'
  BY <1>1, NetworkAssumption
  DEF Inv, OwnerInv, StaticInv, QueryInv, NoInterference, LastChance, LastToken
<1>6. UnderWay'
  BY <1>1, <1>3, <1>4, BuffersStep
<1>7. TokenInv'
  BY <1>1, <1>3, <1>4, TokensKept DEF Entitled
<1>8. AddressIsBooked'
  BY <1>1, <1>4 DEF Inv, AddressIsBooked, KeepsStarts
<1> QED
  BY <1>5, <1>6, <1>7, <1>8 DEF Inv

LEMMA RestartStep ==
  ASSUME Inv, TypeOK', TameNoise, Restart
  PROVE  Inv'
<1>1. /\ Broadcast(buffer, MasterStartedPacket, NullAddr)
      /\ owner' = [a \in Static |-> NoNode] /\ holder' = NullAddr
      /\ speakers' = {} /\ tardy' = Owing /\ UNCHANGED m_addr
  BY DEF Restart
<1>2. buffer \in [Node -> Seq(MasterPacket)]
  BY DEF Inv, TypeOK
<1>3. /\ MasterStartedPacket \in MasterPacket
      /\ MasterStartedPacket.type = "master_started"
  BY PacketFacts DEF MasterStartedPacket
<1>4. ~Spoils(MasterStartedPacket, NullAddr)
  BY <1>3 DEF Spoils, TameNoise
<1>5. \A c \in Node : buffer'[c] = Append(buffer[c], MasterStartedPacket)
  BY <1>1, <1>2, <1>3, <1>4, BroadcastFacts
<1>6. \A c \in Node :
        /\ Len(buffer[c]) \in Nat /\ Len(buffer'[c]) = Len(buffer[c]) + 1
        /\ \A i \in 1 .. Len(buffer[c]) : buffer'[c][i] = buffer[c][i]
        /\ buffer'[c][Len(buffer[c]) + 1] = MasterStartedPacket
  BY <1>2, <1>3, <1>5, AppendFacts
<1>7. OwnerInv'
  BY <1>1, NetworkAssumption DEF OwnerInv
<1>8. StaticInv' /\ QueryInv' /\ NoInterference' /\ LastChance'
  BY <1>1, NetworkAssumption
  DEF Inv, StaticInv, QueryInv, NoInterference, LastChance, LastToken
<1>9. UnderWay'
  <2> SUFFICES ASSUME NEW c \in Node, NEW i \in 1 .. Len(buffer'[c]),
                      buffer'[c][i].type = "address_reply"
               PROVE  /\ buffer'[c][i].assigned \in Dynamic
                      /\ IsDynamic(buffer'[c][i].uid)
                      /\ ~Fresh(c, i)'
    BY DEF UnderWay, IsDynamic
  <2>1. i \in 1 .. Len(buffer[c]) /\ buffer'[c][i] = buffer[c][i]
    BY <1>3, <1>6
  <2>2. ~Fresh(c, i)'
    BY <1>3, <1>6, <2>1 DEF Fresh
  <2> QED
    BY <2>1, <2>2 DEF Inv, UnderWay
<1>10. TokenInv'
  <2> SUFFICES ASSUME NEW c \in Node \ Owing, NEW i \in 1 .. Len(buffer'[c]),
                      buffer'[c][i].type = "grant_token"
               PROVE  FALSE
    BY <1>1 DEF TokenInv
  <2>1. i \in 1 .. Len(buffer[c]) /\ buffer'[c][i] = buffer[c][i]
    BY <1>3, <1>6
  <2> QED
    BY <2>1 DEF Owing
<1>11. AddressIsBooked'
  <2>1. \A c \in Node : AboutToReset(c)'
    BY <1>3, <1>6 DEF AboutToReset
  <2> QED
    BY <2>1 DEF AddressIsBooked
<1> QED
  BY <1>7, <1>8, <1>9, <1>10, <1>11 DEF Inv

(* The steps that touch nothing the invariant is about. *)
LEMMA OtherStep ==
  ASSUME Inv, TypeOK',
         UNCHANGED <<m_addr, holder, owner, misses, buffer, speakers, tardy>>,
         querying' => querying
  PROVE  Inv'
<1>1. OwnerInv' /\ StaticInv' /\ QueryInv' /\ NoInterference' /\ LastChance'
  BY DEF Inv, OwnerInv, StaticInv, QueryInv, NoInterference, LastChance,
         LastToken, GrantToken
<1>2. UnderWay' /\ TokenInv'
  BY DEF Inv, UnderWay, TokenInv, Entitled, Fresh
<1>3. AddressIsBooked'
  BY DEF Inv, AddressIsBooked, AboutToReset
<1> QED
  BY <1>1, <1>2, <1>3 DEF Inv
-----------------------------------------------------------------------------
(* The invariant in the steps of a client.                                 *)

LEMMA LastOfRest ==
  ASSUME TypeOK, NEW c \in Node, buffer[c] # <<>>
  PROVE  IF Rest(c)[c] = <<>> THEN Head(buffer[c]) = buffer[c][Len(buffer[c])]
         ELSE Rest(c)[c][Len(Rest(c)[c])] = buffer[c][Len(buffer[c])]
<1>1. /\ Len(buffer[c]) \in Nat /\ Len(buffer[c]) > 0
      /\ Len(Rest(c)[c]) = Len(buffer[c]) - 1
      /\ \A i \in 1 .. Len(buffer[c]) - 1 : Rest(c)[c][i] = buffer[c][i + 1]
      /\ Head(buffer[c]) = buffer[c][1]
      /\ Rest(c)[c] \in Seq(MasterPacket)
  BY RestFacts
<1>2. CASE Rest(c)[c] = <<>>
  <2>1. Len(Rest(c)[c]) = 0
    BY <1>2
  <2> QED
    BY <1>1, <1>2, <2>1
<1>3. CASE Rest(c)[c] # <<>>
  <2>1. Len(Rest(c)[c]) # 0
    BY <1>1, <1>3, EmptySeq
  <2> QED
    BY <1>1, <1>3, <2>1
<1> QED
  BY <1>2, <1>3

(* A client that passes over a token for another does not lose its own.    *)
LEMMA LastChanceOfRest ==
  ASSUME Inv, NEW c \in Node, buffer[c] # <<>>, buffer' = Rest(c),
         UNCHANGED <<holder, misses>>,
         \A d \in Node \ {c} : m_addr'[d] = m_addr[d],
         Head(buffer[c]).type = "grant_token" =>
           Head(buffer[c]).dest # m_addr'[c]
  PROVE  LastChance'
<1> SUFFICES ASSUME LastToken(holder), NEW d \in Node
             PROVE  IF buffer'[d] = <<>> THEN m_addr'[d] # holder
                    ELSE buffer'[d][Len(buffer'[d])] = GrantToken(holder)
  BY DEF LastChance, LastToken, GrantToken
<1>0. TypeOK
  BY DEF Inv
<1>1. CASE d = c
  <2>1. buffer[c][Len(buffer[c])] = GrantToken(holder)
    BY DEF Inv, LastChance
  <2>2. CASE buffer'[c] = <<>>
    <3>1. Head(buffer[c]) = GrantToken(holder)
      BY <1>0, <2>1, <2>2, LastOfRest
    <3>2. holder # m_addr'[c]
      BY <3>1 DEF GrantToken
    <3> QED
      BY <1>1, <2>2, <3>2
  <2>3. CASE buffer'[c] # <<>>
    BY <1>0, <1>1, <2>1, <2>3, LastOfRest
  <2> QED
    BY <2>2, <2>3
<1>2. CASE d # c
  <2>1. buffer'[d] = buffer[d] /\ m_addr'[d] = m_addr[d]
    BY <1>0, <1>2, RestFacts
  <2> QED
    BY <2>1 DEF Inv, LastChance
<1> QED
  BY <1>1, <1>2

LEMMA TakesNoteStep ==
  ASSUME Inv, TypeOK', NEW c \in Node, buffer[c] # <<>>, TakesNote(c)
  PROVE  Inv'
<1> DEFINE head == Head(buffer[c])
<1>0. TypeOK /\ m_addr \in [Node -> Address \cup {NullAddr}]
  BY DEF Inv, TypeOK
<1>1. /\ buffer' = Rest(c)
      /\ UNCHANGED <<holder, owner, misses, querying, speakers, tardy>>
  BY DEF TakesNote, arbiterVars
<1>2. 1 \in 1 .. Len(buffer[c]) /\ head = buffer[c][1]
  BY <1>0, RestFacts
<1>3. \/ /\ head.type = "address_reply" /\ head.assigned \in Dynamic
         /\ IsDynamic(c)
         /\ Fresh(c, 1) =>
              head.assigned \in DOMAIN owner /\ owner[head.assigned] = c
         /\ m_addr' = [m_addr EXCEPT ![c] = head.assigned]
      \/ /\ head.type = "master_started"
         /\ m_addr' = [m_addr EXCEPT ![c] =
                         IF IsDynamic(c) THEN NullAddr ELSE m_addr[c]]
      \/ Ignores(c, head) /\ UNCHANGED m_addr
  BY <1>2 DEF TakesNote, Inv, UnderWay
<1>4. \A d \in Node \ {c} : m_addr'[d] = m_addr[d]
  BY <1>0, <1>3
<1>5. OwnerInv' /\ QueryInv' /\ NoInterference'
  BY <1>1 DEF Inv, OwnerInv, QueryInv, NoInterference
<1>6. StaticInv'
  <2>1. CASE UNCHANGED m_addr
    BY <2>1 DEF Inv, StaticInv
  <2>2. CASE /\ head.assigned \in Dynamic /\ IsDynamic(c)
             /\ m_addr' = [m_addr EXCEPT ![c] = head.assigned]
    <3>1. IsDynamic(c) /\ head.assigned \notin Static
      BY <2>2, NetworkAssumption
    <3>2. m_addr'[c] = head.assigned
      BY <1>0, <2>2
    <3> QED
      BY <1>4, <3>1, <3>2 DEF Inv, StaticInv
  <2>3. CASE m_addr' = [m_addr EXCEPT ![c] =
                          IF IsDynamic(c) THEN NullAddr ELSE m_addr[c]]
    <3>1. m_addr'[c] = IF IsDynamic(c) THEN NullAddr ELSE m_addr[c]
      BY <1>0, <2>3
    <3> QED
      BY <1>4, <3>1, NetworkAssumption DEF Inv, StaticInv
  <2> QED
    BY <1>3, <2>1, <2>2, <2>3
<1>7. UnderWay' /\ TokenInv'
  <2>1. OnlyAdds(AddressDiscovery)
    BY <1>0, <1>1, RestOnlyAdds
  <2>2. AddressDiscovery.type = "address_discovery"
    BY DEF AddressDiscovery
  <2>3. UnderWay'
    BY <1>1, <2>1, <2>2, BuffersStep
  <2>4. TokenInv'
    BY <1>1, <2>1, <2>2, TokensKept DEF Entitled
  <2> QED
    BY <2>3, <2>4
<1>9. LastChance'
  <2>1. head.type = "grant_token" => head.dest # m_addr'[c]
    BY <1>3 DEF Ignores
  <2> QED
    BY <1>1, <1>4, <2>1, LastChanceOfRest
<1>10. AddressIsBooked'
  <2> SUFFICES ASSUME NEW d \in Node, m_addr'[d] \in Dynamic, ~AboutToReset(d)'
               PROVE  m_addr'[d] \in DOMAIN owner /\ owner[m_addr'[d]] = d
    BY <1>1 DEF AddressIsBooked
  <2>1. CASE d # c
    <3>1. ~AboutToReset(d)
      BY <1>0, <1>1, <2>1, RestFacts DEF AboutToReset
    <3> QED
      BY <1>4, <2>1, <3>1 DEF Inv, AddressIsBooked
  <2>2. CASE d = c /\ Ignores(c, head) /\ UNCHANGED m_addr
    <3>1. head.type # "master_started"
      BY <2>2 DEF Ignores
    <3>2. ~AboutToReset(c)
      BY <1>0, <1>1, <2>2, <3>1, RestKeepsStarts DEF KeepsStarts
    <3> QED
      BY <2>2, <3>2 DEF Inv, AddressIsBooked
  <2>3. CASE d = c /\ m_addr' = [m_addr EXCEPT ![c] =
                                   IF IsDynamic(c) THEN NullAddr ELSE m_addr[c]]
    <3>1. m_addr'[c] = IF IsDynamic(c) THEN NullAddr ELSE m_addr[c]
      BY <1>0, <2>3
    <3>2. ~IsDynamic(c) => m_addr[c] \in Static \cup {NullAddr}
      BY NetworkAssumption DEF Inv, StaticInv
    <3> QED
      BY <2>3, <3>1, <3>2, NetworkAssumption
  <2>4. CASE /\ d = c /\ m_addr' = [m_addr EXCEPT ![c] = head.assigned]
             /\ Fresh(c, 1) =>
                  head.assigned \in DOMAIN owner /\ owner[head.assigned] = c
    <3>1. ASSUME NEW i \in 2 .. Len(buffer[c])
          PROVE  buffer[c][i].type # "master_started"
      <4>1. /\ i - 1 \in 1 .. Len(buffer[c]) - 1
            /\ i - 1 \in 1 .. Len(buffer'[c]) /\ i - 1 + 1 = i
        BY <1>0, <1>1, RestFacts
      <4>2. buffer'[c][i - 1] = buffer[c][i]
        BY <1>0, <1>1, <4>1, RestFacts
      <4> QED
        BY <2>4, <4>1, <4>2 DEF AboutToReset
    <3>2. Fresh(c, 1)
      BY <3>1 DEF Fresh
    <3>3. m_addr'[c] = head.assigned
      BY <1>0, <2>4
    <3> QED
      BY <2>4, <3>2, <3>3
  <2> QED
    BY <1>3, <2>1, <2>2, <2>3, <2>4
<1> QED
  BY <1>5, <1>6, <1>7, <1>9, <1>10 DEF Inv

(* A client that is not behind and answers a token is entitled to it, and  *)
(* so is every other that has answered it.                                 *)
LEMMA AnswersInTurn ==
  ASSUME Inv, NEW c \in Node \ tardy, buffer[c] # <<>>, UsesToken(c)
  PROVE  /\ Head(buffer[c]).dest \in Address
         /\ Entitled(c, Head(buffer[c]).dest)
         /\ \A d \in speakers \ tardy : Entitled(d, Head(buffer[c]).dest)
         /\ \A d \in Node \ tardy : \A j \in 1 .. Len(buffer[d]) :
              buffer[d][j].type = "grant_token" => buffer[d][j] = Head(buffer[c])
<1>0. TypeOK
  BY DEF Inv
<1>1. /\ 1 \in 1 .. Len(buffer[c]) /\ Head(buffer[c]) = buffer[c][1]
      /\ buffer[c][1] \in MasterPacket
  BY <1>0, RestFacts
<1>2. /\ buffer[c][1].type = "grant_token" /\ buffer[c][1].dest = m_addr[c]
      /\ m_addr[c] \in Address /\ m_addr[c] # NullAddr
  BY <1>1, PacketFacts, NetworkAssumption DEF UsesToken, Address
<1>3. /\ Fresh(c, 1)
      /\ \A d \in Node \ tardy : \A j \in 1 .. Len(buffer[d]) :
           buffer[d][j].type = "grant_token" => buffer[d][j] = buffer[c][1]
      /\ \A d \in speakers \ tardy : Entitled(d, buffer[c][1].dest)
  BY <1>1, <1>2 DEF Inv, TokenInv
<1>4. ~AboutToReset(c)
  <2>1. \A i \in 1 .. Len(buffer[c]) : i = 1 \/ i \in 1 + 1 .. Len(buffer[c])
    BY <1>1
  <2> QED
    BY <1>2, <1>3, <2>1 DEF AboutToReset, Fresh
<1>5. Entitled(c, m_addr[c])
  BY <1>2, <1>4, BelieverEntitled
<1> QED
  BY <1>1, <1>2, <1>3, <1>5

LEMMA UsesTokenStep ==
  ASSUME Inv, TypeOK', TameNoise, StaticAddressesDiffer,
         NEW c \in Node, buffer[c] # <<>>, UsesToken(c)
  PROVE  Inv'
<1>0. TypeOK
  BY DEF Inv
<1>1. /\ Head(buffer[c]).type = "grant_token"
      /\ said'.type \in {"return_token", "send_packet"}
      /\ speakers' = speakers \cup {c} /\ UNCHANGED <<m_addr, tardy>>
      /\ HearsAnswer(Rest(c)) \/ HearsNothing(Rest(c))
  BY DEF UsesToken
<1>2. buffer' = Rest(c) /\ UNCHANGED <<owner, querying>>
  BY <1>1 DEF HearsAnswer, HearsNothing, arbiterVars, Arbiter!Answer
<1>3. \/ holder' = NullAddr
      \/ UNCHANGED <<holder, misses>> /\ ~LastToken(holder)
  <2>1. CASE HearsAnswer(Rest(c))
    BY <2>1 DEF HearsAnswer, Arbiter!Answer
  <2>2. CASE HearsNothing(Rest(c))
    <3>1. holder = NullAddr \/ Spoils(said', holder)
      BY <1>1, <2>2, SaidFacts DEF HearsNothing
    <3> QED
      BY <2>2, <3>1 DEF HearsNothing, arbiterVars, Spoils, TameNoise
  <2> QED
    BY <1>1, <2>1, <2>2
<1>4. OwnerInv' /\ StaticInv'
  BY <1>1, <1>2 DEF Inv, OwnerInv, StaticInv
<1>5. QueryInv'
  BY <1>2, <1>3 DEF Inv, QueryInv
<1>6. OnlyAdds(AddressDiscovery) /\ AddressDiscovery.type = "address_discovery"
  BY <1>0, <1>2, RestOnlyAdds DEF AddressDiscovery
<1>7. UnderWay'
  BY <1>2, <1>6, BuffersStep
<1>8. TokenInv' /\ NoInterference'
  <2>1. CASE c \in tardy
    <3>1. speakers' \ tardy = speakers \ tardy
      BY <1>1, <2>1
    <3>2. TokenInv'
      BY <1>1, <1>2, <1>6, <3>1, TokensKept DEF Entitled
    <3> QED
      BY <1>1, <3>1, <3>2 DEF Inv, NoInterference
  <2>2. CASE c \notin tardy
    <3> DEFINE a == Head(buffer[c]).dest
    <3>1. /\ a \in Address /\ Entitled(c, a)
          /\ \A d \in speakers \ tardy : Entitled(d, a)
          /\ \A d \in Node \ tardy : \A j \in 1 .. Len(buffer[d]) :
               buffer[d][j].type = "grant_token" => buffer[d][j] = Head(buffer[c])
      BY <2>2, AnswersInTurn
    <3> HIDE DEF a
    <3>2. speakers \subseteq Node
      BY <1>0 DEF TypeOK
    <3>3. \A d \in speakers \ tardy : d = c
      BY <3>1, <3>2, EntitledUnique
    <3>4. NoInterference'
      BY <1>1, <3>3 DEF NoInterference
    <3>5. ASSUME NEW d \in Node \ tardy, NEW i \in 1 .. Len(buffer'[d]),
                 buffer'[d][i].type = "grant_token"
          PROVE  buffer'[d][i] = Head(buffer[c]) /\ Fresh(d, i)'
      <4>1. PICK j \in 1 .. Len(buffer[d]) :
              buffer'[d][i] = buffer[d][j] /\ (Fresh(d, i)' <=> Fresh(d, j))
        BY <1>0, <1>6, <3>5, OldOrNew
      <4>2. Fresh(d, j)
        BY <3>5, <4>1 DEF Inv, TokenInv
      <4> QED
        BY <3>1, <3>5, <4>1, <4>2
    <3>6. \A d \in speakers' \ tardy : Entitled(d, a)
      BY <1>1, <3>1
    <3>7. ASSUME NEW d \in Node \ tardy, NEW i \in 1 .. Len(buffer'[d]),
                 buffer'[d][i].type = "grant_token", NEW e \in speakers' \ tardy
          PROVE  Entitled(e, buffer[d][i].dest)'
      <4>1. buffer'[d][i].dest = a
        BY <3>5, <3>7 DEF a
      <4>2. Entitled(e, a)
        BY <3>6, <3>7
      <4> QED
        BY <1>2, <4>1, <4>2 DEF Entitled
    <3>8. TokenInv'
      BY <1>1, <3>5, <3>7 DEF TokenInv
    <3> QED
      BY <3>4, <3>8
  <2> QED
    BY <2>1, <2>2
<1>9. LastChance'
  BY <1>3, NetworkAssumption DEF LastChance, LastToken
<1>10. AddressIsBooked'
  BY <1>0, <1>1, <1>2, RestKeepsStarts DEF Inv, AddressIsBooked, KeepsStarts
<1> QED
  BY <1>4, <1>5, <1>7, <1>8, <1>9, <1>10 DEF Inv

LEMMA AsksStep ==
  ASSUME Inv, TypeOK', NEW c \in Node, buffer[c] # <<>>, Asks(c)
  PROVE  Inv'
<1>0. TypeOK
  BY DEF Inv
<1>1. /\ Head(buffer[c]).type = "address_discovery" /\ m_addr[c] = NullAddr
      /\ said' = AddressRequest(c) /\ UNCHANGED <<m_addr, speakers, tardy>>
      /\ HearsRequest(Rest(c)) \/ HearsNothing(Rest(c))
  BY DEF Asks
<1>2. AddressDiscovery.type = "address_discovery"
  BY DEF AddressDiscovery
<1>3. StaticInv' /\ NoInterference' /\ IsDynamic(c)
  BY <1>1 DEF Inv, StaticInv, NoInterference, IsDynamic
<1>4. ASSUME buffer' = Rest(c), UNCHANGED <<holder, owner, misses>>,
             querying' => querying
      PROVE  Inv'
  <2>1. OwnerInv' /\ QueryInv'
    BY <1>4 DEF Inv, OwnerInv, QueryInv
  <2>2. OnlyAdds(AddressDiscovery) /\ KeepsStarts
    BY <1>0, <1>1, <1>4, RestOnlyAdds, RestKeepsStarts
  <2>3. UnderWay'
    BY <1>2, <1>4, <2>2, BuffersStep
  <2>4. TokenInv'
    BY <1>1, <1>2, <1>4, <2>2, TokensKept DEF Entitled
  <2>5. LastChance'
    BY <1>1, <1>4, LastChanceOfRest
  <2>6. AddressIsBooked'
    BY <1>1, <1>4, <2>2 DEF Inv, AddressIsBooked, KeepsStarts
  <2> QED
    BY <1>3, <2>1, <2>3, <2>4, <2>5, <2>6 DEF Inv
<1>5. ASSUME NEW a \in Dynamic, holder = NullAddr, UNCHANGED holder,
             ~querying',
             Broadcast(Rest(c), AddressReply(a, c), NullAddr),
             \/ UNCHANGED owner /\ a \in DOMAIN owner /\ owner[a] = c
             \/ /\ a \notin DOMAIN owner
                /\ owner' = [b \in DOMAIN owner \cup {a} |->
                               IF b = a THEN c ELSE owner[b]]
      PROVE  Inv'
  <2>1. /\ \A b \in DOMAIN owner : b \in DOMAIN owner' /\ owner'[b] = owner[b]
        /\ a \in DOMAIN owner' /\ owner'[a] = c
        /\ DOMAIN owner' = DOMAIN owner \cup {a}
    BY <1>5
  <2>2. /\ AddressReply(a, c) \in MasterPacket
        /\ AddressReply(a, c).type = "address_reply"
        /\ AddressReply(a, c).assigned = a /\ AddressReply(a, c).uid = c
    BY PacketFacts DEF AddressReply, Address
  <2>3. OnlyAdds(AddressReply(a, c)) /\ KeepsStarts
    BY <1>0, <1>1, <1>5, <2>2, ReplyFacts
  <2>4. OwnerInv'
    BY <1>3, <2>1, NetworkAssumption DEF Inv, OwnerInv
  <2>5. QueryInv' /\ LastChance'
    BY <1>5, NetworkAssumption DEF QueryInv, LastChance, LastToken
  <2>6. UnderWay'
    BY <1>3, <2>1, <2>2, <2>3, BuffersStep
  <2>7. TokenInv'
    BY <1>1, <2>1, <2>2, <2>3, TokensKept DEF Entitled
  <2>8. AddressIsBooked'
    BY <1>1, <2>1, <2>3 DEF Inv, AddressIsBooked, KeepsStarts
  <2> QED
    BY <1>3, <2>4, <2>5, <2>6, <2>7, <2>8 DEF Inv
<1>6. CASE HearsNothing(Rest(c))
  BY <1>4, <1>6 DEF HearsNothing, arbiterVars
<1>7. CASE HearsRequest(Rest(c))
  <2> DEFINE known == {a \in DOMAIN owner : owner[a] = c}
  <2>1. /\ holder = NullAddr /\ ~querying' /\ said'.uid = c
    BY <1>1, <1>7, SaidFacts DEF HearsRequest, Inv, QueryInv
  <2>2. CASE /\ \E a \in known : Broadcast(Rest(c), AddressReply(a, c), NullAddr)
             /\ UNCHANGED arbiterVars
    <3>1. PICK a \in known : Broadcast(Rest(c), AddressReply(a, c), NullAddr)
      BY <2>2
    <3>2. a \in Dynamic
      BY NetworkAssumption DEF Inv, OwnerInv, TypeOK, Address
    <3> QED
      BY <1>5, <2>1, <2>2, <3>1, <3>2 DEF arbiterVars
  <2>3. CASE \E a \in Dynamic :
               /\ Arbiter!Join(c, a)
               /\ Broadcast(Rest(c), AddressReply(a, c), NullAddr)
    BY <1>5, <2>1, <2>3 DEF Arbiter!Join
  <2>4. CASE buffer' = Rest(c) /\ UNCHANGED arbiterVars
    BY <1>4, <2>1, <2>4 DEF arbiterVars
  <2> QED
    BY <1>7, <2>1, <2>2, <2>3, <2>4 DEF HearsRequest
<1> QED
  BY <1>1, <1>6, <1>7

-----------------------------------------------------------------------------
(* The theorems.                                                           *)

LEMMA StepInv ==
  ASSUME TameNoise, StaticAddressesDiffer
  PROVE  Inv /\ [Next]_vars => Inv'
<1> SUFFICES ASSUME Inv, [Next]_vars PROVE Inv'
  OBVIOUS
<1>1. TypeOK'
  BY TypeStep DEF Inv
<1>2. CASE UNCHANGED vars
  BY <1>1, <1>2, OtherStep DEF vars, clientVars, arbiterVars
<1>3. ASSUME NEW a \in Address, Grant(a) \/ TokenTimeout(a)
      PROVE  Inv'
  BY <1>1, <1>3, GrantStep, TimeoutStep
<1>4. CASE Discover
  BY <1>1, <1>4, DiscoverStep
<1>5. CASE QueryTimeout
  BY <1>1, <1>5, OtherStep DEF QueryTimeout, arbiterVars
<1>6. CASE Restart
  BY <1>1, <1>6, RestartStep
<1>7. ASSUME NEW c \in Node, ClientReceives(c)
      PROVE  Inv'
  <2>1. buffer[c] # <<>> /\ (TakesNote(c) \/ UsesToken(c) \/ Asks(c))
    BY <1>7, ReceiveCases DEF ClientReceives, Inv
  <2> QED
    BY <1>1, <2>1, TakesNoteStep, UsesTokenStep, AsksStep
<1>8. ASSUME NEW c \in Node, Host(c)
      PROVE  Inv'
  BY <1>1, <1>8, OtherStep DEF Host, HostSends, arbiterVars
<1> QED
  BY <1>2, <1>3, <1>4, <1>5, <1>6, <1>7, <1>8 DEF Next

(* The invariant holds throughout.                                         *)
THEOREM Invariance ==
  ASSUME TameNoise, StaticAddressesDiffer
  PROVE  Spec => []Inv
<1>1. Inv /\ [Next]_vars => Inv'
  BY StepInv
<1> QED
  BY InitInv, <1>1, PTL DEF Spec

(* Two clients that believe in their addresses have different ones         *)
(* (ClientAddress.cpp:57-65), whatever packets are lost or answered late,  *)
(* as long as the start of a master is heard, no client misses four tokens *)
(* in a row (TameNoise) and static addresses differ.                       *)
THEOREM UniqueAddresses ==
  ASSUME TameNoise, StaticAddressesDiffer
  PROVE  Spec => []AddressesAreUnique
<1>1. Inv => AddressesAreUnique
  <2> SUFFICES ASSUME Inv, NEW c \in Node, NEW d \in Node,
                      m_addr[c] # NullAddr, m_addr[c] = m_addr[d],
                      ~AboutToReset(c), ~AboutToReset(d)
               PROVE  c = d
    BY DEF AddressesAreUnique
  <2> QED
    BY BelieverEntitled, EntitledUnique
<1> QED
  BY Invariance, <1>1, PTL

(* The address a client was given stays booked for it                      *)
(* (DynamicAddressHandler.cpp), under the same conditions, although late   *)
(* answers are booked for other clients (MasterFSM.cpp:245-259).           *)
THEOREM BookedAddresses ==
  ASSUME TameNoise, StaticAddressesDiffer
  PROVE  Spec => []AddressIsBooked
<1>1. Inv => AddressIsBooked
  BY DEF Inv
<1> QED
  BY Invariance, <1>1, PTL

(* Of the clients that owe no answer to an earlier token at most one       *)
(* speaks per token, under the same conditions.                            *)
THEOREM OneSpeaker ==
  ASSUME TameNoise, StaticAddressesDiffer
  PROVE  Spec => []NoInterference
<1>1. Inv => NoInterference
  BY DEF Inv
<1> QED
  BY Invariance, <1>1, PTL
=============================================================================
