-------------------------- MODULE MasterRefinement --------------------------
(***************************************************************************)
(* The bus master implements the token arbiter, for every choice of        *)
(* addresses, clients, delays and lost echoes: every initial state of      *)
(* Master is one of TokenArbiter, and every step of Master is a step of    *)
(* TokenArbiter or leaves its variables alone, under the mapping of Master *)
(* (TokenHolder, TokenOnWire, LineOwner, TokenMisses).                     *)
(***************************************************************************)
EXTENDS MasterProofs

(* A dynamic row that is kept has missed at most three tokens in a row:    *)
(* on the fourth it is removed (AddressLine.h:81-93).  The invariant of    *)
(* MasterProofs does not count misses.                                     *)
MissesInv ==
  \A a \in DOMAIN m_table : m_table[a].dynamic => m_table[a].badCount <= 3

Results == {"client_packet_started", "rx_token_no_packet", "token_timeout"}

-----------------------------------------------------------------------------
(* Rows. *)

(* setState: the count, and whether the row is given up. *)
LEMMA CountAfter ==
  ASSUME NEW line \in Line, NEW st \in {"active", "idle", "badClient"}
  PROVE  LET next == SetState(line, st)
         IN  /\ next.badCount =
                  IF st # "badClient" THEN 0
                  ELSE IF line.badCount < 4 THEN line.badCount + 1
                  ELSE line.badCount
             /\ next.uid = line.uid
             /\ RemoveDynamic(next) <=> line.dynamic /\ next.badCount > 3
<1>1. line.badCount \in 0 .. 4 /\ line.dynamic \in BOOLEAN
  BY DEF Line, BadCountCap
<1>2. /\ SetState(line, st).badCount = BadCountAfter(line, st)
      /\ SetState(line, st).uid = line.uid
      /\ SetState(line, st).dynamic = line.dynamic
      /\ SetState(line, st).state =
           IF BadCountAfter(line, st) > 3 THEN "free" ELSE st
  BY DEF SetState
<1> QED
  BY <1>1, <1>2 DEF BadCountAfter, BadCountCap, RemoveDynamic

(* updateAddressLine, seen by the arbiter. *)
LEMMA UpdateStep ==
  ASSUME Inv, MissesInv, NEW a \in Address, ahAction = SendToken(a),
         NEW st \in {"active", "idle", "badClient"}, UpdateAddressLine(a, st)
  PROVE  /\ MissesInv'
         /\ a \in DOMAIN LineOwner
         /\ st # "badClient" =>
              /\ TokenMisses' = [TokenMisses EXCEPT ![a] = 0]
              /\ UNCHANGED LineOwner
         /\ st = "badClient" =>
              \/ /\ TokenMisses[a] + 1 < 4 \/ a \in Static
                 /\ TokenMisses' = [TokenMisses EXCEPT
                                      ![a] = IF @ < 4 THEN @ + 1 ELSE @]
                 /\ UNCHANGED LineOwner
              \/ /\ TokenMisses[a] + 1 = 4
                 /\ a \in Dynamic
                 /\ TokenMisses' = [TokenMisses EXCEPT ![a] = 0]
                 /\ LineOwner' = [b \in DOMAIN LineOwner \ {a} |-> LineOwner[b]]
<1> DEFINE line == m_table[a]
           next == SetState(line, st)
<1>1. a \in DOMAIN m_table
  BY DEF Inv, TokenForEveryLine, Present
<1>2. line \in Line /\ DOMAIN m_table \subseteq Address
  BY <1>1 DEF Inv, TypeOK
<1>3. line.badCount \in 0 .. 4 /\ (line.dynamic <=> a \in Dynamic)
      /\ (a \in Static <=> a \notin Dynamic)
  BY <1>1, <1>2, AddressFacts DEF Inv, AddressesConserved, Line, BadCountCap
<1>4. /\ next.badCount = IF st # "badClient" THEN 0
                         ELSE IF line.badCount < 4 THEN line.badCount + 1
                         ELSE line.badCount
      /\ next.uid = line.uid
      /\ next.dynamic = line.dynamic
      /\ RemoveDynamic(next) <=> line.dynamic /\ next.badCount > 3
  BY <1>2, CountAfter DEF SetState
<1>5. line.dynamic => line.badCount <= 3
  BY <1>1 DEF MissesInv
<1>6. TokenMisses[a] = line.badCount /\ a \in DOMAIN LineOwner
      /\ DOMAIN LineOwner = DOMAIN m_table
  BY <1>1 DEF TokenMisses, LineOwner
<1>7. CASE RemoveDynamic(next)
  <2>1. m_table' = [b \in DOMAIN m_table \ {a} |-> m_table[b]]
    BY <1>1, <1>7 DEF UpdateAddressLine, RemoveLine
  <2>2. st = "badClient" /\ line.badCount = 3 /\ a \in Dynamic
    BY <1>3, <1>4, <1>5, <1>7
  <2>3. LineOwner' = [b \in DOMAIN LineOwner \ {a} |-> LineOwner[b]]
    BY <2>1 DEF LineOwner
  <2>4. TokenMisses' = [TokenMisses EXCEPT ![a] = 0]
    BY <2>1 DEF TokenMisses
  <2>5. MissesInv'
    BY <2>1 DEF MissesInv
  <2> QED
    BY <1>6, <2>2, <2>3, <2>4, <2>5
<1>8. CASE ~RemoveDynamic(next)
  <2>1. m_table' = [m_table EXCEPT ![a] = next]
    BY <1>1, <1>8 DEF UpdateAddressLine
  <2>2. /\ DOMAIN m_table' = DOMAIN m_table
        /\ m_table'[a] = next
        /\ \A b \in DOMAIN m_table : b # a => m_table'[b] = m_table[b]
    BY <1>1, <2>1
  <2> HIDE DEF next
  <2>3. UNCHANGED LineOwner
    <3>1. \A b \in DOMAIN m_table : m_table'[b].uid = m_table[b].uid
      BY <1>4, <2>2
    <3> QED
      BY <2>2, <3>1 DEF LineOwner
  <2>4. TokenMisses' = [TokenMisses EXCEPT ![a] = next.badCount]
    BY <1>1, <2>2 DEF TokenMisses
  <2>5. MissesInv'
    BY <1>4, <1>8, <2>2, <1>3 DEF MissesInv
  <2>6. CASE st # "badClient"
    BY <1>4, <1>6, <2>3, <2>4, <2>5, <2>6
  <2>7. CASE st = "badClient"
    <3>1. next.badCount = IF TokenMisses[a] < 4 THEN TokenMisses[a] + 1
                          ELSE TokenMisses[a]
      BY <1>4, <1>6, <2>7
    <3>2. TokenMisses[a] + 1 < 4 \/ a \in Static
      BY <1>3, <1>4, <1>5, <1>6, <1>8, <2>7
    <3> QED
      BY <1>6, <2>3, <2>4, <2>5, <2>7, <3>1, <3>2
  <2> QED
    BY <2>6, <2>7
<1> QED
  BY <1>7, <1>8

-----------------------------------------------------------------------------
(* Steps. *)

(* A step that leaves the arbiter alone. *)
ArbiterStutters ==
  UNCHANGED <<TokenHolder, TokenOnWire, LineOwner, TokenMisses>>

LEMMA TableKept ==
  ASSUME MissesInv, UNCHANGED m_table
  PROVE  MissesInv' /\ UNCHANGED <<LineOwner, TokenMisses>>
BY DEF MissesInv, LineOwner, TokenMisses

(* In these states nobody has the token. *)
LEMMA NobodyHolds ==
  ASSUME fsmState \notin {"sendingToken", "waitClientPacketDone"}
  PROVE  TokenHolder = NullAddr /\ TokenOnWire = FALSE
BY DEF TokenHolder, TokenOnWire

LEMMA NobodyHoldsNext ==
  ASSUME fsmState' \notin {"sendingToken", "waitClientPacketDone"}
  PROVE  TokenHolder' = NullAddr /\ TokenOnWire' = FALSE
BY DEF TokenHolder, TokenOnWire

(* The address whose token is under way is a member. *)
LEMMA HolderIsMember ==
  ASSUME Inv, NEW a, fsmAction = SendToken(a)
  PROVE  /\ a \in Address /\ a \in DOMAIN m_table /\ a # NullAddr
         /\ ahAction = SendToken(a)
         /\ a \in DOMAIN LineOwner
<1>1. fsmAction \in Action /\ fsmAction = ahAction
  BY DEF Inv, TypeOK, ChartFollowsAction
<1>2. a \in Address
  BY <1>1, ActionFacts DEF Action
<1>3. a \in DOMAIN m_table
  BY <1>1, <1>2 DEF Inv, TokenForEveryLine, Present
<1> QED
  BY <1>1, <1>2, <1>3, AddressFacts DEF NullAddr, LineOwner

(* The result of a token, when the token is out. *)
LEMMA TokenResultStep ==
  ASSUME Inv, MissesInv, Waiting("waitClientPacketDone"),
         NEW result \in Results, Finish(result)
  PROVE  MissesInv' /\ Arbiter!Next
<1>1. PICK a \in Address : fsmAction = SendToken(a)
  BY DEF Inv, ChartFollowsAction, Waiting
<1>2. /\ a \in DOMAIN m_table /\ a # NullAddr /\ ahAction = SendToken(a)
      /\ fsmAction # DoNothing /\ ahAction.addr = a /\ fsmAction.addr = a
  BY <1>1, HolderIsMember, ActionFacts
<1>3. TokenHolder = a /\ TokenOnWire
  BY <1>2 DEF TokenHolder, TokenOnWire, Waiting
<1>4. TokenHolder' = NullAddr /\ TokenOnWire' = FALSE
  BY NobodyHoldsNext DEF Finish, Transition
<1>5. UpdateAddressLine(a, NewLineState(result))
  BY <1>2 DEF Finish, ReportActionResult, Results
<1>6. NewLineState(result) \in {"active", "idle", "badClient"}
      /\ (NewLineState(result) = "badClient" <=> result = "token_timeout")
  BY DEF NewLineState, Results
<1>7. CASE result # "token_timeout"
  <2>1. /\ MissesInv' /\ a \in DOMAIN LineOwner
        /\ TokenMisses' = [TokenMisses EXCEPT ![a] = 0]
        /\ UNCHANGED LineOwner
    BY <1>2, <1>5, <1>6, <1>7, UpdateStep
  <2>2. Arbiter!Answer(a)
    BY <1>3, <1>4, <2>1 DEF Arbiter!Answer
  <2> QED
    BY <2>1, <2>2 DEF Arbiter!Next, Arbiter!Address, Address
<1>8. CASE result = "token_timeout"
  <2>1. /\ MissesInv' /\ a \in DOMAIN LineOwner
        /\ \/ /\ TokenMisses[a] + 1 < 4 \/ a \in Static
              /\ TokenMisses' = [TokenMisses EXCEPT
                                   ![a] = IF @ < 4 THEN @ + 1 ELSE @]
              /\ UNCHANGED LineOwner
           \/ /\ TokenMisses[a] + 1 = 4
              /\ a \in Dynamic
              /\ TokenMisses' = [TokenMisses EXCEPT ![a] = 0]
              /\ LineOwner' = [b \in DOMAIN LineOwner \ {a} |-> LineOwner[b]]
    BY <1>2, <1>5, <1>6, <1>8, UpdateStep
  <2>2. Arbiter!Silence(a)
    BY <1>3, <1>4, <2>1 DEF Arbiter!Silence
  <2> QED
    BY <2>1, <2>2 DEF Arbiter!Next, Arbiter!Address, Address
<1> QED
  BY <1>7, <1>8

(* Idle carries out its command. *)
LEMMA DecodeStep ==
  ASSUME Inv, MissesInv, DecodeAction
  PROVE  MissesInv' /\ (Arbiter!Next \/ ArbiterStutters)
<1>1. fsmState = "idle"
  BY DEF DecodeAction, DecodeMasterStart, DecodeQueryAddress,
         DecodeSendToken, DecodeOwnTokenPacket, DecodeOwnTokenEmpty, Decode
<1>2. TokenHolder = NullAddr /\ TokenOnWire = FALSE
  BY <1>1, NobodyHolds
<1>3. CASE DecodeMasterStart \/ DecodeQueryAddress
  <2>1. fsmState' \notin {"sendingToken", "waitClientPacketDone"}
        /\ UNCHANGED m_table
    BY <1>3 DEF DecodeMasterStart, DecodeQueryAddress, Begin, Transition,
                addressVars
  <2> QED
    BY <1>2, <2>1, NobodyHoldsNext, TableKept DEF ArbiterStutters
<1>4. ASSUME NEW a, fsmAction = SendToken(a), NEW p,
             NEW state \in {"sendingToken", "waitClientPacketDone"},
             Begin(state, p)
      PROVE  MissesInv' /\ Arbiter!Next
  <2>1. a \in Address /\ a \in DOMAIN LineOwner
    BY <1>4, HolderIsMember
  <2>2. UNCHANGED m_table /\ fsmAction' = fsmAction /\ fsmState' = state
    BY <1>4 DEF Begin, Transition, addressVars
  <2>3. TokenHolder' = a /\ TokenOnWire' \in BOOLEAN
    BY <1>4, <2>2, ActionFacts DEF TokenHolder, TokenOnWire
  <2>4. MissesInv' /\ UNCHANGED <<LineOwner, TokenMisses>>
    BY <2>2, TableKept
  <2>5. Arbiter!Grant(a)
    BY <1>2, <2>1, <2>3, <2>4 DEF Arbiter!Grant
  <2> QED
    BY <2>1, <2>4, <2>5 DEF Arbiter!Next, Arbiter!Address, Address
<1>5. CASE DecodeSendToken \/ DecodeOwnTokenPacket
  BY <1>4, <1>5 DEF DecodeSendToken, DecodeOwnTokenPacket, Decode
<1>6. CASE DecodeOwnTokenEmpty
  <2> DEFINE a == OwnAddr
  <2>1. /\ fsmAction = SendToken(a) /\ ahAction = SendToken(a)
        /\ a \in Address
        /\ fsmAction # DoNothing /\ ahAction.addr = a
    BY <1>6, HolderIsMember, ActionFacts DEF DecodeOwnTokenEmpty, Decode
  <2>2. UpdateAddressLine(a, "idle")
    BY <1>6, <2>1 DEF DecodeOwnTokenEmpty, ReportActionResult, NewLineState
  <2>3. TokenHolder' = NullAddr /\ TokenOnWire' = FALSE
    BY <1>1, <1>6, NobodyHoldsNext DEF DecodeOwnTokenEmpty, fsmVars
  <2> HIDE DEF a
  <2>4. /\ MissesInv' /\ a \in DOMAIN LineOwner
        /\ TokenMisses' = [TokenMisses EXCEPT ![a] = 0]
        /\ UNCHANGED LineOwner
    BY <2>1, <2>2, UpdateStep
  <2>5. Arbiter!Answer(a)
    BY <1>2, <2>3, <2>4 DEF Arbiter!Answer
  <2> QED
    BY <2>1, <2>4, <2>5 DEF Arbiter!Next, Arbiter!Address, Address
<1> QED
  BY <1>3, <1>5, <1>6 DEF DecodeAction

(* A result other than one of a token. *)
LEMMA OtherResultStep ==
  ASSUME Inv, MissesInv,
         NEW state \in {"startMaster", "queryAddress", "waitAddressReply"},
         Waiting(state), NEW result \in {"ok", "timeout", "address_query_done"},
         Finish(result)
  PROVE  MissesInv' /\ ArbiterStutters
<1>1. TokenHolder = NullAddr /\ TokenOnWire = FALSE
  BY NobodyHolds DEF Waiting
<1>2. TokenHolder' = NullAddr /\ TokenOnWire' = FALSE
  BY NobodyHoldsNext DEF Finish, Transition
<1>3. UNCHANGED m_table
  BY DEF Finish, ReportActionResult, AddressDiscoveryIsDone, Abort, addressVars
<1> QED
  BY <1>1, <1>2, <1>3, TableKept DEF ArbiterStutters

(* A client asks for an address. *)
LEMMA RequestStep ==
  ASSUME Inv, MissesInv, NEW uid \in UniqueIds, RxAddressRequest(uid)
  PROVE  MissesInv' /\ (Arbiter!Next \/ ArbiterStutters)
<1>1. /\ TokenHolder = NullAddr /\ TokenOnWire = FALSE
      /\ TokenHolder' = NullAddr /\ TokenOnWire' = FALSE
  BY NobodyHolds, NobodyHoldsNext DEF RxAddressRequest, Waiting, Transition
<1>2. CASE UNCHANGED m_table
  BY <1>1, <1>2, TableKept DEF ArbiterStutters
<1>3. CASE ~UNCHANGED m_table
  <2> DEFINE a == AllocAddress(m_freeAddresses)
  <2>1. /\ LinesOf(uid) = {}
        /\ m_freeAddresses # <<>>
        /\ m_table' = [b \in DOMAIN m_table \cup {a} |->
                         IF b = a THEN DynamicLine(uid) ELSE m_table[b]]
    BY <1>3 DEF RxAddressRequest, ReceivedAddressRequest
  <2>2. m_freeAddresses \in Seq(Dynamic)
    BY DEF Inv, TypeOK
  <2>3. Len(m_freeAddresses) \in 1 .. Len(m_freeAddresses)
    BY <2>1, <2>2
  <2>4. a \in Dynamic /\ a \notin DOMAIN m_table
    BY <2>2, <2>3 DEF AllocAddress, Inv, AddressesConserved
  <2> HIDE DEF a
  <2>5. DynamicLine(uid).uid = uid /\ DynamicLine(uid).badCount = 0
    BY DEF DynamicLine
  <2>6. LineOwner' = [b \in DOMAIN LineOwner \cup {a} |->
                        IF b = a THEN uid ELSE LineOwner[b]]
    BY <2>1, <2>5 DEF LineOwner
  <2>7. UNCHANGED TokenMisses
    <3>1. \A b \in Address :
            (IF b \in DOMAIN m_table' THEN m_table'[b].badCount ELSE 0)
              = (IF b \in DOMAIN m_table THEN m_table[b].badCount ELSE 0)
      BY <2>1, <2>4, <2>5
    <3> QED
      BY <3>1 DEF TokenMisses
  <2>8. MissesInv'
    BY <2>1, <2>5 DEF MissesInv
  <2>9. \A b \in DOMAIN LineOwner : LineOwner[b] # uid
    BY <2>1 DEF LineOwner, LinesOf
  <2>10. Arbiter!Join(uid, a)
    BY <1>1, <2>4, <2>6, <2>7, <2>9 DEF Arbiter!Join, LineOwner
  <2> QED
    BY <2>4, <2>8, <2>10 DEF Arbiter!Next, Uid
<1> QED
  BY <1>2, <1>3

(* The echo of a grant, or its absence; timers and the clock. *)
LEMMA ChartStep ==
  ASSUME Inv, MissesInv,
         RxGrantToken \/ GrantTokenTimeoutExpires \/ TimeoutWhileReceiving
           \/ ExitMaster \/ DelayActionExpires \/ QueryTimerExpires \/ Tick
  PROVE  MissesInv' /\ (Arbiter!Next \/ ArbiterStutters)
<1>1. UNCHANGED m_table
  BY DEF RxGrantToken, GrantTokenTimeoutExpires, TimeoutWhileReceiving,
         ExitMaster, DelayActionExpires, QueryTimerExpires, Tick, addressVars
<1>2. MissesInv' /\ UNCHANGED <<LineOwner, TokenMisses>>
  BY <1>1, TableKept
<1>3. CASE RxGrantToken \/ GrantTokenTimeoutExpires
  <2>1. PICK a \in Address : fsmAction = SendToken(a)
    BY <1>3 DEF RxGrantToken, GrantTokenTimeoutExpires, Waiting, Inv,
                ChartFollowsAction
  <2>2. a # NullAddr /\ fsmAction.addr = a
    BY <2>1, HolderIsMember, ActionFacts
  <2>3. TokenHolder = a /\ TokenOnWire = FALSE
    BY <1>3, <2>2 DEF RxGrantToken, GrantTokenTimeoutExpires, Waiting,
                      TokenHolder, TokenOnWire
  <2>4. CASE RxGrantToken
    <3>1. TokenHolder' = a /\ TokenOnWire' = TRUE
      BY <2>2, <2>4 DEF RxGrantToken, Transition, actionVars, TokenHolder,
                        TokenOnWire
    <3>2. Arbiter!Confirm
      BY <1>2, <2>2, <2>3, <3>1 DEF Arbiter!Confirm
    <3> QED
      BY <1>2, <3>2 DEF Arbiter!Next
  <2>5. CASE GrantTokenTimeoutExpires
    <3>1. TokenHolder' = NullAddr /\ TokenOnWire' = FALSE
      BY <2>5, NobodyHoldsNext DEF GrantTokenTimeoutExpires, Transition
    <3>2. Arbiter!Withdraw
      BY <1>2, <2>2, <2>3, <3>1 DEF Arbiter!Withdraw
    <3> QED
      BY <1>2, <3>2 DEF Arbiter!Next
  <2> QED
    BY <1>3, <2>4, <2>5
<1>4. CASE DelayActionExpires
  <2>1. ahAction = DoNothing
    BY <1>4 DEF DelayActionExpires, Inv, WakesUpInTime, Off
  <2>2. fsmState \notin {"sendingToken", "waitClientPacketDone"}
    BY <2>1, ActionFacts DEF Inv, ChartFollowsAction
  <2>3. fsmState' = fsmState
    BY <1>4 DEF DelayActionExpires, fsmVars
  <2> QED
    BY <1>2, <2>2, <2>3, NobodyHolds, NobodyHoldsNext DEF ArbiterStutters
<1>5. CASE TimeoutWhileReceiving \/ ExitMaster \/ QueryTimerExpires \/ Tick
  <2>1. fsmState' = fsmState /\ fsmAction' = fsmAction
    BY <1>5 DEF TimeoutWhileReceiving, ExitMaster, QueryTimerExpires, Tick,
                fsmVars, actionVars
  <2> QED
    BY <1>2, <2>1 DEF ArbiterStutters, TokenHolder, TokenOnWire
<1> QED
  BY <1>3, <1>4, <1>5

LEMMA NextStep ==
  Inv /\ MissesInv /\ [Next]_vars
    => MissesInv' /\ [Arbiter!Next]_(Arbiter!vars)
<1> SUFFICES ASSUME Inv, MissesInv, [Next]_vars
             PROVE  MissesInv' /\ (Arbiter!Next \/ ArbiterStutters)
  BY DEF ArbiterStutters, Arbiter!vars
<1>1. CASE DecodeAction
  BY <1>1, DecodeStep
<1>2. CASE RxClientPacket \/ RxReturnToken \/ TokenTimeoutExpires
  BY <1>2, TokenResultStep
  DEF RxClientPacket, RxReturnToken, TokenTimeoutExpires, Results
<1>3. CASE RxMasterStartStop \/ MasterStartTimeoutExpires
           \/ QueryTimeoutExpires \/ AddressReplyTimeoutExpires
  BY <1>3, OtherResultStep
  DEF RxMasterStartStop, MasterStartTimeoutExpires, QueryTimeoutExpires,
      AddressReplyTimeoutExpires
<1>4. CASE \E uid \in UniqueIds : RxAddressRequest(uid)
  BY <1>4, RequestStep
<1>5. CASE RxGrantToken \/ GrantTokenTimeoutExpires \/ TimeoutWhileReceiving
           \/ ExitMaster \/ DelayActionExpires \/ QueryTimerExpires \/ Tick
  BY <1>5, ChartStep
<1>6. CASE UNCHANGED vars
  <2>1. UNCHANGED <<m_table, fsmState, fsmAction>>
    BY <1>6 DEF vars, fsmVars, actionVars, addressVars
  <2> QED
    BY <2>1, TableKept DEF ArbiterStutters, TokenHolder, TokenOnWire
<1> QED
  BY <1>1, <1>2, <1>3, <1>4, <1>5, <1>6 DEF Next, Receive, TimerExpires

LEMMA InitStep == Init => MissesInv /\ Arbiter!Init
<1> SUFFICES ASSUME Init PROVE MissesInv /\ Arbiter!Init
  OBVIOUS
<1>1. PICK uids \in [Static -> GarbageUids] :
        m_table = [a \in Static |-> StaticLine(uids[a])]
  BY DEF Init, DynamicStart
<1>2. \A a \in Static : /\ m_table[a].badCount = 0
                       /\ m_table[a].uid = uids[a]
                       /\ m_table[a].dynamic = FALSE
  BY <1>1 DEF StaticLine
<1>3. TokenHolder = NullAddr /\ TokenOnWire = FALSE
  BY NobodyHolds DEF Init
<1>4. LineOwner \in [Static -> Uid]
  BY <1>1, <1>2 DEF LineOwner, Uid
<1>5. TokenMisses = [a \in Address |-> 0]
  BY <1>1, <1>2 DEF TokenMisses
<1>6. MissesInv
  BY <1>1, <1>2 DEF MissesInv
<1> QED
  BY <1>3, <1>4, <1>5, <1>6 DEF Arbiter!Init, Arbiter!Address, Address

(* Whatever its addresses, clients, delays and lost echoes, the master with *)
(* its scheduler, timers, table and state chart implements the arbiter: it  *)
(* grants one token at a time and to members only, gives an address one     *)
(* owner at a time, and drops a client only after four unanswered tokens in *)
(* a row (MasterFSM.cpp:88-367, DynamicHandler.cpp:70-143,                  *)
(* AddressLine.h:81-93).                                                    *)
THEOREM MasterImplementsArbiter == Spec => ImplementsArbiter
<1>1. Init => MissesInv /\ Arbiter!Init
  BY InitStep
<1>2. Inv /\ MissesInv /\ [Next]_vars
        => MissesInv' /\ [Arbiter!Next]_(Arbiter!vars)
  BY NextStep
<1> QED
  BY <1>1, <1>2, Invariance, PTL DEF Spec, ImplementsArbiter, Arbiter!Spec
=============================================================================
