------------------------------- MODULE Master -------------------------------
(***************************************************************************)
(* The bus master of serial_net: MasterFSM, ActionHandler, MasterScheduler *)
(* and DynamicHandler, wired together by Master (src/master/).             *)
(*                                                                         *)
(* The program is single threaded: an event loop calls one handler at a    *)
(* time (a received packet or an expired timer) and the state chart runs   *)
(* to completion inside it.  The only event a handler posts to the chart   *)
(* from within is check_new_command; it waits in m_eventQueue and is       *)
(* processed before the event loop gets control back, so every action that *)
(* stands for the event loop requires that queue to be empty.              *)
(*                                                                         *)
(* The medium is the environment: any packet may arrive at any time, early *)
(* or late, from whomever.  A packet the current state does not handle     *)
(* changes nothing and is a stuttering step.                               *)
(***************************************************************************)
EXTENDS Integers, Sequences, MasterScheduler, AddressLine

CONSTANTS
  StaticLow, StaticHigh,     \* addresses polled unasked
  DynamicLow, DynamicHigh,   \* addresses handed out on request
  OwnAddr,                   \* address of the client in the master's process
  UniqueIds,                 \* ids of the clients that ask for an address
  GarbageUids,               \* what an uninitialized m_uniqueId may hold
  LostEchoes,                \* own packets the master may fail to hear
  MayExit,                   \* the master was started with a time limit
  (* Config, in ticks *)
  MasterStartTimeout, TokenGrantTx2RxTime, TokenClientTimeout,
  DelayTokenPacketSent, DelayTokenTimeout, DelayFreeAddress,
  DelayTokenReturn, AddrQueryPeriod

Static == StaticLow .. StaticHigh
Dynamic == DynamicLow .. DynamicHigh
Address == Static \cup Dynamic
Uid == UniqueIds \cup GarbageUids

ASSUME AddressAssumption ==
  /\ StaticLow \in Nat /\ StaticHigh \in Nat
  /\ DynamicLow \in Nat /\ DynamicHigh \in Nat
  /\ 0 < StaticLow /\ StaticLow <= StaticHigh
  /\ StaticHigh < DynamicLow /\ DynamicLow <= DynamicHigh
  /\ OwnAddr \in Address \cup {NullAddr}

ASSUME TimeAssumption ==
  /\ MasterStartTimeout \in Nat \ {0}
  /\ TokenGrantTx2RxTime \in Nat \ {0}
  /\ TokenClientTimeout \in Nat \ {0}
  /\ DelayTokenPacketSent \in Nat \ {0}
  /\ DelayTokenTimeout \in Nat \ {0}
  /\ DelayFreeAddress \in Nat \ {0}
  /\ DelayTokenReturn \in Nat \ {0}
  /\ AddrQueryPeriod \in Nat \ {0}

ASSUME EnvironmentAssumption ==
  /\ LostEchoes \subseteq {"master_started", "grant_token"}
  /\ MayExit \in BOOLEAN
  /\ GarbageUids # {}

VARIABLES
  fsmState,          \* active state of MasterFSM
  fsmTimer,          \* MasterFSM::m_timer
  fsmAction,         \* MasterFSM::m_currentAction
  m_eventQueue,      \* FsmBaseEvent::m_eventQueue
  ahAction,          \* ActionHandler::m_currentAction
  m_delayAction,     \* ActionHandler::m_delayAction
  m_ready,           \* MasterScheduler::m_ready
  m_waiting,         \* MasterScheduler::m_waiting
  m_table,           \* DynamicHandler::m_table, by address
  m_freeAddresses,   \* DynamicHandler::m_freeAddresses, a stack
  queryTimer,        \* DynamicHandler::m_timer
  sent,              \* the packet the last step handed to the medium
  status             \* running, exited, or the assertion that stopped it

fsmVars == <<fsmState, fsmTimer>>
actionVars == <<fsmAction, ahAction, m_eventQueue>>
schedulerVars == <<m_ready, m_waiting, m_delayAction>>
addressVars == <<m_table, m_freeAddresses, queryTimer>>
vars == <<fsmVars, actionVars, schedulerVars, addressVars, sent, status>>

State == {"idle", "startMaster", "sendingToken", "waitClientPacketDone",
          "queryAddress", "waitAddressReply"}

Action == {MasterStart, QueryAddress, DoNothing}
            \cup {SendToken(a) : a \in Address}

WaitingAction == [action : Action, left : Nat]

Line == [state : LineState, badCount : 0 .. BadCountCap,
         dynamic : BOOLEAN, uid : Uid]

NoPacket == [type |-> "none"]
GrantToken(a) == [type |-> "grant_token", dest |-> a]
AddressReply(a, uid) ==
  [type |-> "address_reply", assigned |-> a, uid |-> uid]

Packet == {NoPacket} \cup {GrantToken(a) : a \in Address}
  \cup {AddressReply(a, uid) : a \in Address, uid \in UniqueIds}
  \cup [type : {"master_started", "master_ended", "address_discovery",
                "send_packet"}]

Status == {"running", "exited", "assert_result", "assert_idle", "no_line"}

TypeOK ==
  /\ fsmState \in State
  /\ fsmTimer \in TimerValue
  /\ fsmAction \in Action
  /\ m_eventQueue \in Seq({"check_new_command"})
  /\ ahAction \in Action
  /\ m_delayAction \in TimerValue
  /\ m_ready \in Seq(Action)
  /\ m_waiting \in Seq(WaitingAction)
  /\ DOMAIN m_table \subseteq Address
  /\ m_table \in [DOMAIN m_table -> Line]
  /\ m_freeAddresses \in Seq(Dynamic)
  /\ queryTimer \in TimerValue
  /\ sent \in Packet
  /\ status \in Status

-----------------------------------------------------------------------------
(* DynamicHandler::start: a row and a token for every static address and    *)
(* the first address query; the lowest dynamic address is on top of the     *)
(* stack of free ones.                                                      *)
DynamicStart ==
  /\ m_ready = Append([i \in 1 .. (StaticHigh - StaticLow + 1) |->
                         SendToken(StaticLow + i - 1)], QueryAddress)
  /\ \E uids \in [Static -> GarbageUids] :
       m_table = [a \in Static |-> StaticLine(uids[a])]
  /\ m_freeAddresses = [i \in 1 .. (DynamicHigh - DynamicLow + 1) |->
                          DynamicHigh - i + 1]
  /\ queryTimer = Off

(* The constructor: the start action is posted first, so checkNewAction()   *)
(* has already started it.                                                  *)
Init ==
  /\ fsmState = "idle"
  /\ fsmTimer = Off
  /\ fsmAction = MasterStart
  /\ m_eventQueue = <<"check_new_command">>
  /\ ahAction = MasterStart
  /\ m_delayAction = Off
  /\ m_waiting = <<>>
  /\ DynamicStart
  /\ sent = NoPacket
  /\ status = "running"

-----------------------------------------------------------------------------
(* ActionHandler. *)

(* The events left when the one being processed is popped. *)
EventsLeft == IF m_eventQueue = <<>> THEN <<>> ELSE Tail(m_eventQueue)

(* MasterFSM::startAction, with the action the chart has at that moment. *)
StartAction(current, action) ==
  /\ status' = IF current = DoNothing THEN status ELSE "assert_idle"
  /\ fsmAction' = action
  /\ m_eventQueue' = Append(EventsLeft, "check_new_command")

(* ActionHandler::checkNewAction when no action is under way: start the     *)
(* first ready action, or sleep until the first waiting one is due.         *)
CheckNewAction(current, delay, ready, waiting) ==
  \E n \in 0 .. Len(waiting) :
    LET nowReady == ReadyAfter(ready, waiting, n)
        nowWaiting == WaitingAfter(waiting, n)
    IN  /\ WorkToDoMoves(waiting, n)
        /\ m_waiting' = nowWaiting
        /\ IF nowReady # <<>>
           THEN /\ ahAction' = Head(nowReady)
                /\ m_ready' = Tail(nowReady)
                /\ StartAction(current, Head(nowReady))
                /\ m_delayAction' = delay
           ELSE /\ ahAction' = DoNothing
                /\ m_ready' = nowReady
                /\ fsmAction' = current
                /\ m_eventQueue' = EventsLeft
                /\ m_delayAction' = IF nowWaiting = <<>> THEN delay
                                    ELSE nowWaiting[1].left
                /\ UNCHANGED status

(* A failed assertion or a null dereference ends the process. *)
Abort(reason) ==
  /\ status' = reason
  /\ ahAction' = DoNothing
  /\ fsmAction' = DoNothing
  /\ m_eventQueue' = EventsLeft
  /\ UNCHANGED <<schedulerVars, addressVars>>

-----------------------------------------------------------------------------
(* DynamicHandler. *)

NextDelay(state) ==
  CASE state = "active" -> DelayTokenPacketSent
    [] state = "idle" -> DelayTokenReturn
    [] state = "badClient" -> DelayTokenTimeout
    [] state = "free" -> DelayFreeAddress

(* Mutant: the offset of the row is one too large. *)
RemoveNextLine(table, a) == [b \in DOMAIN table \ {a + 1} |-> table[b]]

RemoveLine(table, a) == [b \in DOMAIN table \ {a} |-> table[b]]

(* The row of a dynamic address that has gone free is dropped and the      *)
(* address becomes available again; any other row has its next token       *)
(* scheduled.  Both are followed by checkNewAction().                      *)
UpdateAddressLine(a, state) ==
  IF a \notin DOMAIN m_table THEN Abort("no_line")
  ELSE LET line == SetState(m_table[a], state)
       IN  /\ IF RemoveDynamic(line)
              THEN /\ m_table' = RemoveLine(m_table, a)
                   /\ m_freeAddresses' = Append(m_freeAddresses, a)
                   /\ CheckNewAction(DoNothing, m_delayAction,
                                     m_ready, m_waiting)
              ELSE /\ m_table' = [m_table EXCEPT ![a] = line]
                   /\ UNCHANGED m_freeAddresses
                   /\ \E k \in Positions(m_waiting, NextDelay(line.state)) :
                        CheckNewAction(DoNothing, m_delayAction, m_ready,
                          AddAction(m_waiting, k, SendToken(a),
                                    NextDelay(line.state)))
           /\ UNCHANGED queryTimer

(* Mutant: the timer is not started. *)
AddressDiscoveryForgotten ==
  /\ UNCHANGED addressVars
  /\ CheckNewAction(DoNothing, m_delayAction, m_ready, m_waiting)

(* The next query is posted by a timer. *)
AddressDiscoveryIsDone ==
  /\ queryTimer' = AddrQueryPeriod
  /\ UNCHANGED <<m_table, m_freeAddresses>>
  /\ CheckNewAction(DoNothing, m_delayAction, m_ready, m_waiting)

(* Mutant: a client that missed its token counts as unknown. *)
WellBehavedLinesOf(uid) ==
  {a \in DOMAIN m_table : m_table[a].uid = uid
                           /\ m_table[a].state # "badClient"}

(* The rows with that unique id, among them static rows whose m_uniqueId    *)
(* happens to hold it.  The static rows come first in the table, in the     *)
(* order of their addresses.                                                *)
LinesOf(uid) == {a \in DOMAIN m_table : m_table[a].uid = uid}
FindLine(uid, a) == a \in LinesOf(uid) /\ \A b \in LinesOf(uid) : a <= b

(* Mutant: the address is read from one end and removed from the other. *)
AllocFirst(free) == free[1]

AllocAddress(free) == free[Len(free)]

ReceivedAddressRequest(uid) ==
  \/ /\ \E a \in Address : FindLine(uid, a) /\ sent' = AddressReply(a, uid)
     /\ UNCHANGED <<m_table, m_freeAddresses, m_ready>>
  \/ /\ LinesOf(uid) = {}
     /\ m_freeAddresses # <<>>
     /\ LET a == AllocAddress(m_freeAddresses)
        IN  /\ m_freeAddresses' =
                 SubSeq(m_freeAddresses, 1, Len(m_freeAddresses) - 1)
            /\ m_table' = [b \in DOMAIN m_table \cup {a} |->
                             IF b = a THEN DynamicLine(uid) ELSE m_table[b]]
            /\ m_ready' = AddActionNow(m_ready, SendToken(a))
            /\ sent' = AddressReply(a, uid)
  \/ /\ LinesOf(uid) = {}
     /\ m_freeAddresses = <<>>
     /\ sent' = NoPacket
     /\ UNCHANGED <<m_table, m_freeAddresses, m_ready>>

-----------------------------------------------------------------------------
(* MasterFSM::reportActionResult and the ActionHandler callback behind it. *)

(* The row state each result of a token stands for. *)
NewLineState(result) ==
  CASE result = "client_packet_started" -> "active"
    [] result = "rx_token_no_packet" -> "idle"
    [] result = "token_timeout" -> "badClient"

ReportActionResult(result) ==
  IF fsmAction = DoNothing
  THEN m_eventQueue' = EventsLeft
       /\ UNCHANGED <<fsmAction, ahAction, schedulerVars, addressVars, status>>
  ELSE CASE result = "address_query_done" -> AddressDiscoveryIsDone
         [] result = "ok" ->
              /\ CheckNewAction(DoNothing, m_delayAction, m_ready, m_waiting)
              /\ UNCHANGED addressVars
         [] result = "timeout" -> Abort("assert_result")
         [] OTHER -> UpdateAddressLine(ahAction.addr, NewLineState(result))

-----------------------------------------------------------------------------
(* MasterFSM. *)

(* Leaving a state cancels its timer, entering one starts its own. *)
StateTimeout(state) ==
  CASE state = "idle" -> Off
    [] state = "startMaster" -> MasterStartTimeout
    [] state = "sendingToken" -> TokenGrantTx2RxTime
    [] OTHER -> TokenClientTimeout

Transition(state) ==
  /\ fsmState' = state
  /\ fsmTimer' = StateTimeout(state)

(* Idle processes check_new_command. *)
Decode(action) ==
  /\ status = "running"
  /\ m_eventQueue # <<>>
  /\ fsmState = "idle"
  /\ fsmAction = action

(* A command that leaves idle: nothing is reported yet. *)
Begin(state, packet) ==
  /\ Transition(state)
  /\ sent' = packet
  /\ m_eventQueue' = EventsLeft
  /\ UNCHANGED <<fsmAction, ahAction, schedulerVars, addressVars, status>>

DecodeMasterStart ==
  /\ Decode(MasterStart)
  /\ Begin("startMaster", [type |-> "master_started"])

DecodeQueryAddress ==
  /\ Decode(QueryAddress)
  /\ Begin("queryAddress", [type |-> "address_discovery"])

DecodeSendToken ==
  \E a \in Address \ {OwnAddr} :
    /\ Decode(SendToken(a))
    /\ Begin("sendingToken", GrantToken(a))

(* The own client has something to send: its packet goes out at once. *)
DecodeOwnTokenPacket ==
  /\ Decode(SendToken(OwnAddr))
  /\ Begin("waitClientPacketDone", [type |-> "send_packet"])

(* The own client has nothing to send: the token counts as returned. *)
DecodeOwnTokenEmpty ==
  /\ Decode(SendToken(OwnAddr))
  /\ ReportActionResult("rx_token_no_packet")
  /\ sent' = NoPacket
  /\ UNCHANGED fsmVars

(* The event loop is in control, with the chart in that state. *)
Waiting(state) ==
  /\ status = "running"
  /\ m_eventQueue = <<>>
  /\ fsmState = state

Finish(result) ==
  /\ ReportActionResult(result)
  /\ Transition("idle")
  /\ sent' = NoPacket

RxMasterStartStop ==
  /\ Waiting("startMaster")
  /\ Finish("ok")

MasterStartTimeoutExpires ==
  /\ Waiting("startMaster")
  /\ fsmTimer = 0
  /\ "master_started" \in LostEchoes
  /\ Finish("timeout")

RxGrantToken ==
  /\ Waiting("sendingToken")
  /\ Transition("waitClientPacketDone")
  /\ sent' = NoPacket
  /\ UNCHANGED <<actionVars, schedulerVars, addressVars, status>>

(* Mutant: the chart drops its action without telling the handler. *)
GrantTokenTimeoutDropsAction ==
  /\ Waiting("sendingToken")
  /\ fsmTimer = 0
  /\ "grant_token" \in LostEchoes
  /\ Transition("idle")
  /\ sent' = NoPacket
  /\ fsmAction' = DoNothing
  /\ UNCHANGED <<ahAction, m_eventQueue, schedulerVars, addressVars, status>>

(* The action is not reported as done. *)
GrantTokenTimeoutExpires ==
  /\ Waiting("sendingToken")
  /\ fsmTimer = 0
  /\ "grant_token" \in LostEchoes
  /\ Transition("idle")
  /\ sent' = NoPacket
  /\ UNCHANGED <<actionVars, schedulerVars, addressVars, status>>

RxClientPacket ==
  /\ Waiting("waitClientPacketDone")
  /\ Finish("client_packet_started")

RxReturnToken ==
  /\ Waiting("waitClientPacketDone")
  /\ Finish("rx_token_no_packet")

TokenTimeoutExpires ==
  /\ Waiting("waitClientPacketDone")
  /\ fsmTimer = 0
  /\ Finish("token_timeout")

RxAddressRequest(uid) ==
  /\ Waiting("queryAddress")
  /\ ReceivedAddressRequest(uid)
  /\ Transition("waitAddressReply")
  /\ UNCHANGED <<actionVars, m_waiting, m_delayAction, queryTimer, status>>

QueryTimeoutExpires ==
  /\ Waiting("queryAddress")
  /\ fsmTimer = 0
  /\ Finish("address_query_done")

(* The result is reported by the destructor of the state. *)
AddressReplyTimeoutExpires ==
  /\ Waiting("waitAddressReply")
  /\ fsmTimer = 0
  /\ Finish("address_query_done")

(* packetRxInProgress(): somebody is transmitting, wait once more. *)
TimeoutWhileReceiving ==
  /\ \E state \in {"waitClientPacketDone", "queryAddress",
                   "waitAddressReply"} : Waiting(state)
  /\ fsmTimer = 0
  /\ fsmTimer' = TokenClientTimeout
  /\ sent' = NoPacket
  /\ UNCHANGED <<fsmState, actionVars, schedulerVars, addressVars, status>>

-----------------------------------------------------------------------------
(* The other timers, the clock and the end. *)

EventLoop == status = "running" /\ m_eventQueue = <<>>

DelayActionExpires ==
  /\ EventLoop
  /\ m_delayAction = 0
  /\ sent' = NoPacket
  /\ UNCHANGED <<fsmVars, addressVars>>
  /\ IF ahAction = DoNothing
     THEN CheckNewAction(fsmAction, Off, m_ready, m_waiting)
     ELSE m_delayAction' = Off
          /\ UNCHANGED <<actionVars, m_ready, m_waiting, status>>

(* Mutant: the callback also looks for a new action. *)
QueryTimerChecksNewAction ==
  /\ EventLoop
  /\ queryTimer = 0
  /\ queryTimer' = Off
  /\ sent' = NoPacket
  /\ UNCHANGED <<fsmVars, m_table, m_freeAddresses>>
  /\ IF ahAction = DoNothing
     THEN CheckNewAction(fsmAction, m_delayAction,
                         AddActionNow(m_ready, QueryAddress), m_waiting)
     ELSE /\ m_ready' = AddActionNow(m_ready, QueryAddress)
          /\ UNCHANGED <<actionVars, m_waiting, m_delayAction, status>>

(* Mutant: the timer is periodic. *)
QueryTimerRepeats ==
  /\ EventLoop
  /\ queryTimer = 0
  /\ queryTimer' = AddrQueryPeriod
  /\ m_ready' = AddActionNow(m_ready, QueryAddress)
  /\ sent' = NoPacket
  /\ UNCHANGED <<fsmVars, actionVars, m_waiting, m_delayAction, m_table,
                 m_freeAddresses, status>>

(* Posts the query and leaves it to others to call checkNewAction(). *)
QueryTimerExpires ==
  /\ EventLoop
  /\ queryTimer = 0
  /\ queryTimer' = Off
  /\ m_ready' = AddActionNow(m_ready, QueryAddress)
  /\ sent' = NoPacket
  /\ UNCHANGED <<fsmVars, actionVars, m_waiting, m_delayAction, m_table,
                 m_freeAddresses, status>>

(* Timers run down but may fire late. *)
Tick ==
  /\ EventLoop
  /\ \/ fsmTimer > 0 \/ m_delayAction > 0 \/ queryTimer > 0
     \/ \E i \in 1 .. Len(m_waiting) : m_waiting[i].left > 0
  /\ fsmTimer' = Aged(fsmTimer)
  /\ m_delayAction' = Aged(m_delayAction)
  /\ queryTimer' = Aged(queryTimer)
  /\ m_waiting' = AgedWaiting(m_waiting)
  /\ sent' = NoPacket
  /\ UNCHANGED <<fsmState, actionVars, m_ready, m_table, m_freeAddresses,
                 status>>

(* The time limit of the master: exitMaster() and the end of the object. *)
ExitMaster ==
  /\ EventLoop
  /\ MayExit
  /\ status' = "exited"
  /\ sent' = [type |-> "master_ended"]
  /\ UNCHANGED <<fsmVars, actionVars, schedulerVars, addressVars>>

-----------------------------------------------------------------------------

Receive ==
  \/ RxMasterStartStop
  \/ RxGrantToken
  \/ RxClientPacket
  \/ RxReturnToken
  \/ \E uid \in UniqueIds : RxAddressRequest(uid)

DecodeAction ==
  \/ DecodeMasterStart
  \/ DecodeQueryAddress
  \/ DecodeSendToken
  \/ DecodeOwnTokenPacket
  \/ DecodeOwnTokenEmpty

TimerExpires ==
  \/ MasterStartTimeoutExpires
  \/ GrantTokenTimeoutExpires
  \/ TokenTimeoutExpires
  \/ QueryTimeoutExpires
  \/ AddressReplyTimeoutExpires
  \/ TimeoutWhileReceiving
  \/ DelayActionExpires
  \/ QueryTimerExpires

Next == DecodeAction \/ Receive \/ TimerExpires \/ Tick \/ ExitMaster

Spec == Init /\ [][Next]_vars

-----------------------------------------------------------------------------
(***************************************************************************)
(* Properties.                                                             *)
(***************************************************************************)

(* The action is queued, waiting for its time, or being carried out. *)
Queued(action) == \E i \in 1 .. Len(m_ready) : m_ready[i] = action
Delayed(action) == \E i \in 1 .. Len(m_waiting) : m_waiting[i].action = action
Present(action) == Queued(action) \/ Delayed(action) \/ ahAction = action

(* The process dies in one way only: its start packet is not heard back,    *)
(* and the result "timeout" reaches the assertion of reportActionResult     *)
(* (ActionHandler.cpp:68).  Else every result is known there, startAction   *)
(* never finds an action under way (MasterFSM.cpp:387), and                 *)
(* updateAddressLine always finds the row whose token it accounts for       *)
(* (DynamicHandler.cpp:131 has no null check).                              *)
AbortsOnlyAtStart ==
  \/ status \in {"running", "exited"}
  \/ status = "assert_result" /\ "master_started" \in LostEchoes

(* No action is in the scheduler or under way twice, so no token is ever    *)
(* granted while another one for the same address is still queued.          *)
ActionOnce ==
  /\ \A i, j \in 1 .. Len(m_ready) : m_ready[i] = m_ready[j] => i = j
  /\ \A i, j \in 1 .. Len(m_waiting) :
       m_waiting[i].action = m_waiting[j].action => i = j
  /\ \A i \in 1 .. Len(m_ready) : \A j \in 1 .. Len(m_waiting) :
       m_ready[i] # m_waiting[j].action
  /\ ~Queued(ahAction)
  /\ ~Delayed(ahAction)

(* Every row of the address table has a token action somewhere and every    *)
(* token action has a row: no address drops out of the polling and no token *)
(* is sent to an address that was given up.                                 *)
TokenForEveryLine ==
  \A a \in Address : a \in DOMAIN m_table <=> Present(SendToken(a))

(* The address query is either scheduled or its timer is running, never     *)
(* both and never neither, over all the ways a query can end.               *)
QueryNeverLost == Present(QueryAddress) <=> queryTimer = Off

(* Dynamic addresses are neither lost nor doubled when rows come and go: an *)
(* address is on the free stack, once, or it has a row; static rows stay.   *)
AddressesConserved ==
  /\ \A a \in Dynamic :
       a \in DOMAIN m_table <=>
         ~\E i \in 1 .. Len(m_freeAddresses) : m_freeAddresses[i] = a
  /\ \A i, j \in 1 .. Len(m_freeAddresses) :
       m_freeAddresses[i] = m_freeAddresses[j] => i = j
  /\ Static \subseteq DOMAIN m_table
  /\ \A a \in DOMAIN m_table : m_table[a].dynamic <=> a \in Dynamic

(* A client that asks again, because its reply was lost or late, keeps the  *)
(* address it was given: no two dynamic rows carry one unique id.           *)
OneAddressPerClient ==
  \A a, b \in Dynamic \cap DOMAIN m_table :
    m_table[a].uid = m_table[b].uid => a = b

(* The chart and the action handler agree on the action under way, the      *)
(* state is one that carries out that action, and check_new_command is      *)
(* delivered to Idle, the only state that knows it: nested posting during a *)
(* transition never loses a command.                                        *)
ChartFollowsAction ==
  /\ fsmAction = ahAction
  /\ m_eventQueue # <<>> =>
       /\ Len(m_eventQueue) = 1
       /\ fsmState = "idle"
       /\ fsmAction # DoNothing
  /\ fsmState = "startMaster" => fsmAction = MasterStart
  /\ fsmState \in {"sendingToken", "waitClientPacketDone"} =>
       \E a \in Address : fsmAction = SendToken(a)
  /\ fsmState \in {"queryAddress", "waitAddressReply"} =>
       fsmAction = QueryAddress

(* Whenever the master has nothing to do, the delay timer is running and    *)
(* goes off no later than the first token is due; it never runs while an    *)
(* action is under way.                                                     *)
WakesUpInTime ==
  /\ status = "running" /\ ahAction = DoNothing =>
       /\ m_delayAction # Off
       /\ \A i \in 1 .. Len(m_waiting) : m_delayAction <= m_waiting[i].left
  /\ m_delayAction # Off => ahAction = DoNothing

(* Only time changes a timer that runs: it is not started again             *)
(* (checkNewAction, addressDiscoveryIsDone).  TimeServiceIf::Timer would    *)
(* drop the former timer without cancelling it, and that would call back a  *)
(* second time.                                                             *)
TimersAreNotReplaced ==
  [][\/ Tick
     \/ /\ m_delayAction > 0 => UNCHANGED m_delayAction
        /\ queryTimer > 0 => UNCHANGED queryTimer]_vars

-----------------------------------------------------------------------------
(***************************************************************************)
(* The abstract arbiter.  A token is out from the moment it is sent until  *)
(* the result is reported.                                                 *)
(***************************************************************************)
TokenHolder ==
  IF fsmState \in {"sendingToken", "waitClientPacketDone"}
  THEN fsmAction.addr ELSE NullAddr

TokenOnWire == fsmState = "waitClientPacketDone"

LineOwner == [a \in DOMAIN m_table |-> m_table[a].uid]

TokenMisses ==
  [a \in Address |-> IF a \in DOMAIN m_table THEN m_table[a].badCount ELSE 0]

Arbiter == INSTANCE TokenArbiter
             WITH NoOne <- NullAddr, Patience <- 4, holder <- TokenHolder,
                  onWire <- TokenOnWire, owner <- LineOwner,
                  misses <- TokenMisses

(* The scheduler, the timers and the chart together implement the arbiter:  *)
(* one token at a time, to members only, and a client keeps its address     *)
(* until it has left four tokens in a row unanswered.                       *)
ImplementsArbiter == Arbiter!Spec

-----------------------------------------------------------------------------
(***************************************************************************)
(* Fairness.  The event loop serves expired timers and the clock runs; the *)
(* medium returns the master's own packets (unless LostEchoes says         *)
(* otherwise); and the line does not look busy at every single timeout for *)
(* ever, a frame being shorter than the timeout.                           *)
(***************************************************************************)
Fairness ==
  /\ WF_vars(DecodeAction)
  /\ SF_vars(Tick)
  /\ SF_vars(DelayActionExpires)
  /\ SF_vars(QueryTimerExpires)
  /\ WF_vars(RxMasterStartStop)
  /\ WF_vars(RxGrantToken)
  /\ SF_vars(TokenTimeoutExpires)
  /\ SF_vars(QueryTimeoutExpires)
  /\ SF_vars(AddressReplyTimeoutExpires)

FairSpec == Spec /\ Fairness

(* Idle is about to carry out the token action of that address. *)
Polls(a) == m_eventQueue # <<>> /\ fsmAction = SendToken(a)

(* Every address with a row is polled again and again until the row is     *)
(* dropped, those given up as free included: Config.h:124 promises to      *)
(* "check it occasionally in case a new unit is connected".                *)
EveryLineIsPolled ==
  \A a \in Address : (a \in DOMAIN m_table) ~> (Polls(a) \/ a \notin DOMAIN m_table)

(* The master never stops asking for new clients. *)
QueriesForever == []<>(fsmState = "queryAddress")
=============================================================================
