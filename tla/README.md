# serial_net in TLA+

serial_net connects several nodes to one serial wire.  One node runs the bus
*master*: it owns the wire, hands out a token to one address after another and
assigns addresses to clients that have none.  A node that gets the token may
send one packet or return the token.  Everything in a process runs on one
thread: an event loop calls one handler at a time, for bytes that arrived or a
timer that expired.

This directory models the program module by module, checks the models with TLC
on small instances, and proves with TLAPS, for every instance, the safety of the
master and that it implements an abstract token arbiter, the safety of the bus
of clients on top of that arbiter, of the state chart library, of the timers,
and of the programs with their interfaces and links.  PROJECT.json lists
components, runs, mutants, hazards, findings and theorems, and maps every
definition to the lines it models.

## 1. The system

| Part | State it keeps | Operations | Talks to |
|---|---|---|---|
| `MasterScheduler` | `m_ready` FIFO, `m_waiting` priority queue | `addAction`, `addActionNow`, `workToDo`, `getNextAction`, `nextTimeout` | owned by the action handler |
| `ActionHandler` | current action, delay timer | `checkNewAction`, `postAction`, `postActionNow`, `reportActionResult` | starts the chart's action, gets its result by callback |
| `DynamicHandler`, `AddressLine` | address table, stack of free addresses, query timer | `receivedAddressRequest`, `addressDiscoveryIsDone`, `updateAddressLine` | posts actions, sends address replies |
| `MasterFSM` on the `StateChart` library | active state, timer, current action, event queue | `startAction`, one event handler per state | sends packets, reports results |
| `Master` | wiring | `masterPacketReceived`, `exitMaster` | packets become events of the chart |
| `PacketTypeCodec` | receive queue | `rxRawPacket`, `deliverRxQueue` | own client first, then the master, then the host drivers |
| `TxQueue`, `OwnAddress`, `ClientAddress` | transmit queue, own address, unique id | token, discovery, reply, master start | answers the master |
| `FrameCodec`, `MsgToByteAdapter`, `SerialByteEther` | decoder state, time of the last byte, the port | `encodePacket`, `decodeByte`, `receiveBytes`, `packetRxInProgress`, `setupRts` | the wire below, packets above |
| `StateChart`, `VecQueue` | chart, active states and their objects, requested transition, event queue | `addState`, `setStartState`, `postEvent`, `transition` | constructs and destroys the states of a chart, calls their handlers |
| `EventLoop`, watchers, `Timer`, `TimeServiceEv` | watcher objects and who refers to them | `onReadable`, `onTimeout`, `onSignal`, `makeTimeout`, `cancel`, callbacks | libev below, everything above |
| `AddressCache`, tap and tun drivers | MAC table, own MAC, interface | `setAddress`, `getMac`, `getLocalAddress`, packets from and to the host, new address | the transmit queue, the network interface |
| pty and standard stream drivers, `FolderManager` | pty, watcher, link in a directory shared by programs | read, write, restart of the pty | the transmit queue, the file system |
| `SerialNet`, `SNConfig`, `main` | options, all of the above | start in a mode, end | the user |
| POSIX wrappers, factories, log, dump, MQTT stubs | none | system calls, output | the kernel |

What is hard in it:

* results are reported, and the next action started, from inside an event
  handler or even a destructor of a state that is being left;
* four kinds of timer (state, delay, query, time limit) fire in any order;
* the master hears its own packets and relies on it;
* packets are lost, late or sent by the wrong node; a late answer is taken for
  the answer to the next token;
* addresses are freed and reused without telling the client that had them;
* the receive timeout is refreshed by the very poll that asks for it;
* transitions are requested, and events posted, by constructors and destructors
  of states in the middle of another transition;
* callbacks cancel, replace and destroy the timers they were called by;
* addresses are copied into packets and caches and are stale when used;
* interfaces and links outlive the program, and links are shared by programs.

What makes each part correct:

* scheduler: nothing lost, nothing doubled, delivered in the order of due times;
* action handler: one action at a time, and never asleep past a due token;
* address table: a token for every row and a row for every token; the dynamic
  addresses are partitioned into free ones and rows; a client has one address;
* chart: agrees with the handler about the action, always has a timer while it
  waits, and never gets an event in a state that does not know it;
* all of the master: members are polled for ever, queries never stop, one token
  is out at a time, a client is dropped only after four missed tokens in a row;
* client: sends only on its own token and takes only replies with its id;
* codec: decoding inverts encoding, and the decoder recovers after noise;
* state chart library: events in order, states alive inside their parents, the
  last request decides, processing ends;
* timers: no callback on a freed object, none after cancellation, none missing;
* drivers: frames reach the host they are for; an interface is up exactly while
  its node has an address; a link leads to the pty of a running program.

## 2. The modules

| Module | Models |
|---|---|
| `MasterScheduler` | `MasterScheduler.h`, `Action.h` as operators on sequences |
| `AddressLine` | one row of the table, `AddressLine.h` |
| `Master` | `Master`, `MasterFSM`, `ActionHandler`, `DynamicHandler`: one state machine |
| `TokenArbiter` | abstract specification of the master |
| `ClientNode` | `PacketTypeCodec`, `TxQueue`, `OwnAddress`, `ClientAddress` of every client |
| `Network` | clients and a master (the arbiter) on a wire |
| `FrameCodec` | encoder and decoder as operators |
| `SerialPort` | `SerialByteEther`, `PosixSerialUtils`: the port as a record |
| `SerialLink` | `MsgToByteAdapter` on top of both: the receiving end of the wire |
| `VecQueue` | the queue of events, `VecQueue.h`, as a record of its two members |
| `StateChart` | `StateChart.h`, `StateChart.cpp`, on `VecQueue` |
| `Timers` | `EventLoop`, the watchers, `TimeServiceEv`, `TimeServiceIf::Timer`, `Timer` |
| `AddressCache` | `AddressCache.cpp` as operators |
| `HostDrivers` | the tap, tun, pty and standard stream drivers with `TxQueue`, `OwnAddress` and data delivery, as operators on the record of a node |
| `SerialNet` | programs on one bus: `SNConfig`, `SerialNet`, `main`, `FolderManager`, interfaces |
| `MCMaster`, `MCNetwork`, `MCSerialLink`, `MCStateChart`, `MCTimers`, `MCSerialNet` | instances for TLC |
| `MasterQueueProofs`, `MasterProofs`, `MasterRefinement` | theorems about `MasterScheduler` and `Master` |
| `NetworkProofs` | theorems about `Network` |
| `StateChartProofs`, `ChartProofs` | theorems about `VecQueue` and `StateChart` |
| `TimersProofs` | theorems about `Timers` |
| `SerialNetProofs` | theorems about `AddressCache`, `HostDrivers` and `SerialNet` |

### Master

Variables carry the names of the members they stand for, except where two
classes use one name: `fsmAction` and `ahAction` are `m_currentAction` of
`MasterFSM` and of `ActionHandler`; `fsmTimer`, `m_delayAction` and
`queryTimer` are the timers of `MasterFSM`, `ActionHandler` and
`DynamicHandler`.  A timer holds the time left, or `Off`.  `sent` is the packet
the last step put on the wire and `status` tells whether the process runs.

An action of the model is one event processed by the chart, or one timer
callback, from its beginning to its end.  When a handler starts an action it
posts `check_new_command`, which the chart processes before control returns to
the event loop: actions that stand for the event loop require `m_eventQueue` to
be empty, the `Decode...` actions require it not to be.

| Code | Action |
|---|---|
| `Idle::decodeAction`, per command | `DecodeMasterStart`, `DecodeQueryAddress`, `DecodeSendToken`, `DecodeOwnTokenPacket`, `DecodeOwnTokenEmpty` |
| `MasterStart::event` | `RxMasterStartStop`, `MasterStartTimeoutExpires` |
| `SendingToken::event` | `RxGrantToken`, `GrantTokenTimeoutExpires` |
| `WaitClientPacketDoneState::event` | `RxClientPacket`, `RxReturnToken`, `TokenTimeoutExpires`, `TimeoutWhileReceiving` |
| `QueryAddressState::event` | `RxAddressRequest`, `QueryTimeoutExpires`, `TimeoutWhileReceiving` |
| `WaitAddressReply` | `AddressReplyTimeoutExpires`, `TimeoutWhileReceiving` |
| lambda in `checkNewAction` | `DelayActionExpires` |
| lambda in `addressDiscoveryIsDone` | `QueryTimerExpires` |
| lambda in `SerialNet::setupMaster` | `ExitMaster` |
| libev's clock | `Tick` |

`reportActionResult` is an operator that the handlers use, with the whole chain
behind it: `updateAddressLine`, `addressDiscoveryIsDone`, `checkNewAction`,
`startAction`.  A failed assertion or a missing row sets `status`.

Abstractions: time is discrete and relative; packets that the current state
ignores are stuttering steps; `m_badCount` is counted up to 4, beyond which the
code does not tell values apart; the constant `LostEchoes` says which of its own
packets the master may fail to hear, `GarbageUids` what the uninitialized unique
id of a static row may hold.  `SNConfig` gives the master's own client a static
address, so `OwnAddr` is a constant; `OwnAddr = 0` stands for one that is not
polled.  `std::priority_queue` leaves the order of equal elements open, and so
does `Positions`.

### TokenArbiter

`holder`, `onWire`, `owner` and `misses`, with the actions `Grant`, `Confirm`,
`Answer`, `Silence`, `Withdraw`, `Join`.  The mapping is at the end of `Master`:
the token is out while the chart is in `SendingToken` or
`WaitClientPacketDone`, it is known to be on the wire in the second of these
(`Confirm` is the echo), owners and misses are read from the rows.  A token that
is on the wire cannot be withdrawn: it is answered or counted as missed.

### ClientNode and Network

`ClientNode` keeps the address, the transmit queue and the last packet sent of
every client.  There is one action per kind of packet a client reacts to and
`HostSends` for `msgHostTx_sendPacket`; a queued packet is represented by the
source address written into it.  A packet too short for its type is a lost
packet.  Data delivery, MAC updates, `master_ended` and the address listener of
the tun and tap drivers are in `HostDrivers` and `SerialNet`.

`Network` puts clients on a wire with a master.  The master is `TokenArbiter`
with the packets that belong to its actions: what `Master` is shown to implement
is all the clients may rely on.  It leaves open whom the master polls next.

| Code | Action |
|---|---|
| `sendToken` in `Idle::decodeAction` | `Grant` |
| timeout in `WaitClientPacketDoneState` | `TokenTimeout` |
| `QueryAddressState`, its timeout | `Discover`, `QueryTimeout` |
| a new `Master` object | `Restart` |
| `PacketTypeCodec::rxRawPacket` on a client, and what the master does with the answer | `ClientReceives` |
| `TxQueue::msgHostTx_sendPacket` | `Host` |

Every client has a buffer of packets that have arrived and are not processed.
`Noise` names the types of packet that may be lost, for any subset of the
clients or for the master.  A request may also be lost because another client
without an address sends one at the same time (`Collides`): no client waits
before it asks again, so this may happen for ever.  With `Late` the timers of
the master expire whether or not the clients have reacted (`Settled`): a client
answers in the time of another, and the master, which looks at no source,
books the answer for the wrong one.  A new master may start at any moment, with
tokens, replies and requests of the old one on their way.

One thing is excluded unless `Bursts` is set: that a dynamic client misses four
tokens in a row through noise and its own delay (`LastToken`), after which the
master gives its address to another.  A client has no timeout for its address,
so the protocol has no defence.  Two variables are history: `speakers` has the
clients that have spoken since the last token was granted, `tardy` those that
still had an earlier token to answer at that moment (`Owing`).

### FrameCodec, SerialPort and SerialLink

`FrameCodec` has the decoder's state as a record; the operators `GetKW` ...
`GetFiller` are the cases of `decodeByte`.  Bytes have `LenBits + 1` bits: with
`LenBits = 2` the limit of one length byte is 4 instead of 128, the keyword is 5
and the filler 7.  `m_decodePacket` holds the bytes stored so far, so `m_index`
is its length.  A store behind the buffer is modelled as one that hits memory
nobody looks at.  `SerialPort` keeps what the system knows of a port: whether
bytes pass unchanged, modem lines, RS485 flags and the bytes not read yet.

`SerialLink` puts them on a wire: a node opens its port at any time, also within
a frame; senders, the node itself included, send one frame after another; bytes
wait in the port and are read a few at a time; noise alters, adds and takes away
bytes; a sender may end within a frame; a waiting master asks
`packetRxInProgress` every `PollPeriod`.  `gap`, `damage` and `trouble` are
history: time since the last read, altered data bytes in this frame, and whether
the receiver may be out of step.  A byte in the port carries the packet that it
completes if its frame is intact; the properties compare this with what the
decoder hands up.

### StateChart

One action is one call into user code, or one decision of the library between
two of them: `ProcessEvent` asks one state, `DoExit` and `DoEntry` run one
destructor or constructor, `PrepareTransition` starts a transition, `PopEvent`
ends an event.  `pc` says where the library is.  User code may request a
transition to any state that was added, and post an event while one is being
processed.  Events are numbered in the order in which they are posted.

### Timers

The subject is who keeps a watcher object alive: libev has plain pointers, users
have shared pointers and most objects refer to themselves.  `heap` has the
objects that exist, the ones that refer to themselves, the armed ones and what
libev knows; `Release` frees what nobody refers to.  A callback has two phases:
its user function runs, and then the wrapper finishes.  In the first phase, and
before the loop runs, users may do everything the classes offer.  libev is
external: a set of watchers becomes due in a round, and they are called one
after another.

### AddressCache, HostDrivers and SerialNet

`HostDrivers` has a node as a record and every call of a driver, of the transmit
queue and of the delivery in `PacketTypeCodec` as an operator from record to
record.  `SerialNet` runs programs: `Start` and its variants build a node from
options, the `...Readable` actions are the reads of the drivers, `Transmit` is
one packet on the bus with the set of nodes that hear it.  The packets
`master_started` and `master_ended` may be missed too, the latter even by the
node of the master that ends.  `Quit` runs the destructors.  `Die` does not, or
not to their end: the process is killed, an exception leaves the event loop, or
the interface cannot be taken down while the driver is destroyed.  `link` is the directory of links to ptys that
programs share, `device` the network interface of a host, which may outlive its
program.  The token protocol is left to `Network`: here a node sends at any
time, and a master gives any dynamic address to a node without one, also one
that another node still uses because it missed the start of the master.  Data has a
sender, and, for Ethernet, a destination and whether it is ARP; the MAC address
of a host is its name.  `had` is history: the addresses a host's node has had.

## 3. The runs

| Run | Instance | Shows |
|---|---|---|
| `master_safety` | one static and two dynamic addresses, three clients, lost grant and start echoes, time limit | nine invariants; running timers are not replaced; the master implements `TokenArbiter` |
| `master_liveness` | one static and one dynamic address, two clients, no lost echo | polling and queries go on for ever |
| `master_lost_grant` | a grant token is not heard back | nobody is polled again (finding) |
| `network_safety` | a static client, two clients for one dynamic address, all but discovery and start packet may be lost, late clients, one restart | addresses are unique and booked, and but for late clients only the one with the token speaks |
| `network_liveness` | two clients and two dynamic addresses, no noise but collisions, one restart | a client that need not compete for ever gets an address, its queue is served |
| `codec` | three packets of one to four bytes, three byte values from noise (zero, a long length, the keyword), every RTS option, client or waiting master | intact frames arrive in whatever pieces they are read, one bad byte is noticed, a silence brings a client back in step |
| `codec_zero_length` | noise makes a length 0 | a store behind the buffer (finding) |
| `statechart` | every chart of at most three states, four events, three requests | order of events, lifetimes of states, the last request decides, processing ends |
| `timers` | three watcher objects, two handles | no dangling pointer, cancelled timers stay silent, armed ones fire, objects are freed |
| `timers_service` | one timer | its object is freed while its callback runs (finding) |
| `serialnet` | a master and two clients, every mode of the program, four starts, one death | addresses are never invented, data reaches its host, interfaces and links follow their program |
| `serialnet_peers` | two programs with the same peer | a pty whose slave dies ends the program (finding) |

Bounds.  Three clients for two dynamic addresses make the stack run empty,
make a request fail and make an address be freed and reused; the delays differ
so that a token added later is due earlier; four misses in a row free a row.
Delays of one to three ticks give every order of the timers, because a timer
that has run down may fire at any later time.  Deadlock checking is off where a
lost echo, an abort or the time limit really stops the master.  Clients are
interchangeable, so `master_safety` uses their symmetry.

In the network two clients compete for one dynamic address, so a request is
refused and an address is dropped (its reply was lost, so its client misses all
tokens) and given to the other.  Two packets in a buffer let a client fall one
packet behind the wire, as for `address_reply` followed by `grant_token`, or
for the tokens of two addresses.  One restart is enough to have packets of an
old and a new master in the buffers.  `network_safety` sends no data
(`TxLimit = 0`): a token that is used and one that is returned are the same to
the addresses and to the master.  `network_liveness` sends data and leaves out
the static client.  The properties about addresses leave out clients that have
a `master_started` in their buffer: they are about to forget the address.

For the codec two frames and one byte of noise, or a port opened within the first
frame, give a frame that is disturbed and one that must arrive; the packets have
keywords in their data, and lengths below and at the limit of one length byte.
Reads take three bytes at most and four wait at most, so a frame is read in
pieces and two frames may share a read.  The program has 0.08 s between two
questions of a waiting master and a receive timeout of 0.1 s; one tick for both
keeps what matters, that no question comes later than the timeout.  Without a
bound on the frames an out-of-step decoder collects ever longer packets.

Three states give chains, siblings and several roots; with `NormLimit = 1`
instead of 20 four events reach the renormalization of the queue.  Deadlock
checking is off because a destroyed chart does nothing.  State ids are not
declared symmetric because the run has a liveness property.

Three watcher objects let a callback replace its own timer while a third one is
due in the same round.  The objects are never reused, so the loop ends; that is
why deadlock checking is off.

In `serialnet` the two clients can be started four times between them and the
master, so a program can be restarted after it died or was signalled, find the
interface or link it left behind, and get its old address or another one.  Two
reads of hosts are enough for a frame that teaches a cache an address and one
that uses it.  A queue of two packets takes the MAC update and the frame of one
ARP packet, and keeps a source address over a restart of the master.  The programs stop at the bounds, so deadlock is not checked.

Fairness.  `DecodeAction` is weakly fair: the chart runs to completion.  The
clock and the timer callbacks are strongly fair: the event loop serves every
expired timer, but a run-to-completion step in between disables the action for
a moment.  The echoes of the master's own packets are weakly fair when
`LostEchoes` is empty: this is the assumption the code itself makes.  Strong
fairness of the three timeouts that look at `packetRxInProgress` says that the
line is not busy at every one of them for ever.  No fairness is assumed of
clients.

In `Network` clients process their packets and the timers of the master expire
(weak fairness).  `Grant(a)` and `Discover` are strongly fair: every member is
polled and queries are repeated for ever, which is what `master_liveness`
shows.  Hosts and restarts have no fairness, and neither has the outcome of
colliding requests: the promise that all clients come to have an address fails
in `network_liveness`, where two clients may spoil each other's requests for
ever, and is not made.  There is no other noise in that run, and clients are in
time: a wire that loses everything serves nobody.

In `StateChart` the library is weakly fair, because it runs in the thread of its
caller and never waits; nobody has to post events.  In `Timers` user functions
return and libev calls what is due (weak fairness), and every timer is due in
the first round of the loop after its time, which is strong fairness because
the loop is not waiting all the time.  `SerialLink` and `SerialNet` have safety
properties only.

What the runs leave out on purpose.  With more noise the following happens too;
each is a hazard in PROJECT.json with its reason:

* a client whose id equals what the uninitialized id of a static row holds is
  given the static address (`GarbageUids`);
* a client that misses four tokens in a row keeps an address that the master
  gives to another, and both answer its token (`Bursts`);
* a client that does not hear `master_started` keeps its address, with the same
  outcome (`Noise` without it in `Network`; `SerialNet` lets it happen);
* a waiting master keeps a broken reception alive by asking for it, so
  `IntactFramesArrive` takes a silence as an end of trouble only for clients.

## 4. The proofs

Every safety property that a passing run checks is also proved for all values
of the constants, except those of `SerialLink`.  The bounds of the runs (posts,
requests, restarts, starts, deaths, lengths of queues) are constants like any
other: the theorems hold for every number.

### Master

`MasterProofs` proves `Spec => []Inv` for all constants that satisfy the three
assumptions of `Master` (static addresses below dynamic ones and neither range
empty, positive delays, some value for uninitialized memory).  `Inv` joins the
safety properties with what they need to be inductive:

* `Sorted(m_waiting)`: `WakesUpInTime` compares the delay timer with every
  waiting action but the code arms it from the first;
* no queue holds `do_nothing` (in `Distinct`): taking the first ready action
  must leave the handler with work;
* `TimerFollowsState`: the timer of the chart runs exactly outside Idle.  An
  action that ends at once (`DecodeOwnTokenEmpty`) leaves it off;
* `AbortsOnlyAtStart`, itself a property of the run: `reportActionResult` has
  no case for the timeout of the start packet, and that is the only assertion
  that can fail.  `MasterNeverAborts` is its corollary for a master that hears
  its start packet.

The properties support each other: `updateAddressLine` finds its row because of
`TokenForEveryLine` for the action under way; the new token is not yet queued
because of `ActionOnce`; an idle master has something to wait for because the
static rows stay (`AddressesConserved`) and have tokens.  The argument goes
through four lemmas: the queue operations keep membership, distinctness and
order (`MasterQueueProofs`); `CheckNewActionLemma` lifts them to
`checkNewAction`; `ResumeLemma` is the end of every handler that finishes an
action; `QuietStep` covers the steps that only move the chart.

`TimersSurvive` is an action property: the delay timer is armed only by a
handler that finds the master idle without work, in which case it had expired
or was off; the query timer only by the end of a query, during which it is off
(`QueryNeverLost`).

`MasterRefinement` proves that the master implements `TokenArbiter`.  Initial
states map to initial states, and each action of the master maps to one action
of the arbiter or to a stutter: `DecodeSendToken` to `Grant`, `RxGrantToken` to
`Confirm`, the answers to `Answer`, `TokenTimeoutExpires` to `Silence`,
`GrantTokenTimeoutExpires` to `Withdraw`, `RxAddressRequest` to `Join`.  Besides
`Inv` it needs `MissesInv`: a dynamic row has been missed fewer times than makes
the code remove it, so that the count the arbiter keeps never runs past its
patience, and a row found by `updateAddressLine` is the one whose token was out.

### The bus

`NetworkProofs` proves, for any set of clients and addresses, any length of the
buffers and any number of restarts, that addresses are unique and booked, and
that at most one client speaks per token, not counting clients that still had
an earlier token to answer when it was granted.  Clients may be as late as they
like and the master may restart at any moment.  Two hypotheses say what the
protocol cannot defend itself against, and each theorem names them:

* `TameNoise`: `master_started` is heard, and noise and delay together do not
  make a client miss four tokens in a row.  A client that misses either keeps
  an address that the master gives to another;
* `StaticAddressesDiffer`: no two clients are started with the same static
  address.  Nothing in the code looks for that.

`TypeSafety` needs neither.

`AddressesAreUnique` is not inductive: it says nothing of replies and tokens
under way.  `Inv` adds them.  `UnderWay`: an `address_reply` in a buffer names a
row that is booked for its client, if the master that sent it is still there
(`Fresh`: no `master_started` stands behind it), so a client that reads it gets
an address nobody else believes in.  `TokenInv`: clients that are not behind
have no other token before them than the last one, and whoever of them has
spoken was entitled to it.  `LastChance` is the heart of it: a token whose loss
would cost a client its address is the last packet before everybody who may
believe to have that address; when it times out, the buffers are empty and
nobody has the address, so the row can go without a client that still believes
in it.  An answer of a late client that is booked for this token only keeps the
row.  `Entitled` joins both kinds of address, and `EntitledUnique` is where
`StaticAddressesDiffer` is used.
### The state chart library

`StateChartProofs` proves what `push`, `pop` and `pop_back` of `VecQueue` do to
the elements that can still be taken, for every limit of the renormalization,
and from it `Spec => []DeliveredInOrder` for every chart and any number of
events.  The invariant adds the comment in the class (`Sound`) and that no more
events are handled than were posted.

`ChartProofs` proves the properties about states for every finite set of states
and every hierarchy over it, and that a transition leaves no state around its
target (`TargetPath`).  `ActiveInv` says at every moment, also between two
destructors of a transition, that the constructed objects are those of the active
states and that these form a chain of parents; `MoveInv` says that the states
that stay are a common beginning of both paths; `RestInv` and `RequestInv` tell
where a chart rests.  The path to a state is defined by recursion over parents.
That this recursion has a solution is a fact about the chart (it has no cycle
of parents) and not about the definition, so it is a part of the invariant
(`PathsEnd`), which `AddState` keeps because a new state has a parent that was
added before it, or none.  What the solution looks like follows by induction
over levels, written as the choice of a least counterexample (`LeastElement`),
because the induction rules of the library take an operator as a parameter and
cannot be used.  `StateAssumption` says that there are finitely many states: a
chart is built by calls of `addState`.

### Timers

`TimersProofs` proves, for any number of watcher objects and handles, that libev
never has a pointer to a freed object, that timers stay silent once they were
cancelled or have called their user, and that nothing but a cancelled timer of
`TimeServiceEv` is kept without need.  In `Inv`, `References` says who keeps
what: a registered or pending watcher keeps itself, and what neither keeps
itself nor is held by a user is gone.  `CallbackInv` is about the object whose
callback runs; it tells apart the two phases of a callback of `TimeServiceEv`,
which drops its own reference when the user function has returned.  That object
is the one the theorem `PointerSafety` leaves out and the run `timers_service`
shows to be freed too early.

### Programs, interfaces and links

`SerialNetProofs` proves the properties of `SerialNet` for any number of
programs, options, frames, starts and deaths.  A node is one record that many
operators change, so the argument is made in two steps.  `GoodNode(p, n, H)`
says what a record keeps to by itself, with `H` for the addresses nodes have or
had: the packets in its queue have sources of its own, frames for a host name an
address of that host, its cache knows addresses of hosts and has one row for
each, the driver that listens is that of the mode, and the pty is watched unless
it is to be reopened.  There is a lemma for each operator of `AddressCache` and
`HostDrivers` (`SetAddressGood`, `GetLocalAddressRight`, `TapDoReadGood`,
`SetOwnAddressGood`, ...), and `NodeMonotone`: what is good stays good when
other nodes get further addresses.  `InvKept` then adds the interfaces, for any
step that leaves all nodes good; only a process that is counted as dead may
leave its interface up.

`DataSafety` needs that no address is the broadcast address: a frame for one
host is never sent to all.  `InterfaceSafety`, `AddressSafety` and `DataSafety`
have no hypotheses.  `LinkSafety` and `SlaveDeathSafety` assume `PeersDiffer`:
no two programs use pseudo terminals for the same peer.  This is the boundary
of the finding: the run `serialnet_peers` shows that two programs with one peer
can end each other, and the theorem that nothing else makes a program end when
its slave side dies.

Assumptions on the constants of `SerialNet`: bounds are numbers, options have
the types of the option parser, frames have a host as their source and a host or
all as their destination, the master hands out neither the null nor the broadcast
address, and no IP address that hosts send to ends in the null address.

### What is only model-checked

Liveness (`EveryLineIsPolled`, `QueriesForever`, and those of `Network`,
`StateChart` and `Timers`): the prover has no rules for fairness and ENABLED.
`FrameCodec`, `SerialPort` and `SerialLink`: they reach `Bitwise`, which the
prover cannot use, and what the decoder makes of a frame is a fact about data of
any length.  The findings: a violation is a behaviour, which TLC shows.

## 5. Plan

Done: all components that keep protocol state, and proofs of all safety
properties outside `SerialLink`.  What would add most now:

1. The receive timeout composed with the polling states of the master.
2. The bus on top of `Master` itself instead of the arbiter it implements.

## 6. Not modelled

Byte layout of packets, logging, the Wireshark dump, the syntax of options, the
requests that configure a device, and the POSIX wrappers other than `PosixFd`:
I/O without protocol state.  The MQTT drivers are stubs that no mode uses.
`TimeServiceSim` and the fakes are test support.  `TunProtocol::doRead` is
called by nobody.  The order in which C++ destroys the master's members when
its time limit ends, the bytes behind a short buffer, and the time that user
commands take are outside the models; they are listed as hazards.

Weak points of the code that the models show only by their text, and that are
not listed as hazards because no state tells them apart: a transition to a state
that was never added makes `prepareTransition` loop for ever (StateChart.cpp:49);
an event posted by a constructor while the chart starts is processed in the
middle of the start (StateChart.h:316); a long length makes the decoder ask for
any amount of memory (FrameCodec.cpp:123); the end of standard input makes the
loop spin (StdioRawHostDriver.cpp:76); `peer_address` has the default 0, so the
broadcast branch of SNConfig.cpp:155 is never taken; `endwithmaster` is not read
(SerialNet.cpp:160); the result of `TIOCMSET` is not stored
(PosixSerialUtils.cpp:57); user commands block the loop (TapHostDriver.cpp:88);
the transmit queue has no limit (TxQueue.cpp:50); static addresses are accepted
up to 32 and polled up to `staticHighAddress` (Config.h:57).
