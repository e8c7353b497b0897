----------------------------- MODULE SerialLink -----------------------------
(***************************************************************************)
(* The receiving end of the wire: serial port, MsgToByteAdapter and        *)
(* FrameCodec of one node, with the senders, noise and time.  A node opens *)
(* its port at any time, also within a frame; bytes wait in the port until *)
(* the event loop reads them, a few at a time.                             *)
(***************************************************************************)
EXTENDS FrameCodec, SerialPort

CONSTANTS
  Packets,       \* packets that are sent
  Rts,           \* the words for RTS that a node may be started with
  RxTimeout,     \* a reception that pauses for longer is given up
  PollPeriod,    \* a waiting master asks packetRxInProgress that often
  Roles,         \* whether the receiver may be a waiting master
  NoiseBytes,    \* values that noise produces
  FrameLimit,    \* bound: frames that are sent
  FifoLimit,     \* bound: bytes that wait in the port
  NoiseLimit     \* bound: bytes that noise alters, adds or takes away

ASSUME LinkAssumption ==
  /\ \A p \in Packets : p \in Seq(Byte) /\ Len(p) \in 1 .. More * More - 1
  /\ RxTimeout \in Nat /\ PollPeriod \in Nat \ {0}
  /\ Roles \subseteq BOOLEAN
  /\ NoiseBytes \subseteq Byte

VARIABLES
  codec,         \* the decoder; delivered: what the last step handed up
  sinceUpdate,   \* time since m_lastUpdate
  waiting,       \* the receiver is a waiting master
  pollTimer,     \* time until the master asks again
  port,          \* the serial port; a byte in its fifo is a record with the
                 \* packets it completes
  packet,        \* the packet that is or was sent last
  own,           \* the receiver sends it
  line,          \* the bytes of its frame still to come
  frames,        \* frames sent so far
  gap,           \* time since the last read
  noise,         \* bytes that noise has touched so far
  damage,        \* altered data or checksum bytes in this frame
  trouble        \* noise may have put the receiver out of step

wireVars == <<packet, own, line, frames, noise, damage>>
vars == <<codec, sinceUpdate, waiting, pollTimer, port, wireVars, gap, trouble>>

(* Time is told apart up to here. *)
Late == RxTimeout + 1
Older(t) == IF t < Late THEN t + 1 ELSE t

Init ==
  /\ codec = NewCodec
  /\ sinceUpdate = 0 /\ gap = 0
  /\ waiting \in Roles /\ pollTimer = PollPeriod
  /\ port = Closed
  /\ packet = CHOOSE p \in Packets : TRUE
  /\ own = FALSE
  /\ line = <<>>
  /\ frames = 0
  /\ noise = 0 /\ damage = 0 /\ trouble = FALSE

Silent == [codec EXCEPT !.delivered = <<>>]
-----------------------------------------------------------------------------
(* MsgToByteAdapter and the serial port. *)

(* Mutant: a reception is never given up. *)
NeverTimesOut == Silent

(* checkTimeout: the decoder after it. *)
CheckTimeout ==
  IF RxInProgress(codec) /\ sinceUpdate > RxTimeout THEN Reset(Silent)
  ELSE Silent

(* setByteIf: the decoder starts afresh with the new port. *)
SetByteIf == Reset(Silent)

(* The byte of a frame or of noise without the packets it completes. *)
Plain(b) == [byte |-> b, completes |-> {}]

(* SerialNet::start: the port is set up, with RTS when n more bytes of the *)
(* frame on the wire and a ghost byte arrive during the wait, and is read  *)
(* from now on.  A frame that has begun is not received.                   *)
OpenPort(word, ghost, n) ==
  LET rts == ToOption(word) IN
  /\ ~port.open
  /\ n \in 0 .. Len(line)
  /\ rts # "pulldown" => n = 0 /\ ghost = Keyword
  /\ LET arrived == <<Plain(ghost)>> \o [i \in 1 .. n |-> Plain(line[i])]
     IN  port' = SetupRts(Setup, rts, arrived)
  /\ line' = SubSeq(line, n + 1, Len(line))
  /\ trouble' = (trouble \/ line # <<>>)
  /\ codec' = SetByteIf
  /\ UNCHANGED <<sinceUpdate, waiting, pollTimer, packet, own, frames, noise,
                 damage, gap>>

(* registerReadCB: the event loop is told of bytes to read. *)
Readable == port.open /\ port.fifo # <<>>

(* readSerial, receiveBytes: one question for the time, whatever the       *)
(* number of bytes.                                                        *)
ReceiveBytes ==
  /\ Readable
  /\ LET bytes == ReadSerial(port)
     IN  codec' = ReceiveData(CheckTimeout, [i \in DOMAIN bytes |-> bytes[i].byte])
  /\ port' = AfterRead(port)
  /\ sinceUpdate' = 0
  /\ gap' = 0
  /\ UNCHANGED <<waiting, pollTimer, wireVars, trouble>>

(* The question itself refreshes m_lastUpdate. *)
PacketRxInProgress ==
  /\ waiting /\ pollTimer = 0
  /\ pollTimer' = PollPeriod
  /\ codec' = CheckTimeout
  /\ sinceUpdate' = IF RxInProgress(codec) THEN 0 ELSE sinceUpdate
  /\ UNCHANGED <<wireVars, port, gap, waiting, trouble>>
-----------------------------------------------------------------------------
(* Senders, the wire and time. *)

(* sendMsg, of this node (self) or another one.  A frame that comes after  *)
(* a long enough silence starts afresh, at least where no master asks all  *)
(* the time.                                                               *)
SendMsg(p, self) ==
  /\ line = <<>>
  /\ frames < FrameLimit
  /\ self => port.open
  /\ frames' = frames + 1
  /\ packet' = p
  /\ own' = self
  /\ line' = EncodePacket(p)
  /\ damage' = 0
  /\ trouble' = (trouble /\ (gap <= RxTimeout \/ waiting \/ port.fifo # <<>>))
  /\ codec' = Silent
  /\ UNCHANGED <<noise, port, sinceUpdate, waiting, pollTimer, gap>>

(* A byte reaches the port, if that is open and listens.                   *)
Arrives(b, completes) ==
  IF port.open /\ Hears(port, own)
  THEN /\ Len(port.fifo) < FifoLimit
       /\ port' = [port EXCEPT !.fifo =
            Append(@, [byte |-> IF port.raw THEN b ELSE 0,
                       completes |-> completes])]
  ELSE UNCHANGED port

Quiet == codec' = Silent /\ UNCHANGED <<sinceUpdate, waiting, pollTimer, gap>>

(* What the last byte of a frame completes: the frame is intact.           *)
Completes == IF Len(line) = 1 /\ damage = 0 THEN {packet} ELSE {}

Transmit ==
  /\ line # <<>>
  /\ Arrives(Head(line), Completes)
  /\ line' = Tail(line)
  /\ trouble' = (trouble \/ ~port.open)
  /\ Quiet
  /\ UNCHANGED <<packet, own, frames, noise, damage>>

(* The next byte is one of the data or the checksum; the filler comes last. *)
InBody == Len(line) \in 2 .. Len(packet) + 1

Noisy == noise < NoiseLimit /\ noise' = noise + 1

(* Two bad bytes may cancel each other out.                                *)
Alter(b) ==
  /\ line # <<>> /\ b # Head(line)
  /\ port.open
  /\ Noisy
  /\ Arrives(b, Completes)
  /\ line' = Tail(line)
  /\ damage' = IF InBody THEN damage + 1 ELSE damage
  /\ trouble' = (trouble \/ Len(line) > Len(packet) + 1 \/ damage' > 1)
  /\ Quiet
  /\ UNCHANGED <<packet, own, frames>>

Lose ==
  /\ line # <<>>
  /\ port.open
  /\ Noisy
  /\ line' = Tail(line)
  /\ trouble' = TRUE
  /\ Quiet
  /\ UNCHANGED <<packet, own, frames, damage, port>>

Add(b) ==
  /\ line = <<>>
  /\ port.open
  /\ Noisy
  /\ Arrives(b, {})
  /\ trouble' = TRUE
  /\ Quiet
  /\ UNCHANGED <<packet, own, line, frames, damage>>

(* sendBytes of the sender cannot write all bytes: its process ends.       *)
SendBytesFails ==
  /\ line # <<>> /\ ~own
  /\ Noisy
  /\ line' = <<>>
  /\ trouble' = TRUE
  /\ Quiet
  /\ UNCHANGED <<packet, own, frames, damage, port>>

(* A sender does not pause for long within a frame.  The event loop may be *)
(* late; if it is too late, the rest of a frame that has begun is lost.    *)
Tick ==
  /\ line # <<>> => gap < RxTimeout \/ port.fifo # <<>>
  /\ waiting => pollTimer > 0
  /\ pollTimer' = IF waiting THEN pollTimer - 1 ELSE pollTimer
  /\ sinceUpdate' = Older(sinceUpdate)
  /\ gap' = Older(gap)
  /\ trouble' = \/ trouble
                \/ gap' > RxTimeout /\ port.fifo # <<>> /\ RxInProgress(codec)
  /\ codec' = Silent
  /\ UNCHANGED <<wireVars, port, waiting>>

Next ==
  \/ \E word \in Rts, ghost \in NoiseBytes, n \in 0 .. Len(line) :
       OpenPort(word, ghost, n)
  \/ \E p \in Packets, self \in BOOLEAN : SendMsg(p, self)
  \/ Transmit
  \/ \E b \in NoiseBytes : Alter(b) \/ Add(b)
  \/ Lose \/ SendBytesFails
  \/ ReceiveBytes
  \/ PacketRxInProgress
  \/ Tick

Spec == Init /\ [][Next]_vars

-----------------------------------------------------------------------------
(***************************************************************************)
(* Properties.                                                             *)
(***************************************************************************)

(* The packets that the bytes of the next read complete.                   *)
Owed == UNION {ReadSerial(port)[i].completes : i \in 1 .. ReadSize(port)}

Delivered == {codec'.delivered[i] : i \in DOMAIN codec'.delivered}

(* A frame that is not touched by noise is decoded to the packet it was     *)
(* made from, by the read that takes its last byte (readSerial,             *)
(* receiveBytes, decodeByte), whatever pieces it is read in, whoever sends  *)
(* it, the node itself included, also if the frame before it had a bad      *)
(* checksum, with the ghost byte of setupRts out of the way, and, where no  *)
(* master asks for packetRxInProgress, whatever noise, frame joined late or *)
(* frame cut short came before a silence of more than RxTimeout.            *)
IntactFramesArrive ==
  [][~trouble /\ Len(port'.fifo) < Len(port.fifo) => Owed \subseteq Delivered]_vars

(* Nothing else is handed up: one altered byte of data or checksum and the  *)
(* packet is thrown away (FrameCodec.cpp:145).                              *)
OneBadByteIsRejected ==
  [][~trouble /\ codec'.delivered # <<>> => Delivered \subseteq Owed]_vars

(* The decoder never stores a byte behind the end of the packet it has      *)
(* allocated: FrameCodec.h:36 makes it "Responsible for encoding and        *)
(* decoding the frame format", and the encoder makes frames of length 0.    *)
StoresInBounds ==
  codec.m_state = "getData" => Len(codec.m_decodePacket) < codec.m_length
=============================================================================
