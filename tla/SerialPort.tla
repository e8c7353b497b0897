----------------------------- MODULE SerialPort -----------------------------
(***************************************************************************)
(* The serial port of a node: SerialByteEther and PosixSerialUtils         *)
(* (src/src/drivers/serial).  A port is a record of what the system keeps  *)
(* for it: whether it passes bytes unchanged (termios), the modem lines    *)
(* that are asserted, the flags of its RS485 mode, and the bytes that have *)
(* arrived and are not read.                                               *)
(***************************************************************************)
EXTENDS Integers, Sequences

CONSTANT ReadBufSize      \* bytes that one read takes at most

RtsOptions == {"None", "pulldown", "rs485_te"}

(* SNConfig::toOption: a word that is not known means None.                *)
ToOption(word) == IF word \in RtsOptions THEN word ELSE "None"

Closed == [open |-> FALSE, raw |-> FALSE, lines |-> {}, rs485 |-> {},
           fifo |-> <<>>]

(* The system asserts the modem lines when it opens a port.                *)
Open == [Closed EXCEPT !.open = TRUE, !.lines = {"DTR", "RTS"}]

(* PosixSerialUtils *)
Set8N1Termios(port) == [port EXCEPT !.raw = TRUE]

SetRTS(port, state) ==
  [port EXCEPT !.lines = IF state = "asserted" THEN @ \cup {"RTS"}
                         ELSE @ \ {"RTS"}]

SetRS485Mode(port, enable, rxEnabledDuringTx, duringTx, afterTx) ==
  [port EXCEPT !.rs485 =
     IF ~enable THEN {}
     ELSE {"ENABLED"}
          \cup (IF rxEnabledDuringTx THEN {"RX_DURING_TX"} ELSE {})
          \cup (IF duringTx = "asserted" THEN {"RTS_ON_SEND"} ELSE {})
          \cup (IF afterTx = "asserted" THEN {"RTS_AFTER_SEND"} ELSE {})]

(* SerialByteEther::setup *)
Setup == Set8N1Termios(Open)

(* The bytes that arrive while setupRts waits, one of them caused by the   *)
(* change of RTS; up to four are read and forgotten.                       *)
Settle(port, arrived) ==
  LET all == port.fifo \o arrived
  IN  [port EXCEPT !.fifo = SubSeq(all, 5, Len(all))]

(* SerialByteEther::setupRts, with the bytes that arrive during the wait.  *)
SetupRts(port, rts, arrived) ==
  CASE rts = "None" -> port
    [] rts = "pulldown" -> Settle(SetRTS(port, "negated"), arrived)
    [] rts = "rs485_te" ->
         SetRS485Mode(port, TRUE, TRUE, "asserted", "negated")

(* A line driver that is enabled by RTS: whether the bytes of the node     *)
(* itself, or of another one, reach its receiver.                          *)
Hears(port, own) ==
  "ENABLED" \in port.rs485 =>
    IF own THEN {"RX_DURING_TX", "RTS_ON_SEND"} \subseteq port.rs485
    ELSE "RTS_AFTER_SEND" \notin port.rs485

(* The bytes that readSerial passes on, and the port after it.             *)
ReadSize(port) ==
  IF Len(port.fifo) <= ReadBufSize THEN Len(port.fifo) ELSE ReadBufSize

ReadSerial(port) == SubSeq(port.fifo, 1, ReadSize(port))

AfterRead(port) ==
  [port EXCEPT !.fifo = SubSeq(@, ReadSize(port) + 1, Len(@))]
=============================================================================
