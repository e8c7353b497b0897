----------------------------- MODULE AddressLine -----------------------------
(***************************************************************************)
(* One row of the master's address table (src/master/AddressLine.h).       *)
(***************************************************************************)
EXTENDS Integers

LineState == {"active", "idle", "badClient", "free"}

(* m_badCount is only ever compared with 3 and reset to 0, so it is counted *)
(* no further than this.                                                    *)
BadCountCap == 4

(* The row of a static address.  Its m_uniqueId is never initialized: uid   *)
(* is whatever the memory held.                                             *)
StaticLine(uid) ==
  [state |-> "free", badCount |-> 0, dynamic |-> FALSE, uid |-> uid]

DynamicLine(uid) ==
  [state |-> "idle", badCount |-> 0, dynamic |-> TRUE, uid |-> uid]

(* Mutant: a returned token does not clear the count. *)
BadCountKeptOnReturn(line, state) ==
  IF state = "active" THEN 0
  ELSE IF state = "badClient" /\ line.badCount < BadCountCap
  THEN line.badCount + 1 ELSE line.badCount

BadCountAfter(line, state) ==
  IF state # "badClient" THEN 0
  ELSE IF line.badCount < BadCountCap THEN line.badCount + 1
  ELSE line.badCount

SetState(line, state) ==
  LET badCount == BadCountAfter(line, state)
  IN  [state |-> IF badCount > 3 THEN "free" ELSE state,
       badCount |-> badCount,
       dynamic |-> line.dynamic,
       uid |-> line.uid]

(* Mutant: static rows are removed too. *)
RemoveAny(line) == line.state = "free"

RemoveDynamic(line) == line.dynamic /\ line.state = "free"
=============================================================================
