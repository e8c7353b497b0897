---------------------------- MODULE TokenArbiter ----------------------------
(***************************************************************************)
(* What the master promises to the nodes of the bus, with no scheduler, no *)
(* timers and no packets: the token is with one address at a time, only an *)
(* address that is a member is given the token, an address has one owner   *)
(* at a time, a token that reached the wire is answered or counted as      *)
(* missed, and a dynamic member is dropped only after it has left Patience *)
(* tokens in a row unanswered.                                             *)
(***************************************************************************)
EXTENDS Integers

CONSTANTS
  Static,        \* addresses that are always members
  Dynamic,       \* addresses that clients are given
  Uid,           \* clients, and what a static address has for one
  NoOne,         \* no address
  Patience       \* unanswered tokens in a row until a client is dropped

VARIABLES
  holder,        \* the address that has the token, or NoOne
  onWire,        \* the token is known to have reached the wire
  owner,         \* the client of every member address
  misses         \* tokens left unanswered in a row, per address

vars == <<holder, onWire, owner, misses>>

Address == Static \cup Dynamic

Init ==
  /\ holder = NoOne
  /\ onWire = FALSE
  /\ owner \in [Static -> Uid]
  /\ misses = [a \in Address |-> 0]

Grant(a) ==
  /\ holder = NoOne
  /\ a \in DOMAIN owner
  /\ holder' = a
  /\ onWire' \in BOOLEAN
  /\ UNCHANGED <<owner, misses>>

Confirm ==
  /\ holder # NoOne
  /\ onWire' = TRUE
  /\ UNCHANGED <<holder, owner, misses>>

(* The member used the token or gave it back.  The master's own client may *)
(* decline without ever being granted it.                                  *)
Answer(a) ==
  /\ holder = NoOne \/ (holder = a /\ onWire)
  /\ a \in DOMAIN owner
  /\ holder' = NoOne
  /\ onWire' = FALSE
  /\ misses' = [misses EXCEPT ![a] = 0]
  /\ UNCHANGED owner

Silence(a) ==
  /\ holder = a
  /\ onWire
  /\ a \in DOMAIN owner
  /\ holder' = NoOne
  /\ onWire' = FALSE
  /\ \/ /\ misses[a] + 1 < Patience \/ a \in Static
        /\ misses' = [misses EXCEPT
                        ![a] = IF @ < Patience THEN @ + 1 ELSE @]
        /\ UNCHANGED owner
     \/ /\ misses[a] + 1 = Patience
        /\ a \in Dynamic
        /\ misses' = [misses EXCEPT ![a] = 0]
        /\ owner' = [b \in DOMAIN owner \ {a} |-> owner[b]]

(* The grant never made it to the wire. *)
Withdraw ==
  /\ holder # NoOne
  /\ ~onWire
  /\ holder' = NoOne
  /\ UNCHANGED <<onWire, owner, misses>>

Join(uid, a) ==
  /\ holder = NoOne
  /\ a \in Dynamic \ DOMAIN owner
  /\ \A b \in DOMAIN owner : owner[b] # uid
  /\ owner' = [b \in DOMAIN owner \cup {a} |->
                 IF b = a THEN uid ELSE owner[b]]
  /\ UNCHANGED <<holder, onWire, misses>>

Next ==
  \/ \E a \in Address : Grant(a) \/ Answer(a) \/ Silence(a)
  \/ Confirm
  \/ Withdraw
  \/ \E uid \in Uid, a \in Dynamic : Join(uid, a)

Spec == Init /\ [][Next]_vars
=============================================================================
