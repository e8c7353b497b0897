------------------------------ MODULE MCNetwork ------------------------------
(***************************************************************************)
(* Instances of Network for TLC: s has a static address and is not there   *)
(* in the second, d1 and d2 ask for theirs.                                *)
(***************************************************************************)
EXTENDS Network, TLC

CONSTANTS s, d1, d2

StaticAndDynamic == [c \in {s, d1, d2} |-> IF c = s THEN 1 ELSE 0]

AllDynamic == [c \in {d1, d2} |-> 0]

DynamicSymmetry == Permutations({d1, d2})
=============================================================================
