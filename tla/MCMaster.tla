------------------------------ MODULE MCMaster ------------------------------
(***************************************************************************)
(* Instances of Master for TLC.  Clients are model values; noUid is a      *)
(* value of uninitialized memory that is no client's unique id.            *)
(***************************************************************************)
EXTENDS Master, TLC

CONSTANTS u1, u2, u3, noUid

TwoClients == {u1, u2}
ThreeClients == {u1, u2, u3}

(* Clients differ in nothing but their id. *)
ClientSymmetry == Permutations(ThreeClients)
=============================================================================
