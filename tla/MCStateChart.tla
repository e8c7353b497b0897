---------------------------- MODULE MCStateChart ----------------------------
(* The state chart library over every chart with at most three states.     *)
EXTENDS StateChart

CONSTANTS s1, s2, s3
=============================================================================
