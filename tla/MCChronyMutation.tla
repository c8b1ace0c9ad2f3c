-------------------------- MODULE MCChronyMutation --------------------------
(***************************************************************************)
(* Two operations for two subnets on one host.                             *)
(***************************************************************************)
EXTENDS ChronyMutation

CONSTANTS o1, o2, lanA, lanB

MCSubnetOf == [o \in {o1, o2} |-> IF o = o1 THEN lanA ELSE lanB]
=============================================================================
