-------------------------- MODULE MCChronyFixture ---------------------------
(***************************************************************************)
(* Three backend objects: b1 and b2 share connector, subnet and default,   *)
(* b2 without mutating_allowed; b3 serves another subnet and starts        *)
(* applied.                                                                *)
(***************************************************************************)
EXTENDS ChronyFixture

CONSTANTS b1, b2, b3, lanA, lanB, chrony

MCBackends == {b1, b2, b3}
MCNameOf == [b \in MCBackends |-> chrony]
MCSubnetOf == [b \in MCBackends |-> IF b = b3 THEN lanB ELSE lanA]
MCDefaultOf == [b \in MCBackends |-> b = b3]
MCAllowedOf == [b \in MCBackends |-> b # b2]

ASSUME DefaultsAgree == UniformDefaults
=============================================================================
