---------------------------- MODULE ChronySwitch ----------------------------
(***************************************************************************)
(* What the chrony fixture promises its callers: per key, one switch that  *)
(* is read, turned on and turned off atomically, whatever backend object   *)
(* and whatever thread the call goes through.  An answer carries the state *)
(* of the switch before and after the call.                                *)
(***************************************************************************)
CONSTANTS Callers, Keys, Default   \* Default: Keys -> BOOLEAN

VARIABLES applied,  \* Keys -> BOOLEAN
          answer    \* Callers -> an answer not yet picked up, or NoAnswer

NoAnswer == [kind |-> "none"]
Observed(was) == [kind |-> "observed", state |-> was]
Changed(was, is) == [kind |-> "changed", before |-> was, after |-> is]

Init == /\ applied = Default
        /\ answer = [c \in Callers |-> NoAnswer]

Read(c, k) == /\ answer[c] = NoAnswer
              /\ answer' = [answer EXCEPT ![c] = Observed(applied[k])]
              /\ UNCHANGED applied

Turn(c, k, on) == /\ answer[c] = NoAnswer
                  /\ answer' = [answer EXCEPT ![c] = Changed(applied[k], on)]
                  /\ applied' = [applied EXCEPT ![k] = on]

PickUp(c) == /\ answer[c] # NoAnswer
             /\ answer' = [answer EXCEPT ![c] = NoAnswer]
             /\ UNCHANGED applied

Reset == /\ applied' = Default
         /\ UNCHANGED answer

Next == \/ \E c \in Callers, k \in Keys : Read(c, k) \/ \E on \in BOOLEAN : Turn(c, k, on)
        \/ \E c \in Callers : PickUp(c)
        \/ Reset

Spec == Init /\ [][Next]_<<applied, answer>>
=============================================================================
