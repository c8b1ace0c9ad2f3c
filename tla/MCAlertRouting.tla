--------------------------- MODULE MCAlertRouting ---------------------------
(***************************************************************************)
(* Small instances of AlertRouting: two problems, one of which the         *)
(* collector reports as two events (e1 and e3 have the same key).          *)
(***************************************************************************)
EXTENDS AlertRouting

CONSTANTS e1, e2, e3, k1, k2

MCEvents == {e1, e2, e3}
MCKeys == {k1, k2}
MCKeyOf == [e \in MCEvents |-> IF e = e2 THEN k2 ELSE k1]
MCBatches == {<<e1, e2, e3>>, <<e3, e1>>, <<e2>>}
SmallBatches == {<<e1>>, <<e2>>}

=============================================================================
