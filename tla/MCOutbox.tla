------------------------------ MODULE MCOutbox ------------------------------
(* One transaction that writes two events and one that writes one.          *)
EXTENDS Outbox

CONSTANTS e1, e2, e3, t1, t2
Events == {e1, e2, e3}
Txns == {t1, t2}
WriterOf == [e \in Events |-> IF e = e3 THEN t2 ELSE t1]
=============================================================================
