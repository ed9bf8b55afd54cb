---------------------------- MODULE EventChannel ----------------------------
(***************************************************************************)
(* The promise of the outbox: only what committed is announced, every      *)
(* announced event is delivered at least once, and an event that is        *)
(* settled is not delivered again.                                         *)
(***************************************************************************)
EXTENDS Naturals

CONSTANT Event

VARIABLES announced,   \* events whose transaction has committed
          settled,     \* events nobody will deliver any more
          deliveries   \* how often each event reached the channel

vars == <<announced, settled, deliveries>>

Init ==
    /\ announced = {}
    /\ settled = {}
    /\ deliveries = [e \in Event |-> 0]

Announce(E) ==
    /\ announced' = announced \cup E
    /\ UNCHANGED <<settled, deliveries>>

Deliver(e) ==
    /\ e \in announced \ settled
    /\ deliveries' = [deliveries EXCEPT ![e] = @ + 1]
    /\ UNCHANGED <<announced, settled>>

Settle(E) ==
    /\ \A e \in E : e \in announced /\ deliveries[e] > 0
    /\ settled' = settled \cup E
    /\ UNCHANGED <<announced, deliveries>>

Next ==
    \/ \E E \in SUBSET Event : Announce(E) \/ Settle(E)
    \/ \E e \in Event : Deliver(e)

Spec == Init /\ [][Next]_vars
=============================================================================
