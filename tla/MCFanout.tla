------------------------------ MODULE MCFanout ------------------------------
(* Small scene sets for TLC: a card between two illustrations.             *)
EXTENDS Fanout, TLC

Indexed == [x \in Scene |-> CASE x = "a" -> 1 [] x = "card" -> 2 [] x = "b" -> 3
                              [] OTHER -> 1]
TwoSets == <<{"a", "card", "b"}, {"c"}>>

Interchangeable == Permutations(Job) \cup Permutations(Worker)
=============================================================================
