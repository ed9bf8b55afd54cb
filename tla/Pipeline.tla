------------------------------ MODULE Pipeline ------------------------------
(***************************************************************************)
(* The stage graph of pipeline.py as pure operators.  A graph is the       *)
(* function `requires' from the kinds the stages produce to the sets of    *)
(* kinds they need; DOMAIN requires is the set of produced kinds.  The     *)
(* operators say what each query answers; PipelineLoader runs the loops    *)
(* that compute the topological order and the descendants.                 *)
(***************************************************************************)
EXTENDS Naturals, Sequences

(* Pipeline.dependents. *)
Dependents(requires, k) == {c \in DOMAIN requires : k \in requires[c]}

(* A set of kinds that contains the dependents of each of its members. *)
IsClosed(requires, S) == \A d \in S : Dependents(requires, d) \subseteq S

(* Pipeline.descendants: the least closed set with the dependents of k.    *)
Descendants(requires, k) ==
    {c \in DOMAIN requires :
        \A S \in SUBSET DOMAIN requires :
            IsClosed(requires, S) /\ Dependents(requires, k) \subseteq S => c \in S}

(* A set of stages each of which waits for another of them: none of them   *)
(* can ever run.  A finite graph has one exactly when it has a cycle.      *)
IsStuck(requires, S) == S # {} /\ \A k \in S : requires[k] \cap S # {}
Cyclic(requires) == \E S \in SUBSET DOMAIN requires : IsStuck(requires, S)

(* Pipeline.unmet; empty means that the stage may run. *)
Unmet(requires, k, approved) == requires[k] \ approved

(* The least advanced state of a non-empty set of artifact states, which   *)
(* is the state of the kind they belong to (_states, _RANK).               *)
Advancement == <<"FAILED", "PENDING", "GENERATING", "REJECTED",
                 "AWAITING_APPROVAL", "APPROVED">>
LeastAdvanced(states) ==
    LET first == CHOOSE i \in DOMAIN Advancement :
                    /\ Advancement[i] \in states
                    /\ \A j \in 1..(i - 1) : Advancement[j] \notin states
    IN  Advancement[first]

(* derive_phase.  `order' is Pipeline.stages, `states' gives the state of  *)
(* every kind that has an artifact, and a phase is the pair of the stage   *)
(* it belongs to and which of the stage's two phases it is.                *)
Draft == <<"project", "draft">>
FirstIn(order, S) == order[CHOOSE i \in DOMAIN order :
                        order[i] \in S /\ \A j \in 1..(i - 1) : order[j] \notin S]
DerivePhase(order, states) ==
    LET kinds      == {order[i] : i \in DOMAIN order}
        generating == {k \in kinds \cap DOMAIN states : states[k] = "GENERATING"}
        unfinished == {k \in kinds : k \in DOMAIN states => states[k] # "APPROVED"}
        blocking   == FirstIn(order, unfinished)
    IN  CASE DOMAIN states = {} -> Draft
          [] DOMAIN states # {} /\ generating # {} ->
                <<FirstIn(order, generating), "generating">>
          [] DOMAIN states # {} /\ generating = {} /\ unfinished = {} ->
                <<order[Len(order)], "review">>
          [] OTHER ->
                <<blocking, IF blocking \in DOMAIN states /\ states[blocking] # "PENDING"
                            THEN "review" ELSE "generating">>
=============================================================================
