--------------------------- MODULE PipelineLoader ---------------------------
(***************************************************************************)
(* Loading a pipeline declaration, and the question the staleness cascade  *)
(* asks of it: Pipeline.from_mapping with its three structural checks,     *)
(* _topological_order (Kahn's algorithm, in sorted batches), and the       *)
(* worklist of Pipeline.descendants, one loop iteration per step.          *)
(*                                                                         *)
(* A kind is a number, and numbers compare as the kinds' string values do. *)
(* A stage is what it produces and what it requires; its queue and its     *)
(* phases are left out, and so are their syntax checks.                    *)
(***************************************************************************)
EXTENDS Pipeline

CONSTANTS
    Kind,         \* the artifact kinds
    Declaration   \* the declarations to load: sequences of stages

Stage == [produces : Kind, requires : SUBSET Kind]

ASSUME KindAssumption == Kind \subseteq Nat
ASSUME DeclarationAssumption == \A d \in Declaration : d \in Seq(Stage)

VARIABLES
    declared,   \* the declaration being loaded
    verdict,    \* how far the load is, or how it ended
    remaining,  \* _topological_order's remaining: kind -> unplaced requirements
    ready,      \* its ready: the batch being placed
    ordered,    \* its ordered: the kinds placed so far
    asked,      \* the kinds descendants() was asked about, at most one
    found,      \* its found
    frontier    \* its frontier

loading == <<declared, verdict, remaining, ready, ordered>>
asking == <<asked, found, frontier>>
vars == <<declared, verdict, remaining, ready, ordered, asked, found, frontier>>

Produced == {declared[i].produces : i \in DOMAIN declared}

(* _by_kind, as the function from a kind to what its stage requires. *)
Requires == [k \in Produced |->
                UNION {declared[i].requires : i \in {j \in DOMAIN declared :
                                                        declared[j].produces = k}}]

Init == /\ declared \in Declaration
        /\ verdict = "declared"
        /\ remaining = <<>>
        /\ ready = {}
        /\ ordered = <<>>
        /\ asked = {} /\ found = {} /\ frontier = {}
-----------------------------------------------------------------------------
(* from_mapping's structural checks. *)
RequiresItself == \E i \in DOMAIN declared : declared[i].produces \in declared[i].requires
ProducedTwice == \E i, j \in DOMAIN declared :
                    i # j /\ declared[i].produces = declared[j].produces
Dangles == \E i \in DOMAIN declared : ~(declared[i].requires \subseteq Produced)
Malformed == declared = <<>> \/ RequiresItself \/ ProducedTwice \/ Dangles

Refuse ==
    /\ verdict = "declared"
    /\ Malformed
    /\ verdict' = "refused"
    /\ UNCHANGED <<declared, remaining, ready, ordered, asking>>

Accept ==
    /\ verdict = "declared"
    /\ ~Malformed
    /\ verdict' = "sorting"
    /\ remaining' = Requires
    /\ UNCHANGED <<declared, ready, ordered, asking>>
-----------------------------------------------------------------------------
(* _topological_order's while loop. *)
(* Mutant: a stage whose requirements are partly met counted as unblocked. *)
AlmostUnblocked ==
    {k \in DOMAIN remaining : \A r, s \in remaining[k] : r = s}

Unblocked == {k \in DOMAIN remaining : remaining[k] = {}}

Collect ==
    /\ verdict = "sorting"
    /\ Unblocked # {}
    /\ ready' = Unblocked
    /\ verdict' = "placing"
    /\ UNCHANGED <<declared, remaining, ordered, asking>>

(* No stage is ready: the error names every kind in `remaining'. *)
NameCycle ==
    /\ verdict = "sorting"
    /\ DOMAIN remaining # {}
    /\ Unblocked = {}
    /\ verdict' = "cycle"
    /\ UNCHANGED <<declared, remaining, ready, ordered, asking>>

(* for kind in ready: the batch is sorted by value. *)
Unplaced == ready \cap DOMAIN remaining

Place ==
    /\ verdict = "placing"
    /\ \E k \in Unplaced :
        /\ \A other \in Unplaced : k <= other
        /\ ordered' = Append(ordered, k)
        /\ remaining' = [c \in DOMAIN remaining \ {k} |-> remaining[c]]
    /\ UNCHANGED <<declared, verdict, ready, asking>>

(* Mutant: the batch never subtracted from what is left. *)
ForgetfulSubtract ==
    /\ verdict = "placing"
    /\ Unplaced = {}
    /\ ready' = {}
    /\ verdict' = "sorting"
    /\ UNCHANGED <<declared, remaining, ordered, asking>>

Subtract ==
    /\ verdict = "placing"
    /\ Unplaced = {}
    /\ remaining' = [c \in DOMAIN remaining |-> remaining[c] \ ready]
    /\ ready' = {}
    /\ verdict' = "sorting"
    /\ UNCHANGED <<declared, ordered, asking>>

Finish ==
    /\ verdict = "sorting"
    /\ DOMAIN remaining = {}
    /\ verdict' = "ready"
    /\ UNCHANGED <<declared, remaining, ready, ordered, asking>>
-----------------------------------------------------------------------------
(* Pipeline.descendants on a loaded pipeline. *)
Ask(k) ==
    /\ verdict = "ready"
    /\ frontier = {}
    /\ asked' = {k}
    /\ found' = {}
    /\ frontier' = {k}
    /\ UNCHANGED loading

(* Mutant: descendants() stopping at the direct dependents. *)
ShallowVisit ==
    /\ \E d \in frontier :
        /\ found' = found \cup Dependents(Requires, d)
        /\ frontier' = frontier \ {d}
    /\ UNCHANGED <<loading, asked>>

(* Mutant: frontier[-1] instead of frontier.pop(). *)
PeekingVisit ==
    /\ \E d \in frontier :
        /\ found' = found \cup Dependents(Requires, d)
        /\ frontier' = frontier \cup (Dependents(Requires, d) \ found)
    /\ UNCHANGED <<loading, asked>>

(* One frontier.pop().  The children enter the list in the order of a     *)
(* frozenset, so any member may be the last one.                           *)
Visit ==
    /\ \E d \in frontier :
        /\ found' = found \cup Dependents(Requires, d)
        /\ frontier' = (frontier \ {d}) \cup (Dependents(Requires, d) \ found)
    /\ UNCHANGED <<loading, asked>>

Load == Refuse \/ Accept \/ Collect \/ NameCycle \/ Place \/ Subtract \/ Finish
Next == Load \/ Visit \/ \E k \in Produced : Ask(k)

Spec == Init /\ [][Next]_vars

(* The loops run to their end: nothing suspends them.  Asking is up to the *)
(* callers.                                                                *)
FairSpec == Spec /\ WF_vars(Load) /\ WF_vars(Visit)
-----------------------------------------------------------------------------
Verdicts == {"declared", "refused", "sorting", "placing", "cycle", "ready"}

TypeOK ==
    /\ declared \in Declaration
    /\ verdict \in Verdicts
    /\ DOMAIN remaining \subseteq Produced
    /\ remaining \in [DOMAIN remaining -> SUBSET Produced]
    /\ ready \subseteq Produced
    /\ ordered \in Seq(Produced)
    /\ asked \subseteq Produced /\ found \subseteq Produced /\ frontier \subseteq Produced

Placed == {ordered[i] : i \in DOMAIN ordered}

(* Pipeline.stages is a topological order: when a stage is placed, all it  *)
(* requires is before it, and a loaded pipeline has every stage once.      *)
OrderIsTopological ==
    /\ \A i \in DOMAIN ordered :
         Requires[ordered[i]] \subseteq {ordered[j] : j \in 1..(i - 1)}
    /\ verdict = "ready" => Placed = Produced

(* A declaration is loaded only when its graph has no cycle, and is        *)
(* reported as cyclic only when it has one.                                *)
LoadsExactlyAcyclic ==
    /\ verdict = "ready" => ~Cyclic(Requires)
    /\ verdict = "cycle" => Cyclic(Requires)

(* descendants() answers the least closed set above the kind, which never  *)
(* holds the kind itself: approving a script does not make that script     *)
(* stale.                                                                  *)
AnswerIsBlastRadius ==
    frontier = {} =>
        \A k \in asked : found = Descendants(Requires, k) /\ k \notin found

(* Both loops end, whatever is declared and asked. *)
LoopsEnd ==
    /\ <>(verdict \in {"refused", "cycle", "ready"})
    /\ [](frontier # {} => <>(frontier = {}))
=============================================================================
