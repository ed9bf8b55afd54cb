-------------------------- MODULE FoundationProofs --------------------------
(***************************************************************************)
(* Proofs about what stands before the first request is served: the        *)
(* pipeline that was loaded, and the database that was migrated.           *)
(*                                                                         *)
(* PipelineLoader, for any set of kinds and any declarations: a loaded     *)
(* order is topological, exactly the acyclic declarations load, and        *)
(* descendants() answers the blast radius.                                 *)
(*                                                                         *)
(* Schema, for any rows, updates and roots, however large the world and    *)
(* however often it is migrated up and down: the schema at a revision is   *)
(* the one the chain builds there and at the head the one the models       *)
(* declare, erasing is possible and takes no more than it should, and no   *)
(* artifact is stranded.                                                   *)
(***************************************************************************)
EXTENDS PipelineLoader, Schema, FiniteSetTheorems, WellFoundedInduction, TLAPS

(* The declaration went through from_mapping's checks. *)
Started == verdict \in {"sorting", "placing", "cycle", "ready"}

WellFormed == Started => ~Malformed

NotStarted == ~Started => remaining = <<>> /\ ready = {} /\ ordered = <<>>

(* What Kahn's loop keeps true, in the middle of a batch too: `remaining'  *)
(* holds the unplaced kinds, less what the finished batches placed.        *)
Bookkeeping ==
    Started =>
        /\ DOMAIN remaining = Produced \ Placed
        /\ \A k \in DOMAIN remaining : remaining[k] = Requires[k] \ (Placed \ ready)
        /\ \A k \in ready : Requires[k] \subseteq Placed \ ready
        /\ verdict # "placing" => ready = {}

InOrder == \A i \in DOMAIN ordered :
                Requires[ordered[i]] \subseteq {ordered[j] : j \in 1..(i - 1)}

(* A stage that waits for itself through others is never placed. *)
StuckIsNotPlaced == \A S \in SUBSET Produced : IsStuck(Requires, S) => S \cap Placed = {}

CycleHasWitness == verdict = "cycle" => IsStuck(Requires, DOMAIN remaining)

LoadedIsPlaced == verdict = "ready" => Produced \subseteq Placed

(* The worklist of descendants(): what was visited is closed. *)
Worklist ==
    /\ asked # {} => verdict = "ready"
    /\ asked = {} => frontier = {}
    /\ \A k, other \in asked : k = other
    /\ \A k \in asked :
        /\ found \subseteq Descendants(Requires, k)
        /\ frontier \subseteq found \cup {k}
        /\ \A d \in (found \cup {k}) \ frontier : Dependents(Requires, d) \subseteq found

LoaderInv ==
    /\ TypeOK
    /\ WellFormed
    /\ NotStarted
    /\ Bookkeeping
    /\ InOrder
    /\ StuckIsNotPlaced
    /\ CycleHasWitness
    /\ LoadedIsPlaced
    /\ Worklist
-----------------------------------------------------------------------------
(* Facts about graphs. *)

(* The descendants of a kind are closed and hold its dependents. *)
LEMMA DescendantsAreClosed ==
    ASSUME NEW requires, NEW k
    PROVE  /\ IsClosed(requires, Descendants(requires, k))
           /\ Dependents(requires, k) \subseteq Descendants(requires, k)
           /\ Descendants(requires, k) \subseteq DOMAIN requires
  BY DEF IsClosed, Descendants, Dependents

(* And they are the least such set. *)
LEMMA DescendantsAreLeast ==
    ASSUME NEW requires, NEW k, NEW S \in SUBSET DOMAIN requires,
           IsClosed(requires, S), Dependents(requires, k) \subseteq S
    PROVE  Descendants(requires, k) \subseteq S
  BY DEF Descendants

(* In a graph without a cycle no kind descends from itself: the            *)
(* descendants of a kind that did would all wait for one another.          *)
LEMMA NotItsOwnDescendant ==
    ASSUME NEW requires, NEW k, ~Cyclic(requires)
    PROVE  k \notin Descendants(requires, k)
  <1> SUFFICES ASSUME k \in Descendants(requires, k)
               PROVE  FALSE
    OBVIOUS
  <1> DEFINE D == Descendants(requires, k)
  <1>1. IsClosed(requires, D) /\ Dependents(requires, k) \subseteq D
        /\ D \subseteq DOMAIN requires
    BY DescendantsAreClosed
  <1>2. ASSUME NEW d \in D, requires[d] \cap D = {}
        PROVE  FALSE
    <2> DEFINE T == D \ {d}
    <2>1. T \in SUBSET DOMAIN requires
      BY <1>1
    <2>2. IsClosed(requires, T)
      <3> SUFFICES ASSUME NEW e \in T
                   PROVE  Dependents(requires, e) \subseteq T
        BY DEF IsClosed
      <3>1. Dependents(requires, e) \subseteq D
        BY <1>1 DEF IsClosed
      <3>2. d \notin Dependents(requires, e)
        BY <1>2 DEF Dependents
      <3> QED BY <3>1, <3>2
    <2>3. d \notin Dependents(requires, k)
      BY <1>2 DEF Dependents
    <2>4. Dependents(requires, k) \subseteq T
      BY <1>1, <2>3
    <2> HIDE DEF T
    <2>5. D \subseteq T
      BY <2>1, <2>2, <2>4, DescendantsAreLeast
    <2> QED BY <2>5, <1>2 DEF T
  <1>3. IsStuck(requires, D)
    BY <1>2 DEF IsStuck
  <1> QED BY <1>1, <1>3 DEF Cyclic
-----------------------------------------------------------------------------
(* The declaration's graph, once it is well formed. *)
LEMMA RequiresType ==
    ASSUME declared \in Declaration, ~Malformed
    PROVE  Requires \in [Produced -> SUBSET Produced]
  <1>1. declared \in Seq(Stage)
    BY DeclarationAssumption
  <1>2. \A i \in DOMAIN declared : declared[i].requires \subseteq Produced
    BY DEF Malformed, Dangles
  <1>3. ASSUME NEW k \in Produced
        PROVE  UNION {declared[i].requires : i \in {j \in DOMAIN declared :
                            declared[j].produces = k}} \subseteq Produced
    BY <1>2
  <1> QED BY <1>3 DEF Requires

LEMMA RequiresDomain == DOMAIN Requires = Produced
  BY DEF Requires

LEMMA ProducedAreKinds ==
    ASSUME declared \in Declaration
    PROVE  Produced \subseteq Kind /\ Produced \subseteq Nat
  <1>1. declared \in Seq(Stage)
    BY DeclarationAssumption
  <1>2. \A i \in DOMAIN declared : declared[i] \in Stage
    BY <1>1
  <1> QED BY <1>2, KindAssumption DEF Produced, Stage

(* What an append adds to the set of placed kinds. *)
LEMMA AppendPlaces ==
    ASSUME NEW T, NEW s \in Seq(T), NEW k \in T
    PROVE  /\ Append(s, k) \in Seq(T)
           /\ DOMAIN Append(s, k) = 1..(Len(s) + 1)
           /\ DOMAIN s = 1..Len(s) /\ Len(s) \in Nat
           /\ \A i \in 1..Len(s) : Append(s, k)[i] = s[i]
           /\ Append(s, k)[Len(s) + 1] = k
  OBVIOUS
-----------------------------------------------------------------------------
LEMMA InitLoader == Init => LoaderInv
  <1> SUFFICES ASSUME Init
               PROVE  LoaderInv
    OBVIOUS
  <1> USE DEF Init
  <1>1. TypeOK
    BY DEF TypeOK, Verdicts
  <1>2. WellFormed /\ NotStarted /\ Bookkeeping /\ CycleHasWitness /\ LoadedIsPlaced
    BY DEF WellFormed, NotStarted, Bookkeeping, CycleHasWitness, LoadedIsPlaced, Started
  <1>3. InOrder /\ StuckIsNotPlaced
    BY DEF InOrder, StuckIsNotPlaced, Placed
  <1>4. Worklist
    BY DEF Worklist
  <1> QED BY <1>1, <1>2, <1>3, <1>4 DEF LoaderInv
-----------------------------------------------------------------------------
(* The declaration does not change, so its graph does not either. *)
LEMMA GraphIsFixed ==
    ASSUME declared' = declared
    PROVE  /\ Produced' = Produced
           /\ Requires' = Requires
           /\ Malformed' = Malformed
  BY DEF Produced, Requires, Malformed, RequiresItself, ProducedTwice, Dangles

(* The steps that place nothing keep what is said of the placed kinds.     *)
LEMMA SameOrder ==
    ASSUME LoaderInv, declared' = declared, ordered' = ordered
    PROVE  /\ InOrder' /\ StuckIsNotPlaced' /\ Placed' = Placed
           /\ (ordered \in Seq(Produced))'
  <1>1. Requires' = Requires /\ Produced' = Produced
    BY GraphIsFixed
  <1>2. Placed' = Placed
    BY DEF Placed
  <1> QED BY <1>1, <1>2 DEF LoaderInv, TypeOK, InOrder, StuckIsNotPlaced

(* The loading steps leave the worklist alone. *)
LEMMA SameWorklist ==
    ASSUME LoaderInv, declared' = declared, UNCHANGED asking, asked = {}
    PROVE  Worklist' /\ (asked \subseteq Produced /\ found \subseteq Produced
                         /\ frontier \subseteq Produced)'
  <1>1. Requires' = Requires /\ Produced' = Produced
    BY GraphIsFixed
  <1> QED BY <1>1 DEF LoaderInv, TypeOK, Worklist, asking

(* Nothing is asked before the load is over. *)
LEMMA NothingAsked ==
    ASSUME LoaderInv, verdict # "ready"
    PROVE  asked = {}
  BY DEF LoaderInv, Worklist
-----------------------------------------------------------------------------
LEMMA RefuseStep ==
    ASSUME LoaderInv, Refuse
    PROVE  LoaderInv'
  <1> USE DEF Refuse
  <1>1. asked = {}
    BY NothingAsked
  <1>2. declared' = declared /\ ordered' = ordered /\ UNCHANGED asking
    BY DEF asking
  <1>3. Requires' = Requires /\ Produced' = Produced /\ Malformed' = Malformed
    BY <1>2, GraphIsFixed
  <1>4. InOrder' /\ StuckIsNotPlaced' /\ Placed' = Placed
    BY <1>2, SameOrder
  <1>5. Worklist' /\ TypeOK'
    BY <1>1, <1>2, <1>3, SameOrder, SameWorklist DEF LoaderInv, TypeOK, Verdicts
  <1>6. (WellFormed /\ NotStarted /\ Bookkeeping /\ CycleHasWitness /\ LoadedIsPlaced)'
    BY <1>2 DEF LoaderInv, WellFormed, NotStarted, Bookkeeping, CycleHasWitness,
                LoadedIsPlaced, Started
  <1> QED BY <1>4, <1>5, <1>6 DEF LoaderInv

LEMMA AcceptStep ==
    ASSUME LoaderInv, Accept
    PROVE  LoaderInv'
  <1> USE DEF Accept
  <1>1. asked = {}
    BY NothingAsked
  <1>2. declared' = declared /\ ordered' = ordered /\ UNCHANGED asking
    BY DEF asking
  <1>3. Requires' = Requires /\ Produced' = Produced /\ Malformed' = Malformed
    BY <1>2, GraphIsFixed
  <1>4. InOrder' /\ StuckIsNotPlaced' /\ Placed' = Placed
    BY <1>2, SameOrder
  <1>5. Requires \in [Produced -> SUBSET Produced]
    BY RequiresType DEF LoaderInv, TypeOK
  <1>6. ready = {} /\ ordered = <<>> /\ Placed = {}
    BY DEF LoaderInv, NotStarted, Started, Placed
  <1>7. Worklist'
    BY <1>1, <1>2, SameWorklist
  <1>8. TypeOK'
    <2>1. (/\ ordered \in Seq(Produced) /\ asked \subseteq Produced
           /\ found \subseteq Produced /\ frontier \subseteq Produced)'
      BY <1>1, <1>2, SameOrder, SameWorklist
    <2>2. (DOMAIN remaining \subseteq Produced
           /\ remaining \in [DOMAIN remaining -> SUBSET Produced])'
      BY <1>3, <1>5
    <2> QED BY <1>6, <2>1, <2>2 DEF LoaderInv, TypeOK, Verdicts
  <1>9. Bookkeeping'
    BY <1>3, <1>4, <1>5, <1>6 DEF Bookkeeping
  <1>10. (WellFormed /\ NotStarted /\ CycleHasWitness /\ LoadedIsPlaced)'
    BY <1>3 DEF WellFormed, NotStarted, CycleHasWitness, LoadedIsPlaced, Started
  <1> QED BY <1>4, <1>7, <1>8, <1>9, <1>10 DEF LoaderInv

LEMMA CollectStep ==
    ASSUME LoaderInv, Collect
    PROVE  LoaderInv'
  <1> USE DEF Collect
  <1>1. asked = {} /\ Started
    BY NothingAsked DEF Started
  <1>2. declared' = declared /\ ordered' = ordered /\ UNCHANGED asking
    BY DEF asking
  <1>3. Requires' = Requires /\ Produced' = Produced /\ Malformed' = Malformed
    BY <1>2, GraphIsFixed
  <1>4. InOrder' /\ StuckIsNotPlaced' /\ Placed' = Placed
    BY <1>2, SameOrder
  <1>5. DOMAIN remaining = Produced \ Placed
    BY <1>1 DEF LoaderInv, Bookkeeping
  <1>6. ready = {} /\ \A k \in DOMAIN remaining : remaining[k] = Requires[k] \ Placed
    BY <1>1 DEF LoaderInv, Bookkeeping
  <1>7. Worklist'
    BY <1>1, <1>2, SameWorklist
  <1>8. TypeOK'
    <2>1. (/\ ordered \in Seq(Produced) /\ asked \subseteq Produced
           /\ found \subseteq Produced /\ frontier \subseteq Produced)'
      BY <1>1, <1>2, SameOrder, SameWorklist
    <2> QED BY <1>3, <2>1 DEF LoaderInv, TypeOK, Verdicts, Unblocked
  <1>9. Bookkeeping'
    <2>1. Placed \ Unblocked = Placed
      BY <1>5 DEF Unblocked
    <2>2. \A k \in Unblocked : Requires[k] \subseteq Placed
      BY <1>6 DEF Unblocked
    <2> QED BY <1>3, <1>4, <1>5, <1>6, <2>1, <2>2 DEF Bookkeeping
  <1>10. (WellFormed /\ NotStarted /\ CycleHasWitness /\ LoadedIsPlaced)'
    BY <1>1, <1>3 DEF LoaderInv, WellFormed, NotStarted, CycleHasWitness, LoadedIsPlaced,
                      Started
  <1> QED BY <1>4, <1>7, <1>8, <1>9, <1>10 DEF LoaderInv

LEMMA NameCycleStep ==
    ASSUME LoaderInv, NameCycle
    PROVE  LoaderInv'
  <1> USE DEF NameCycle
  <1>1. asked = {} /\ Started
    BY NothingAsked DEF Started
  <1>2. declared' = declared /\ ordered' = ordered /\ UNCHANGED asking
    BY DEF asking
  <1>3. Requires' = Requires /\ Produced' = Produced /\ Malformed' = Malformed
    BY <1>2, GraphIsFixed
  <1>4. InOrder' /\ StuckIsNotPlaced' /\ Placed' = Placed
    BY <1>2, SameOrder
  <1>5. Requires \in [Produced -> SUBSET Produced]
    BY <1>1, RequiresType DEF LoaderInv, TypeOK, WellFormed
  <1>6. Worklist'
    BY <1>1, <1>2, SameWorklist
  <1>7. TypeOK'
    <2>1. (/\ ordered \in Seq(Produced) /\ asked \subseteq Produced
           /\ found \subseteq Produced /\ frontier \subseteq Produced)'
      BY <1>1, <1>2, SameOrder, SameWorklist
    <2> QED BY <1>3, <2>1 DEF LoaderInv, TypeOK, Verdicts
  <1>8. Bookkeeping'
    BY <1>1, <1>3, <1>4 DEF LoaderInv, Bookkeeping
  <1>9. CycleHasWitness'
    <2>1. DOMAIN remaining = Produced \ Placed
      BY <1>1 DEF LoaderInv, Bookkeeping
    <2>2. \A k \in DOMAIN remaining : remaining[k] = Requires[k] \ Placed
      BY <1>1 DEF LoaderInv, Bookkeeping
    <2>3. \A k \in DOMAIN remaining : Requires[k] \cap DOMAIN remaining # {}
      BY <2>1, <2>2, <1>5 DEF Unblocked
    <2> QED BY <2>3, <1>3 DEF CycleHasWitness, IsStuck
  <1>10. (WellFormed /\ NotStarted /\ LoadedIsPlaced)'
    BY <1>1, <1>3 DEF LoaderInv, WellFormed, NotStarted, LoadedIsPlaced, Started
  <1> QED BY <1>4, <1>6, <1>7, <1>8, <1>9, <1>10 DEF LoaderInv

LEMMA PlaceStep ==
    ASSUME LoaderInv, Place
    PROVE  LoaderInv'
  <1>1. PICK k \in Unplaced :
            /\ ordered' = Append(ordered, k)
            /\ remaining' = [c \in DOMAIN remaining \ {k} |-> remaining[c]]
    BY DEF Place
  <1>2. /\ verdict = "placing" /\ verdict' = verdict
        /\ declared' = declared /\ ready' = ready /\ UNCHANGED asking
    BY DEF Place
  <1>3. asked = {} /\ Started
    BY <1>2, NothingAsked DEF Started
  <1>4. Requires' = Requires /\ Produced' = Produced /\ Malformed' = Malformed
    BY <1>2, GraphIsFixed
  <1>5. Requires \in [Produced -> SUBSET Produced]
    BY <1>3, RequiresType DEF LoaderInv, TypeOK, WellFormed
  <1>6. /\ k \in ready /\ k \in Produced /\ k \notin Placed
        /\ Requires[k] \subseteq Placed \ ready
        /\ DOMAIN remaining = Produced \ Placed
    BY <1>3 DEF LoaderInv, Bookkeeping, Unplaced
  <1>7. /\ ordered \in Seq(Produced)
        /\ ordered' \in Seq(Produced)
        /\ DOMAIN ordered' = 1..(Len(ordered) + 1)
        /\ DOMAIN ordered = 1..Len(ordered) /\ Len(ordered) \in Nat
        /\ \A i \in 1..Len(ordered) : ordered'[i] = ordered[i]
        /\ ordered'[Len(ordered) + 1] = k
    BY <1>1, <1>6, AppendPlaces DEF LoaderInv, TypeOK
  <1>8. Placed' = Placed \cup {k}
    <2>1. \A i \in DOMAIN ordered' : i = Len(ordered) + 1 \/ i \in DOMAIN ordered
      BY <1>7
    <2>2. Len(ordered) + 1 \in DOMAIN ordered' /\ DOMAIN ordered \subseteq DOMAIN ordered'
      BY <1>7
    <2> QED BY <2>1, <2>2, <1>7 DEF Placed
  <1>9. InOrder'
    <2> SUFFICES ASSUME NEW i \in DOMAIN ordered'
                 PROVE  Requires[ordered'[i]] \subseteq {ordered'[j] : j \in 1..(i - 1)}
      BY <1>4 DEF InOrder
    <2>1. CASE i \in 1..Len(ordered)
      <3>1. Requires[ordered[i]] \subseteq {ordered[j] : j \in 1..(i - 1)}
        BY <2>1, <1>7 DEF LoaderInv, InOrder
      <3>2. \A j \in 1..(i - 1) : ordered'[j] = ordered[j]
        BY <2>1, <1>7
      <3> QED BY <3>1, <3>2, <2>1, <1>7
    <2>2. CASE i = Len(ordered) + 1
      <3>1. i - 1 = Len(ordered)
        BY <2>2, <1>7
      <3>2. Requires[k] \subseteq Placed
        BY <1>6
      <3>3. Placed = {ordered'[j] : j \in 1..(i - 1)}
        BY <3>1, <1>7 DEF Placed
      <3> QED BY <2>2, <3>2, <3>3, <1>7
    <2> QED BY <2>1, <2>2, <1>7
  <1>10. StuckIsNotPlaced'
    <2> SUFFICES ASSUME NEW S \in SUBSET Produced, IsStuck(Requires, S)
                 PROVE  S \cap Placed' = {}
      BY <1>4 DEF StuckIsNotPlaced
    <2>1. S \cap Placed = {}
      BY DEF LoaderInv, StuckIsNotPlaced
    <2>2. k \notin S
      BY <2>1, <1>6 DEF IsStuck
    <2> QED BY <2>1, <2>2, <1>8
  <1>11. Bookkeeping'
    <2>1. Placed' \ ready = Placed \ ready
      BY <1>6, <1>8
    <2>2. DOMAIN remaining' = Produced \ Placed'
      BY <1>1, <1>6, <1>8
    <2>3. \A c \in DOMAIN remaining' : remaining'[c] = Requires[c] \ (Placed \ ready)
      BY <1>1, <1>3 DEF LoaderInv, Bookkeeping
    <2>4. \A c \in ready : Requires[c] \subseteq Placed \ ready
      BY <1>3 DEF LoaderInv, Bookkeeping
    <2> QED BY <2>1, <2>2, <2>3, <2>4, <1>2, <1>4 DEF Bookkeeping
  <1>12. Worklist'
    BY <1>2, <1>3, SameWorklist
  <1>13. TypeOK'
    <2>1. (/\ asked \subseteq Produced /\ found \subseteq Produced
           /\ frontier \subseteq Produced)'
      BY <1>2, <1>3, SameWorklist
    <2>2. (DOMAIN remaining \subseteq Produced
           /\ remaining \in [DOMAIN remaining -> SUBSET Produced])'
      BY <1>1, <1>4 DEF LoaderInv, TypeOK
    <2> QED BY <1>2, <1>4, <1>7, <2>1, <2>2 DEF LoaderInv, TypeOK
  <1>14. (WellFormed /\ NotStarted /\ CycleHasWitness /\ LoadedIsPlaced)'
    BY <1>2, <1>3, <1>4 DEF LoaderInv, WellFormed, NotStarted, CycleHasWitness,
                            LoadedIsPlaced, Started
  <1> QED BY <1>9, <1>10, <1>11, <1>12, <1>13, <1>14 DEF LoaderInv

LEMMA SubtractStep ==
    ASSUME LoaderInv, Subtract
    PROVE  LoaderInv'
  <1> USE DEF Subtract
  <1>1. asked = {} /\ Started
    BY NothingAsked DEF Started
  <1>2. declared' = declared /\ ordered' = ordered /\ UNCHANGED asking
    BY DEF asking
  <1>3. Requires' = Requires /\ Produced' = Produced /\ Malformed' = Malformed
    BY <1>2, GraphIsFixed
  <1>4. InOrder' /\ StuckIsNotPlaced' /\ Placed' = Placed
    BY <1>2, SameOrder
  <1>5. Worklist'
    BY <1>1, <1>2, SameWorklist
  <1>6. TypeOK'
    <2>1. (/\ ordered \in Seq(Produced) /\ asked \subseteq Produced
           /\ found \subseteq Produced /\ frontier \subseteq Produced)'
      BY <1>1, <1>2, SameOrder, SameWorklist
    <2>2. (DOMAIN remaining \subseteq Produced
           /\ remaining \in [DOMAIN remaining -> SUBSET Produced])'
      BY <1>3 DEF LoaderInv, TypeOK
    <2> QED BY <2>1, <2>2, <1>3 DEF LoaderInv, TypeOK, Verdicts
  <1>7. Bookkeeping'
    <2>1. DOMAIN remaining = Produced \ Placed
      BY <1>1 DEF LoaderInv, Bookkeeping
    <2>2. ready \subseteq Placed
      BY <2>1 DEF LoaderInv, TypeOK, Unplaced
    <2>3. \A k \in DOMAIN remaining : remaining[k] = Requires[k] \ (Placed \ ready)
      BY <1>1 DEF LoaderInv, Bookkeeping
    <2>4. \A k \in DOMAIN remaining : remaining[k] \ ready = Requires[k] \ Placed
      BY <2>2, <2>3
    <2> QED BY <2>1, <2>4, <1>3, <1>4 DEF Bookkeeping
  <1>8. (WellFormed /\ NotStarted /\ CycleHasWitness /\ LoadedIsPlaced)'
    BY <1>1, <1>3 DEF LoaderInv, WellFormed, NotStarted, CycleHasWitness, LoadedIsPlaced,
                      Started
  <1> QED BY <1>4, <1>5, <1>6, <1>7, <1>8 DEF LoaderInv

LEMMA FinishStep ==
    ASSUME LoaderInv, Finish
    PROVE  LoaderInv'
  <1> USE DEF Finish
  <1>1. asked = {} /\ Started
    BY NothingAsked DEF Started
  <1>2. declared' = declared /\ ordered' = ordered /\ UNCHANGED asking
    BY DEF asking
  <1>3. Requires' = Requires /\ Produced' = Produced /\ Malformed' = Malformed
    BY <1>2, GraphIsFixed
  <1>4. InOrder' /\ StuckIsNotPlaced' /\ Placed' = Placed
    BY <1>2, SameOrder
  <1>5. Worklist'
    BY <1>1, <1>2, SameWorklist
  <1>6. TypeOK'
    <2>1. (/\ ordered \in Seq(Produced) /\ asked \subseteq Produced
           /\ found \subseteq Produced /\ frontier \subseteq Produced)'
      BY <1>1, <1>2, SameOrder, SameWorklist
    <2> QED BY <1>3, <2>1 DEF LoaderInv, TypeOK, Verdicts
  <1>7. Bookkeeping' /\ LoadedIsPlaced'
    BY <1>1, <1>3, <1>4 DEF LoaderInv, Bookkeeping, LoadedIsPlaced
  <1>8. (WellFormed /\ NotStarted /\ CycleHasWitness)'
    BY <1>1, <1>3 DEF LoaderInv, WellFormed, NotStarted, CycleHasWitness, Started
  <1> QED BY <1>4, <1>5, <1>6, <1>7, <1>8 DEF LoaderInv
-----------------------------------------------------------------------------
(* The questions leave the loaded pipeline alone. *)
LEMMA SameLoad ==
    ASSUME LoaderInv, UNCHANGED loading
    PROVE  /\ (WellFormed /\ NotStarted /\ Bookkeeping /\ InOrder /\ StuckIsNotPlaced
               /\ CycleHasWitness /\ LoadedIsPlaced)'
           /\ Requires' = Requires /\ Produced' = Produced
           /\ (asked \subseteq Produced /\ found \subseteq Produced
                /\ frontier \subseteq Produced)' => TypeOK'
  <1> USE DEF loading
  <1>1. Requires' = Requires /\ Produced' = Produced /\ Malformed' = Malformed
    BY GraphIsFixed
  <1>2. InOrder' /\ StuckIsNotPlaced' /\ Placed' = Placed /\ (ordered \in Seq(Produced))'
    BY SameOrder
  <1> QED BY <1>1, <1>2 DEF LoaderInv, TypeOK, WellFormed, NotStarted, Bookkeeping,
                            CycleHasWitness, LoadedIsPlaced, Started

LEMMA AskStep ==
    ASSUME LoaderInv, NEW k \in Produced, Ask(k)
    PROVE  LoaderInv'
  <1> USE DEF Ask
  <1>1. Requires' = Requires /\ Produced' = Produced
    BY SameLoad
  <1>2. Worklist'
    BY DEF Worklist, loading
  <1> QED BY <1>1, <1>2, SameLoad DEF LoaderInv

LEMMA VisitStep ==
    ASSUME LoaderInv, Visit
    PROVE  LoaderInv'
  <1>1. PICK d \in frontier :
            /\ found' = found \cup Dependents(Requires, d)
            /\ frontier' = (frontier \ {d}) \cup (Dependents(Requires, d) \ found)
    BY DEF Visit
  <1>2. UNCHANGED loading /\ asked' = asked /\ verdict' = verdict
    BY DEF Visit, loading
  <1>3. Requires' = Requires /\ Produced' = Produced
    BY <1>2, SameLoad
  <1>4. Dependents(Requires, d) \subseteq Produced
    BY RequiresDomain DEF Dependents
  <1>5. Worklist'
    <2> SUFFICES ASSUME NEW k \in asked
                 PROVE  /\ found' \subseteq Descendants(Requires, k)
                        /\ frontier' \subseteq found' \cup {k}
                        /\ \A e \in (found' \cup {k}) \ frontier' :
                                Dependents(Requires, e) \subseteq found'
      BY <1>1, <1>2, <1>3 DEF LoaderInv, Worklist
    <2>1. /\ found \subseteq Descendants(Requires, k)
          /\ frontier \subseteq found \cup {k}
          /\ \A e \in (found \cup {k}) \ frontier : Dependents(Requires, e) \subseteq found
      BY DEF LoaderInv, Worklist
    <2>2. /\ IsClosed(Requires, Descendants(Requires, k))
          /\ Dependents(Requires, k) \subseteq Descendants(Requires, k)
      BY DescendantsAreClosed
    <2>3. Dependents(Requires, d) \subseteq Descendants(Requires, k)
      BY <2>1, <2>2 DEF IsClosed
    <2>4. ASSUME NEW e \in (found' \cup {k}) \ frontier'
          PROVE  Dependents(Requires, e) \subseteq found'
      <3>1. CASE e = d
        BY <3>1, <1>1
      <3>2. CASE e # d
        <4>1. e \in (found \cup {k}) \ frontier
          BY <3>2, <1>1
        <4> QED BY <4>1, <2>1, <1>1
      <3> QED BY <3>1, <3>2
    <2> QED BY <2>1, <2>3, <2>4, <1>1
  <1>6. (asked \subseteq Produced /\ found \subseteq Produced /\ frontier \subseteq Produced)'
    BY <1>1, <1>2, <1>3, <1>4 DEF LoaderInv, TypeOK
  <1> QED BY <1>2, <1>5, <1>6, SameLoad DEF LoaderInv

LEMMA StutterStep ==
    ASSUME LoaderInv, UNCHANGED vars
    PROVE  LoaderInv'
  <1>1. UNCHANGED loading /\ UNCHANGED asking
    BY DEF vars, loading, asking
  <1>2. Requires' = Requires /\ Produced' = Produced
    BY <1>1, SameLoad
  <1>3. Worklist' /\ TypeOK'
    BY <1>1, <1>2, SameLoad DEF LoaderInv, TypeOK, Worklist, asking, loading
  <1> QED BY <1>1, <1>3, SameLoad DEF LoaderInv
-----------------------------------------------------------------------------
(* What the loader keeps true at every step, for any declarations. *)
THEOREM LoaderInvariant == Spec => []LoaderInv
  <1>1. Init => LoaderInv
    BY InitLoader
  <1>2. LoaderInv /\ [Next]_vars => LoaderInv'
    <2> SUFFICES ASSUME LoaderInv, [Next]_vars
                 PROVE  LoaderInv'
      OBVIOUS
    <2>1. CASE Load
      BY <2>1, RefuseStep, AcceptStep, CollectStep, NameCycleStep, PlaceStep, SubtractStep,
         FinishStep DEF Load
    <2>2. CASE Visit
      BY <2>2, VisitStep
    <2>3. CASE \E k \in Produced : Ask(k)
      BY <2>3, AskStep
    <2>4. CASE UNCHANGED vars
      BY <2>4, StutterStep
    <2> QED BY <2>1, <2>2, <2>3, <2>4 DEF Next
  <1> QED BY <1>1, <1>2, PTL DEF Spec

(* Pipeline.stages is a topological order of the whole graph. *)
THEOREM StagesAreOrdered == Spec => []OrderIsTopological
  <1>1. LoaderInv => OrderIsTopological
    <2> SUFFICES ASSUME LoaderInv, verdict = "ready"
                 PROVE  Placed = Produced
      BY DEF LoaderInv, InOrder, OrderIsTopological
    <2>1. Placed \subseteq Produced
      BY DEF LoaderInv, TypeOK, Placed
    <2> QED BY <2>1 DEF LoaderInv, LoadedIsPlaced
  <1> QED BY <1>1, LoaderInvariant, PTL

(* A cyclic declaration is always refused, and an acyclic one never is.    *)
LEMMA VerdictIsRight ==
    ASSUME LoaderInv
    PROVE  LoadsExactlyAcyclic
  <1>1. ASSUME verdict = "ready", Cyclic(Requires)
        PROVE  FALSE
    <2>1. PICK S \in SUBSET Produced : IsStuck(Requires, S)
      BY <1>1, RequiresDomain DEF Cyclic
    <2>2. S \cap Placed = {} /\ S \subseteq Placed
      BY <1>1, <2>1 DEF LoaderInv, StuckIsNotPlaced, LoadedIsPlaced
    <2> QED BY <2>1, <2>2 DEF IsStuck
  <1>2. ASSUME verdict = "cycle"
        PROVE  Cyclic(Requires)
    BY <1>2, RequiresDomain DEF LoaderInv, TypeOK, CycleHasWitness, Cyclic
  <1> QED BY <1>1, <1>2 DEF LoadsExactlyAcyclic

(* Pipeline.from_mapping loads exactly the declarations in which no stage  *)
(* waits for itself: _topological_order ends in a total order iff the      *)
(* requirements are acyclic.                                               *)
THEOREM AcyclicLoads == Spec => []LoadsExactlyAcyclic
  BY VerdictIsRight, LoaderInvariant, PTL

(* The staleness cascade marks exactly what descends from the approved     *)
(* kind, and never the approved kind itself.                               *)
THEOREM BlastRadius == Spec => []AnswerIsBlastRadius
  <1>1. LoaderInv => AnswerIsBlastRadius
    <2> SUFFICES ASSUME LoaderInv, frontier = {}, NEW k \in asked
                 PROVE  found = Descendants(Requires, k) /\ k \notin found
      BY DEF AnswerIsBlastRadius
    <2>1. /\ found \subseteq Descendants(Requires, k)
          /\ \A d \in found \cup {k} : Dependents(Requires, d) \subseteq found
          /\ verdict = "ready"
      BY DEF LoaderInv, Worklist
    <2>2. found \in SUBSET DOMAIN Requires
      BY RequiresDomain DEF LoaderInv, TypeOK
    <2>3. IsClosed(Requires, found) /\ Dependents(Requires, k) \subseteq found
      BY <2>1 DEF IsClosed
    <2>4. Descendants(Requires, k) \subseteq found
      BY <2>2, <2>3, DescendantsAreLeast
    <2>5. ~Cyclic(Requires)
      BY <2>1, VerdictIsRight DEF LoadsExactlyAcyclic
    <2>6. k \notin Descendants(Requires, k)
      BY <2>5, NotItsOwnDescendant
    <2> QED BY <2>1, <2>4, <2>6
  <1> QED BY <1>1, LoaderInvariant, PTL

-----------------------------------------------------------------------------
(* The parts a catalogue and the entry of a table are made of.             *)
IsCatalog(c) ==
    /\ c = [table |-> c.table, trigger |-> c.trigger, type |-> c.type, view |-> c.view]
    /\ c.table = [t \in DOMAIN c.table |-> c.table[t]]
    /\ c.type = [t \in DOMAIN c.type |-> c.type[t]]

IsTable(t) == t = Table(t.columns, t.nullable, t.fks, t.uniques, t.checks)

(* d is c with another table t.                                            *)
Puts(d, c, t, entry) ==
    /\ IsCatalog(d)
    /\ DOMAIN d.table = DOMAIN c.table
    /\ \A s \in DOMAIN c.table : d.table[s] = IF s = t THEN entry ELSE c.table[s]
    /\ d.trigger = c.trigger
    /\ d.type = c.type
    /\ d.view = c.view

(* ALTER TABLE puts one entry in the place of another.                     *)
LEMMA Altered ==
    ASSUME NEW c, IsCatalog(c), NEW t, NEW entry, NEW d, d = Alter(c, t, entry)
    PROVE  Puts(d, c, t, entry)
  <1>1. DOMAIN c = {"table", "trigger", "type", "view"}
    BY DEF IsCatalog
  <1>2. d.table = [c.table EXCEPT ![t] = entry]
    BY <1>1 DEF Alter
  <1>3. d.trigger = c.trigger /\ d.type = c.type /\ d.view = c.view
    BY <1>1 DEF Alter
  <1>4. d = [table |-> d.table, trigger |-> d.trigger, type |-> d.type, view |-> d.view]
    BY <1>1 DEF Alter
  <1>5. /\ DOMAIN d.table = DOMAIN c.table
        /\ \A s \in DOMAIN c.table : d.table[s] = IF s = t THEN entry ELSE c.table[s]
        /\ d.table = [s \in DOMAIN d.table |-> d.table[s]]
    BY <1>2
  <1>6. d.type = [s \in DOMAIN d.type |-> d.type[s]]
    BY <1>3 DEF IsCatalog
  <1> QED BY <1>3, <1>4, <1>5, <1>6 DEF Puts, IsCatalog

EntryFields == {"columns", "nullable", "fks", "uniques", "checks"}

(* Two entries that agree in every field are one entry.                    *)
LEMMA SameFields ==
    ASSUME NEW e, e = [x \in DOMAIN e |-> e[x]], DOMAIN e = EntryFields,
           NEW g, g = [x \in DOMAIN g |-> g[x]], DOMAIN g = EntryFields,
           e.columns = g.columns, e.nullable = g.nullable, e.fks = g.fks,
           e.uniques = g.uniques, e.checks = g.checks
    PROVE  e = g
  <1>1. \A x \in EntryFields : g[x] = e[x]
    BY DEF EntryFields
  <1> QED BY <1>1

LEMMA EntryOfFields ==
    ASSUME NEW e, e = [x \in DOMAIN e |-> e[x]], DOMAIN e = EntryFields
    PROVE  e = Table(e.columns, e.nullable, e.fks, e.uniques, e.checks)
  <1> DEFINE g == Table(e.columns, e.nullable, e.fks, e.uniques, e.checks)
  <1>1. DOMAIN g = EntryFields /\ g = [x \in DOMAIN g |-> g[x]]
    BY DEF Table, EntryFields
  <1>2. /\ e.columns = g.columns /\ e.nullable = g.nullable /\ e.fks = g.fks
        /\ e.uniques = g.uniques /\ e.checks = g.checks
    BY DEF Table
  <1>3. e = g
    <2> HIDE DEF g
    <2> QED BY <1>1, <1>2, SameFields
  <1> QED BY <1>3

(* What ALTER TABLE makes of an entry.                                     *)
Reworded(r, columns, nullable, fks, uniques, checks, more, void) ==
      /\ [r EXCEPT !.columns = @ \cup more, !.nullable = @ \cup void] =
           Table(columns \cup more, nullable \cup void, fks, uniques, checks)
      /\ [r EXCEPT !.columns = @ \ more, !.nullable = @ \ more] =
           Table(columns \ more, nullable \ more, fks, uniques, checks)
      /\ [r EXCEPT !.nullable = @ \ more] =
           Table(columns, nullable \ more, fks, uniques, checks)
      /\ [r EXCEPT !.fks = @ \cup more] =
           Table(columns, nullable, fks \cup more, uniques, checks)
      /\ [r EXCEPT !.fks = FksWithout(@, more)] =
           Table(columns, nullable, FksWithout(fks, more), uniques, checks)
      /\ [r EXCEPT !.uniques = more] =
           Table(columns, nullable, fks, more, checks)
      /\ [r EXCEPT !.checks = @ \cup more] =
           Table(columns, nullable, fks, uniques, checks \cup more)
      /\ [r EXCEPT !.checks = @ \ more] =
           Table(columns, nullable, fks, uniques, checks \ more)

(* The entry after each operation of Catalog.tla, field by field.          *)
LEMMA Entries ==
    ASSUME NEW columns, NEW nullable, NEW fks, NEW uniques, NEW checks, NEW more, NEW void,
           NEW r, r = Table(columns, nullable, fks, uniques, checks)
    PROVE  Reworded(r, columns, nullable, fks, uniques, checks, more, void)
  <1>1. DOMAIN r = EntryFields
    BY DEF Table, EntryFields
  <1>2. /\ r.columns = columns /\ r.nullable = nullable /\ r.fks = fks
        /\ r.uniques = uniques /\ r.checks = checks
    BY DEF Table
  <1>3. [r EXCEPT !.columns = @ \cup more, !.nullable = @ \cup void] =
           Table(columns \cup more, nullable \cup void, fks, uniques, checks)
    <2> DEFINE e == [r EXCEPT !.columns = @ \cup more, !.nullable = @ \cup void]
    <2>0. e = [x \in DOMAIN e |-> e[x]] /\ DOMAIN e = EntryFields
      BY <1>1
    <2>1. e = Table(e.columns, e.nullable, e.fks, e.uniques, e.checks)
      <3> HIDE DEF e
      <3> QED BY <2>0, EntryOfFields
    <2>2. e.columns = columns \cup more /\ e.nullable = nullable \cup void /\ e.fks = fks
          /\ e.uniques = uniques /\ e.checks = checks
      BY <1>1, <1>2 DEF EntryFields
    <2> HIDE DEF e
    <2>3. e = Table(columns \cup more, nullable \cup void, fks, uniques, checks)
      BY <2>1, <2>2
    <2> QED BY <2>3 DEF e
  <1>4. [r EXCEPT !.columns = @ \ more, !.nullable = @ \ more] =
           Table(columns \ more, nullable \ more, fks, uniques, checks)
    <2> DEFINE e == [r EXCEPT !.columns = @ \ more, !.nullable = @ \ more]
    <2>0. e = [x \in DOMAIN e |-> e[x]] /\ DOMAIN e = EntryFields
      BY <1>1
    <2>1. e = Table(e.columns, e.nullable, e.fks, e.uniques, e.checks)
      <3> HIDE DEF e
      <3> QED BY <2>0, EntryOfFields
    <2>2. e.columns = columns \ more /\ e.nullable = nullable \ more /\ e.fks = fks
          /\ e.uniques = uniques /\ e.checks = checks
      BY <1>1, <1>2 DEF EntryFields
    <2> HIDE DEF e
    <2>3. e = Table(columns \ more, nullable \ more, fks, uniques, checks)
      BY <2>1, <2>2
    <2> QED BY <2>3 DEF e
  <1>5. [r EXCEPT !.nullable = @ \ more] =
           Table(columns, nullable \ more, fks, uniques, checks)
    <2> DEFINE e == [r EXCEPT !.nullable = @ \ more]
    <2>0. e = [x \in DOMAIN e |-> e[x]] /\ DOMAIN e = EntryFields
      BY <1>1
    <2>1. e = Table(e.columns, e.nullable, e.fks, e.uniques, e.checks)
      <3> HIDE DEF e
      <3> QED BY <2>0, EntryOfFields
    <2>2. e.columns = columns /\ e.nullable = nullable \ more /\ e.fks = fks
          /\ e.uniques = uniques /\ e.checks = checks
      BY <1>1, <1>2 DEF EntryFields
    <2> HIDE DEF e
    <2>3. e = Table(columns, nullable \ more, fks, uniques, checks)
      BY <2>1, <2>2
    <2> QED BY <2>3 DEF e
  <1>6. [r EXCEPT !.fks = @ \cup more] =
           Table(columns, nullable, fks \cup more, uniques, checks)
    <2> DEFINE e == [r EXCEPT !.fks = @ \cup more]
    <2>0. e = [x \in DOMAIN e |-> e[x]] /\ DOMAIN e = EntryFields
      BY <1>1
    <2>1. e = Table(e.columns, e.nullable, e.fks, e.uniques, e.checks)
      <3> HIDE DEF e
      <3> QED BY <2>0, EntryOfFields
    <2>2. e.columns = columns /\ e.nullable = nullable /\ e.fks = fks \cup more
          /\ e.uniques = uniques /\ e.checks = checks
      BY <1>1, <1>2 DEF EntryFields
    <2> HIDE DEF e
    <2>3. e = Table(columns, nullable, fks \cup more, uniques, checks)
      BY <2>1, <2>2
    <2> QED BY <2>3 DEF e
  <1>7. [r EXCEPT !.fks = FksWithout(@, more)] =
           Table(columns, nullable, FksWithout(fks, more), uniques, checks)
    <2> DEFINE e == [r EXCEPT !.fks = FksWithout(@, more)]
    <2>0. e = [x \in DOMAIN e |-> e[x]] /\ DOMAIN e = EntryFields
      BY <1>1
    <2>1. e = Table(e.columns, e.nullable, e.fks, e.uniques, e.checks)
      <3> HIDE DEF e
      <3> QED BY <2>0, EntryOfFields
    <2>2. e.columns = columns /\ e.nullable = nullable /\ e.fks = FksWithout(fks, more)
          /\ e.uniques = uniques /\ e.checks = checks
      BY <1>1, <1>2 DEF EntryFields
    <2> HIDE DEF e
    <2>3. e = Table(columns, nullable, FksWithout(fks, more), uniques, checks)
      BY <2>1, <2>2
    <2> QED BY <2>3 DEF e
  <1>8. [r EXCEPT !.uniques = more] =
           Table(columns, nullable, fks, more, checks)
    <2> DEFINE e == [r EXCEPT !.uniques = more]
    <2>0. e = [x \in DOMAIN e |-> e[x]] /\ DOMAIN e = EntryFields
      BY <1>1
    <2>1. e = Table(e.columns, e.nullable, e.fks, e.uniques, e.checks)
      <3> HIDE DEF e
      <3> QED BY <2>0, EntryOfFields
    <2>2. e.columns = columns /\ e.nullable = nullable /\ e.fks = fks
          /\ e.uniques = more /\ e.checks = checks
      BY <1>1, <1>2 DEF EntryFields
    <2> HIDE DEF e
    <2>3. e = Table(columns, nullable, fks, more, checks)
      BY <2>1, <2>2
    <2> QED BY <2>3 DEF e
  <1>9. [r EXCEPT !.checks = @ \cup more] =
           Table(columns, nullable, fks, uniques, checks \cup more)
    <2> DEFINE e == [r EXCEPT !.checks = @ \cup more]
    <2>0. e = [x \in DOMAIN e |-> e[x]] /\ DOMAIN e = EntryFields
      BY <1>1
    <2>1. e = Table(e.columns, e.nullable, e.fks, e.uniques, e.checks)
      <3> HIDE DEF e
      <3> QED BY <2>0, EntryOfFields
    <2>2. e.columns = columns /\ e.nullable = nullable /\ e.fks = fks
          /\ e.uniques = uniques /\ e.checks = checks \cup more
      BY <1>1, <1>2 DEF EntryFields
    <2> HIDE DEF e
    <2>3. e = Table(columns, nullable, fks, uniques, checks \cup more)
      BY <2>1, <2>2
    <2> QED BY <2>3 DEF e
  <1>10. [r EXCEPT !.checks = @ \ more] =
           Table(columns, nullable, fks, uniques, checks \ more)
    <2> DEFINE e == [r EXCEPT !.checks = @ \ more]
    <2>0. e = [x \in DOMAIN e |-> e[x]] /\ DOMAIN e = EntryFields
      BY <1>1
    <2>1. e = Table(e.columns, e.nullable, e.fks, e.uniques, e.checks)
      <3> HIDE DEF e
      <3> QED BY <2>0, EntryOfFields
    <2>2. e.columns = columns /\ e.nullable = nullable /\ e.fks = fks
          /\ e.uniques = uniques /\ e.checks = checks \ more
      BY <1>1, <1>2 DEF EntryFields
    <2> HIDE DEF e
    <2>3. e = Table(columns, nullable, fks, uniques, checks \ more)
      BY <2>1, <2>2
    <2> QED BY <2>3 DEF e
  <1> QED BY <1>3, <1>4, <1>5, <1>6, <1>7, <1>8, <1>9, <1>10 DEF Reworded



(* What each revision is to build. *)
First ==
    [outbox_event |-> outbox_event, workspace |-> workspace, app_user |-> app_user,
     series |-> series, audit_event |-> audit_event, video_project |-> video_project,
     artifact |-> artifact, generation_job |-> generation_job,
     artifact_version |-> artifact_version, provider_usage |-> provider_usage,
     state_transition |-> state_transition, comment |-> comment,
     review_decision |-> review_decision, scene_set |-> scene_set, scene |-> scene,
     series_character |-> series_character, series_style |-> series_style,
     character_reference |-> character_reference, publishing_package |-> publishing_package]

ColumnsAt(n, t) ==
    CASE t = "series" /\ n >= 3 -> First[t].columns \ {"style_preset"}
      [] t = "video_project" /\ n >= 8 -> First[t].columns \cup Pins
      [] t = "generation_job" /\ n >= 9 -> First[t].columns \cup {"series_id"}
      [] t = "review_decision" /\ n >= 10 -> First[t].columns \cup {"reasons"}
      [] t = "scene" /\ n >= 11 -> First[t].columns \cup {"kind", "card_text"}
      [] OTHER -> First[t].columns

NullableAt(n, t) ==
    CASE t = "video_project" /\ n >= 8 -> First[t].nullable \cup Pins
      [] t = "generation_job" /\ n >= 9 -> First[t].nullable \cup {"series_id", "project_id"}
      [] t = "scene" /\ n >= 11 -> First[t].nullable \cup {"card_text"}
      [] OTHER -> First[t].nullable

FksAt(n, t) ==
    CASE t = "artifact_version" /\ n >= 2 ->
              {Fk("artifact_id", "artifact", "CASCADE"),
               Fk("parent_version_id", "artifact_version", "CASCADE"),
               Fk("generation_job_id", "generation_job", "CASCADE")}
      [] t = "state_transition" /\ n >= 2 -> {Fk("job_id", "generation_job", "CASCADE")}
      [] t = "audit_event" /\ n >= 2 -> {}
      [] t = "review_decision" /\ n >= 2 ->
              {Fk("artifact_version_id", "artifact_version", "CASCADE")}
      [] t = "artifact" /\ n >= 4 -> First[t].fks \cup {Fk("scene_ref", "scene", "CASCADE")}
      [] t = "generation_job" /\ n >= 9 -> First[t].fks \cup {Fk("series_id", "series", "CASCADE")}
      [] OTHER -> First[t].fks

UniquesAt(n, t) ==
    IF t = "generation_job" /\ n >= 5 THEN {UniqueAmong("live", {"idempotency_key"})}
    ELSE First[t].uniques

ChecksAt(n, t) ==
    CASE t = "generation_job" /\ n >= 9 -> First[t].checks \cup {"scope"}
      [] t = "scene" /\ n >= 11 -> First[t].checks \cup CardChecks
      [] OTHER -> First[t].checks

TableAt(n, t) ==
    Table(ColumnsAt(n, t), NullableAt(n, t), FksAt(n, t), UniquesAt(n, t), ChecksAt(n, t))

NamesAt(n) ==
    (IF n >= 1 THEN DOMAIN CoreTables ELSE {}) \cup
    (IF n >= 4 THEN {"scene_set", "scene"} ELSE {}) \cup
    (IF n >= 7 THEN DOMAIN BrandingTables ELSE {}) \cup
    (IF n >= 13 THEN {"publishing_package"} ELSE {})

TablesAt(n) == [t \in NamesAt(n) |-> TableAt(n, t)]

GuardedAt(n) ==
    (IF n >= 1 THEN _IMMUTABLE_TABLES ELSE {}) \cup
    (IF n >= 4 THEN _NEW_IMMUTABLE_TABLES ELSE {}) \cup
    (IF n >= 13 THEN {"publishing_package"} ELSE {})

ViewsAt(n) == IF n >= 1 THEN {"artifact_version_status"} ELSE {}

TypesAt(n) ==
    (IF n >= 1 THEN DOMAIN _ENUM_TYPES ELSE {}) \cup
    (IF n >= 7 THEN {"branding_status"} ELSE {}) \cup
    (IF n >= 11 THEN {"scene_kind"} ELSE {})

LabelsAt(n, t) ==
    CASE t = "subject_type" /\ n >= 7 -> _ENUM_TYPES[t] \cup _NEW_SUBJECT_TYPES
      [] t = "artifact_kind" /\ n >= 12 -> _ENUM_TYPES[t] \cup _NEW_KINDS
      [] t = "branding_status" -> _BRANDING_STATUS_LABELS
      [] t = "scene_kind" -> {"illustration", "card"}
      [] OTHER -> _ENUM_TYPES[t]

(* c has the tables of revision n.                                        *)
IsAt(c, n, types) ==
    /\ IsCatalog(c)
    /\ DOMAIN c.table = NamesAt(n)
    /\ \A t \in NamesAt(n) : c.table[t] = TableAt(n, t)
    /\ c.trigger = GuardedAt(n)
    /\ c.view = ViewsAt(n)
    /\ c.type = types

(* Each operation on a table of a catalogue that has the tables of a       *)
(* revision, and the entry it puts there.                                  *)
LEMMA ColumnsAdded ==
    ASSUME NEW c, IsCatalog(c), NEW t, NEW columns, NEW nullable, NEW fks, NEW uniques,
           NEW checks, c.table[t] = Table(columns, nullable, fks, uniques, checks),
           NEW more, NEW void
    PROVE  Puts(AddColumns(c, t, more, void), c, t,
                Table(columns \cup more, nullable \cup void, fks, uniques, checks))
  <1> DEFINE r == c.table[t]
  <1>1. \A entry : Puts(Alter(c, t, entry), c, t, entry)
    BY Altered
  <1>2. Reworded(r, columns, nullable, fks, uniques, checks, more, void)
    <2> HIDE DEF r
    <2>1. r = Table(columns, nullable, fks, uniques, checks)
      BY DEF r
    <2> QED BY <2>1, Entries
  <1> QED BY <1>1, <1>2 DEF Reworded, AddColumns

LEMMA ColumnsDropped ==
    ASSUME NEW c, IsCatalog(c), NEW t, NEW columns, NEW nullable, NEW fks, NEW uniques,
           NEW checks, c.table[t] = Table(columns, nullable, fks, uniques, checks),
           NEW more
    PROVE  Puts(DropColumns(c, t, more), c, t,
                Table(columns \ more, nullable \ more, fks, uniques, checks))
  <1> DEFINE r == c.table[t]
  <1>1. \A entry : Puts(Alter(c, t, entry), c, t, entry)
    BY Altered
  <1>2. Reworded(r, columns, nullable, fks, uniques, checks, more, {})
    <2> HIDE DEF r
    <2>1. r = Table(columns, nullable, fks, uniques, checks)
      BY DEF r
    <2> QED BY <2>1, Entries
  <1> QED BY <1>1, <1>2 DEF Reworded, DropColumns

LEMMA NotNullSet ==
    ASSUME NEW c, IsCatalog(c), NEW t, NEW columns, NEW nullable, NEW fks, NEW uniques,
           NEW checks, c.table[t] = Table(columns, nullable, fks, uniques, checks),
           NEW more
    PROVE  Puts(SetNotNull(c, t, more), c, t,
                Table(columns, nullable \ more, fks, uniques, checks))
  <1> DEFINE r == c.table[t]
  <1>1. \A entry : Puts(Alter(c, t, entry), c, t, entry)
    BY Altered
  <1>2. Reworded(r, columns, nullable, fks, uniques, checks, more, {})
    <2> HIDE DEF r
    <2>1. r = Table(columns, nullable, fks, uniques, checks)
      BY DEF r
    <2> QED BY <2>1, Entries
  <1> QED BY <1>1, <1>2 DEF Reworded, SetNotNull

LEMMA FksAdded ==
    ASSUME NEW c, IsCatalog(c), NEW t, NEW columns, NEW nullable, NEW fks, NEW uniques,
           NEW checks, c.table[t] = Table(columns, nullable, fks, uniques, checks),
           NEW more
    PROVE  Puts(AddFks(c, t, more), c, t,
                Table(columns, nullable, fks \cup more, uniques, checks))
  <1> DEFINE r == c.table[t]
  <1>1. \A entry : Puts(Alter(c, t, entry), c, t, entry)
    BY Altered
  <1>2. Reworded(r, columns, nullable, fks, uniques, checks, more, {})
    <2> HIDE DEF r
    <2>1. r = Table(columns, nullable, fks, uniques, checks)
      BY DEF r
    <2> QED BY <2>1, Entries
  <1> QED BY <1>1, <1>2 DEF Reworded, AddFks

LEMMA FksDropped ==
    ASSUME NEW c, IsCatalog(c), NEW t, NEW columns, NEW nullable, NEW fks, NEW uniques,
           NEW checks, c.table[t] = Table(columns, nullable, fks, uniques, checks),
           NEW more
    PROVE  Puts(DropFks(c, t, more), c, t,
                Table(columns, nullable, FksWithout(fks, more), uniques, checks))
  <1> DEFINE r == c.table[t]
  <1>1. \A entry : Puts(Alter(c, t, entry), c, t, entry)
    BY Altered
  <1>2. Reworded(r, columns, nullable, fks, uniques, checks, more, {})
    <2> HIDE DEF r
    <2>1. r = Table(columns, nullable, fks, uniques, checks)
      BY DEF r
    <2> QED BY <2>1, Entries
  <1> QED BY <1>1, <1>2 DEF Reworded, DropFks

LEMMA UniquesSet ==
    ASSUME NEW c, IsCatalog(c), NEW t, NEW columns, NEW nullable, NEW fks, NEW uniques,
           NEW checks, c.table[t] = Table(columns, nullable, fks, uniques, checks),
           NEW more
    PROVE  Puts(SetUniques(c, t, more), c, t,
                Table(columns, nullable, fks, more, checks))
  <1> DEFINE r == c.table[t]
  <1>1. \A entry : Puts(Alter(c, t, entry), c, t, entry)
    BY Altered
  <1>2. Reworded(r, columns, nullable, fks, uniques, checks, more, {})
    <2> HIDE DEF r
    <2>1. r = Table(columns, nullable, fks, uniques, checks)
      BY DEF r
    <2> QED BY <2>1, Entries
  <1> QED BY <1>1, <1>2 DEF Reworded, SetUniques

LEMMA ChecksAdded ==
    ASSUME NEW c, IsCatalog(c), NEW t, NEW columns, NEW nullable, NEW fks, NEW uniques,
           NEW checks, c.table[t] = Table(columns, nullable, fks, uniques, checks),
           NEW more
    PROVE  Puts(AddChecks(c, t, more), c, t,
                Table(columns, nullable, fks, uniques, checks \cup more))
  <1> DEFINE r == c.table[t]
  <1>1. \A entry : Puts(Alter(c, t, entry), c, t, entry)
    BY Altered
  <1>2. Reworded(r, columns, nullable, fks, uniques, checks, more, {})
    <2> HIDE DEF r
    <2>1. r = Table(columns, nullable, fks, uniques, checks)
      BY DEF r
    <2> QED BY <2>1, Entries
  <1> QED BY <1>1, <1>2 DEF Reworded, AddChecks

LEMMA ChecksDropped ==
    ASSUME NEW c, IsCatalog(c), NEW t, NEW columns, NEW nullable, NEW fks, NEW uniques,
           NEW checks, c.table[t] = Table(columns, nullable, fks, uniques, checks),
           NEW more
    PROVE  Puts(DropChecks(c, t, more), c, t,
                Table(columns, nullable, fks, uniques, checks \ more))
  <1> DEFINE r == c.table[t]
  <1>1. \A entry : Puts(Alter(c, t, entry), c, t, entry)
    BY Altered
  <1>2. Reworded(r, columns, nullable, fks, uniques, checks, more, {})
    <2> HIDE DEF r
    <2>1. r = Table(columns, nullable, fks, uniques, checks)
      BY DEF r
    <2> QED BY <2>1, Entries
  <1> QED BY <1>1, <1>2 DEF Reworded, DropChecks

(* Revisions m and n differ in no more than the entries of the tables T,   *)
(* and so do the catalogues c and d.                                       *)
Differ(m, n, T) ==
    /\ T \subseteq NamesAt(m)
    /\ NamesAt(n) = NamesAt(m) /\ GuardedAt(n) = GuardedAt(m)
    /\ ViewsAt(n) = ViewsAt(m)
    /\ \A s \in NamesAt(m) : s \notin T => TableAt(n, s) = TableAt(m, s)

(* Differing is symmetric; what one entry was put for differs in it alone. *)
LEMMA DifferBothWays ==
    ASSUME NEW m, NEW n, NEW T, Differ(m, n, T)
    PROVE  Differ(n, m, T)
  BY DEF Differ

LEMMA Moved ==
    ASSUME NEW types, NEW m, NEW n, NEW t, Differ(m, n, {t}), NEW c, NEW d,
           IsAt(c, m, types), Puts(d, c, t, TableAt(n, t))
    PROVE  IsAt(d, n, types)
  BY DEF IsAt, Puts, Differ

LEMMA PutTwice ==
    ASSUME NEW c, NEW d, NEW e, NEW t, NEW entry, NEW final,
           Puts(d, c, t, entry), Puts(e, d, t, final)
    PROVE  Puts(e, c, t, final)
  BY DEF Puts

LEMMA TheEntry ==
    ASSUME NEW types, NEW n, NEW c, IsAt(c, n, types), NEW t \in NamesAt(n)
    PROVE  /\ IsCatalog(c)
           /\ c.table[t] = Table(ColumnsAt(n, t), NullableAt(n, t), FksAt(n, t),
                                 UniquesAt(n, t), ChecksAt(n, t))
  BY DEF IsAt, TableAt

(* A revision that puts the entries of the next, and touches no other, is  *)
(* the next.                                                               *)
LEMMA Differences ==
    /\ Differ(1, 2, {"artifact_version", "state_transition", "audit_event", "review_decision"})
    /\ Differ(2, 3, {"series"})
    /\ Differ(4, 5, {"generation_job"})
    /\ Differ(5, 6, {})
    /\ Differ(7, 8, {"video_project"})
    /\ Differ(8, 9, {"generation_job"})
    /\ Differ(9, 10, {"review_decision"})
    /\ Differ(11, 12, {})
  BY DEF Differ, NamesAt, CoreTables, GuardedAt, ViewsAt, TableAt, ColumnsAt,
         NullableAt, FksAt, UniquesAt, ChecksAt

(* What the revisions that alter tables make of their catalogue, one lemma *)
(* for a revision, upgrade and downgrade: the style preset a series loses  *)
(* (3), the live-job key (5), the branding pins of a project (8), the      *)
(* rejection reasons (10).                                                 *)
LEMMA EditionsOfSeries ==
    /\ TableAt(3, "series") = Table(
        ColumnsAt(2, "series") \ {"style_preset"}, NullableAt(2, "series") \ {"style_preset"},
        FksAt(2, "series"), UniquesAt(2, "series"), ChecksAt(2, "series"))
    /\ TableAt(2, "series") = Table(
        ColumnsAt(3, "series") \cup {"style_preset"}, NullableAt(3, "series") \cup {},
        FksAt(3, "series"), UniquesAt(3, "series"), ChecksAt(3, "series"))
  <1>1. First["series"].columns = series.columns /\ First["series"].nullable = series.nullable
    BY DEF First
  <1>2. "style_preset" \in series.columns /\ "style_preset" \notin series.nullable
    BY DEF series, Table
  <1>3. /\ ColumnsAt(3, "series") = ColumnsAt(2, "series") \ {"style_preset"}
        /\ ColumnsAt(2, "series") = ColumnsAt(3, "series") \cup {"style_preset"}
    BY <1>1, <1>2 DEF ColumnsAt
  <1>4. /\ NullableAt(3, "series") = NullableAt(2, "series") \ {"style_preset"}
        /\ NullableAt(2, "series") = NullableAt(3, "series") \cup {}
    BY <1>1, <1>2 DEF NullableAt
  <1>5. /\ FksAt(3, "series") = FksAt(2, "series")
        /\ UniquesAt(3, "series") = UniquesAt(2, "series")
        /\ ChecksAt(3, "series") = ChecksAt(2, "series")
    BY DEF FksAt, UniquesAt, ChecksAt
  <1> QED BY <1>3, <1>4, <1>5 DEF TableAt

LEMMA StylePreset ==
    ASSUME NEW c, NEW types
    PROVE  /\ IsAt(c, 2, types) => IsAt(style_preset_upgrade(c), 3, types)
           /\ IsAt(c, 3, types) => IsAt(style_preset_downgrade(c), 2, types)
  <1> "series" \in NamesAt(2) /\ "series" \in NamesAt(3)
    BY Differences DEF Differ
  <1>1. ASSUME IsAt(c, 2, types) PROVE IsAt(style_preset_upgrade(c), 3, types)
    <2>0. /\ IsCatalog(c)
          /\ c.table["series"] =
               Table(ColumnsAt(2, "series"), NullableAt(2, "series"),
                     FksAt(2, "series"), UniquesAt(2, "series"),
                     ChecksAt(2, "series"))
      BY <1>1, TheEntry
    <2>1. Puts(DropColumns(c, "series", {"style_preset"}), c, "series",
        Table( ColumnsAt(2, "series") \ {"style_preset"}, NullableAt(2,
            "series") \ {"style_preset"}, FksAt(2, "series"), UniquesAt(2, "series"),
            ChecksAt(2, "series")))
      BY <2>0, ColumnsDropped
    <2>2. Puts(style_preset_upgrade(c), c, "series", TableAt(3, "series"))
      BY <2>1, EditionsOfSeries DEF style_preset_upgrade
    <2> QED BY <1>1, <2>2, Moved, Differences
  <1>2. ASSUME IsAt(c, 3, types) PROVE IsAt(style_preset_downgrade(c), 2, types)
    <2>0. /\ IsCatalog(c)
          /\ c.table["series"] =
               Table(ColumnsAt(3, "series"), NullableAt(3, "series"),
                     FksAt(3, "series"), UniquesAt(3, "series"),
                     ChecksAt(3, "series"))
      BY <1>2, TheEntry
    <2>1. Puts(AddColumns(c, "series", {"style_preset"}, {}), c, "series",
        Table( ColumnsAt(3, "series") \cup {"style_preset"}, NullableAt(3,
            "series") \cup {}, FksAt(3, "series"), UniquesAt(3, "series"), ChecksAt(3,
            "series")))
      BY <2>0, ColumnsAdded
    <2>2. Puts(style_preset_downgrade(c), c, "series", TableAt(2, "series"))
      BY <2>1, EditionsOfSeries DEF style_preset_downgrade
    <2> QED BY <1>2, <2>2, Moved, Differences, DifferBothWays
  <1> QED BY <1>1, <1>2

LEMMA LiveKey ==
    ASSUME NEW c, NEW types
    PROVE  /\ IsAt(c, 4, types) => IsAt(live_key_upgrade(c), 5, types)
           /\ IsAt(c, 5, types) => IsAt(live_key_downgrade(c), 4, types)
  <1> DEFINE t == "generation_job"
  <1> t \in NamesAt(4) /\ t \in NamesAt(5)
    BY Differences DEF Differ
  <1>1. /\ TableAt(5, t) = Table(ColumnsAt(4, t), NullableAt(4, t), FksAt(4, t),
                                 {UniqueAmong("live", {"idempotency_key"})}, ChecksAt(4, t))
        /\ TableAt(4, t) = Table(ColumnsAt(5, t), NullableAt(5, t), FksAt(5, t),
                                 {Unique({"idempotency_key"})}, ChecksAt(5, t))
    <2>1. First[t].uniques = {Unique({"idempotency_key"})}
      BY DEF First, generation_job, Table
    <2> QED BY <2>1 DEF TableAt, ColumnsAt, NullableAt, FksAt, UniquesAt, ChecksAt
  <1>2. ASSUME IsAt(c, 4, types) PROVE IsAt(live_key_upgrade(c), 5, types)
    <2>0. /\ IsCatalog(c)
          /\ c.table[t] = Table(ColumnsAt(4, t), NullableAt(4, t), FksAt(4, t),
                                UniquesAt(4, t), ChecksAt(4, t))
      BY <1>2, TheEntry
    <2>1. Puts(SetUniques(c, "generation_job", {UniqueAmong("live", {"idempotency_key"})}), c, t,
        Table(ColumnsAt(4, t), NullableAt(4, t), FksAt(4, t), {UniqueAmong("live",
            {"idempotency_key"})}, ChecksAt(4, t)))
      BY <2>0, UniquesSet
    <2>2. Puts(live_key_upgrade(c), c, t, TableAt(5, t))
      BY <2>1, <1>1 DEF live_key_upgrade
    <2> QED BY <1>2, <2>2, Moved, Differences
  <1>3. ASSUME IsAt(c, 5, types) PROVE IsAt(live_key_downgrade(c), 4, types)
    <2>0. /\ IsCatalog(c)
          /\ c.table[t] = Table(ColumnsAt(5, t), NullableAt(5, t), FksAt(5, t),
                                UniquesAt(5, t), ChecksAt(5, t))
      BY <1>3, TheEntry
    <2>1. Puts(SetUniques(c, "generation_job", {Unique({"idempotency_key"})}), c, t,
        Table(ColumnsAt(5, t), NullableAt(5, t), FksAt(5, t),
            {Unique({"idempotency_key"})}, ChecksAt(5, t)))
      BY <2>0, UniquesSet
    <2>2. Puts(live_key_downgrade(c), c, t, TableAt(4, t))
      BY <2>1, <1>1 DEF live_key_downgrade
    <2> QED BY <1>3, <2>2, Moved, Differences, DifferBothWays
  <1> QED BY <1>2, <1>3

LEMMA BrandingPins ==
    ASSUME NEW c, NEW types
    PROVE  /\ IsAt(c, 7, types) => IsAt(pins_upgrade(c), 8, types)
           /\ IsAt(c, 8, types) => IsAt(pins_downgrade(c), 7, types)
  <1> DEFINE t == "video_project"
  <1> t \in NamesAt(7) /\ t \in NamesAt(8)
    BY Differences DEF Differ
  <1>1. /\ TableAt(8, t) = Table(ColumnsAt(7, t) \cup Pins, NullableAt(7, t) \cup Pins,
                                 FksAt(7, t), UniquesAt(7, t), ChecksAt(7, t))
        /\ TableAt(7, t) = Table(ColumnsAt(8, t) \ Pins, NullableAt(8, t) \ Pins,
                                 FksAt(8, t), UniquesAt(8, t), ChecksAt(8, t))
    <2>1. First[t].columns \cap Pins = {} /\ First[t].nullable \cap Pins = {}
      BY DEF First, video_project, Table, Pins, Mutable, Kept
    <2>2. /\ ColumnsAt(8, t) = ColumnsAt(7, t) \cup Pins
          /\ ColumnsAt(7, t) = ColumnsAt(8, t) \ Pins
      BY <2>1 DEF ColumnsAt
    <2>3. /\ NullableAt(8, t) = NullableAt(7, t) \cup Pins
          /\ NullableAt(7, t) = NullableAt(8, t) \ Pins
      BY <2>1 DEF NullableAt
    <2>4. FksAt(7, t) = FksAt(8, t) /\ UniquesAt(7, t) = UniquesAt(8, t)
          /\ ChecksAt(7, t) = ChecksAt(8, t)
      BY DEF FksAt, UniquesAt, ChecksAt
    <2> QED BY <2>2, <2>3, <2>4 DEF TableAt
  <1>2. ASSUME IsAt(c, 7, types) PROVE IsAt(pins_upgrade(c), 8, types)
    <2>0. /\ IsCatalog(c)
          /\ c.table[t] = Table(ColumnsAt(7, t), NullableAt(7, t), FksAt(7, t),
                                UniquesAt(7, t), ChecksAt(7, t))
      BY <1>2, TheEntry
    <2>1. Puts(AddColumns(c, "video_project", Pins, Pins), c, t,
        Table(ColumnsAt(7, t) \cup Pins, NullableAt(7, t) \cup Pins, FksAt(7, t),
            UniquesAt(7, t), ChecksAt(7, t)))
      BY <2>0, ColumnsAdded
    <2>2. Puts(pins_upgrade(c), c, t, TableAt(8, t))
      BY <2>1, <1>1 DEF pins_upgrade
    <2> QED BY <1>2, <2>2, Moved, Differences
  <1>3. ASSUME IsAt(c, 8, types) PROVE IsAt(pins_downgrade(c), 7, types)
    <2>0. /\ IsCatalog(c)
          /\ c.table[t] = Table(ColumnsAt(8, t), NullableAt(8, t), FksAt(8, t),
                                UniquesAt(8, t), ChecksAt(8, t))
      BY <1>3, TheEntry
    <2>1. Puts(DropColumns(c, "video_project", Pins), c, t,
        Table(ColumnsAt(8, t) \ Pins, NullableAt(8, t) \ Pins, FksAt(8, t), UniquesAt(8,
            t), ChecksAt(8, t)))
      BY <2>0, ColumnsDropped
    <2>2. Puts(pins_downgrade(c), c, t, TableAt(7, t))
      BY <2>1, <1>1 DEF pins_downgrade
    <2> QED BY <1>3, <2>2, Moved, Differences, DifferBothWays
  <1> QED BY <1>2, <1>3

LEMMA Reasons ==
    ASSUME NEW c, NEW types
    PROVE  /\ IsAt(c, 9, types) => IsAt(reasons_upgrade(c), 10, types)
           /\ IsAt(c, 10, types) => IsAt(reasons_downgrade(c), 9, types)
  <1> DEFINE t == "review_decision"
  <1> t \in NamesAt(9) /\ t \in NamesAt(10)
    BY Differences DEF Differ
  <1>1. /\ TableAt(10, t) = Table(ColumnsAt(9, t) \cup {"reasons"}, NullableAt(9, t) \cup {},
                                  FksAt(9, t), UniquesAt(9, t), ChecksAt(9, t))
        /\ TableAt(9, t) = Table(ColumnsAt(10, t) \ {"reasons"}, NullableAt(10, t) \ {"reasons"},
                                 FksAt(10, t), UniquesAt(10, t), ChecksAt(10, t))
    <2>1. "reasons" \notin First[t].columns /\ "reasons" \notin First[t].nullable
      BY DEF First, review_decision, Table, Kept
    <2>2. /\ ColumnsAt(10, t) = ColumnsAt(9, t) \cup {"reasons"}
          /\ ColumnsAt(9, t) = ColumnsAt(10, t) \ {"reasons"}
      BY <2>1 DEF ColumnsAt
    <2>3. /\ NullableAt(10, t) = NullableAt(9, t) \cup {}
          /\ NullableAt(9, t) = NullableAt(10, t) \ {"reasons"}
      BY <2>1 DEF NullableAt
    <2>4. FksAt(9, t) = FksAt(10, t) /\ UniquesAt(9, t) = UniquesAt(10, t)
          /\ ChecksAt(9, t) = ChecksAt(10, t)
      BY DEF FksAt, UniquesAt, ChecksAt
    <2> QED BY <2>2, <2>3, <2>4 DEF TableAt
  <1>2. ASSUME IsAt(c, 9, types) PROVE IsAt(reasons_upgrade(c), 10, types)
    <2>0. /\ IsCatalog(c)
          /\ c.table[t] = Table(ColumnsAt(9, t), NullableAt(9, t), FksAt(9, t),
                                UniquesAt(9, t), ChecksAt(9, t))
      BY <1>2, TheEntry
    <2>1. Puts(AddColumns(c, "review_decision", {"reasons"}, {}), c, t,
        Table(ColumnsAt(9, t) \cup {"reasons"}, NullableAt(9, t) \cup {}, FksAt(9, t),
            UniquesAt(9, t), ChecksAt(9, t)))
      BY <2>0, ColumnsAdded
    <2>2. Puts(reasons_upgrade(c), c, t, TableAt(10, t))
      BY <2>1, <1>1 DEF reasons_upgrade
    <2> QED BY <1>2, <2>2, Moved, Differences
  <1>3. ASSUME IsAt(c, 10, types) PROVE IsAt(reasons_downgrade(c), 9, types)
    <2>0. /\ IsCatalog(c)
          /\ c.table[t] = Table(ColumnsAt(10, t), NullableAt(10, t), FksAt(10, t),
                                UniquesAt(10, t), ChecksAt(10, t))
      BY <1>3, TheEntry
    <2>1. Puts(DropColumns(c, "review_decision", {"reasons"}), c, t,
        Table(ColumnsAt(10, t) \ {"reasons"}, NullableAt(10, t) \ {"reasons"}, FksAt(10,
            t), UniquesAt(10, t), ChecksAt(10, t)))
      BY <2>0, ColumnsDropped
    <2>2. Puts(reasons_downgrade(c), c, t, TableAt(9, t))
      BY <2>1, <1>1 DEF reasons_downgrade
    <2> QED BY <1>3, <2>2, Moved, Differences, DifferBothWays
  <1> QED BY <1>2, <1>3

(* An entry is there after it was put.                                     *)
LEMMA AfterPut ==
    ASSUME NEW c, NEW d, NEW t \in DOMAIN c.table, NEW entry, Puts(d, c, t, entry)
    PROVE  IsCatalog(d) /\ t \in DOMAIN d.table /\ d.table[t] = entry
  BY DEF Puts

LEMMA FkDropped ==
    ASSUME NEW fks, NEW column, NEW to, NEW action, \A f \in fks : f.column # column
    PROVE  FksWithout(fks \cup {Fk(column, to, action)}, {column}) = fks
  <1>1. Fk(column, to, action).column = column
    BY DEF Fk
  <1> QED BY <1>1 DEF FksWithout

(* Jobs of a series (revision 9): columns, references, nullability,        *)
(* uniques and the scope check of generation_job.                          *)
LEMMA SeriesJobs ==
    ASSUME NEW c, NEW types
    PROVE  /\ IsAt(c, 8, types) => IsAt(series_jobs_upgrade(c), 9, types)
           /\ IsAt(c, 9, types) => IsAt(series_jobs_downgrade(c), 8, types)
  <1> DEFINE t == "generation_job"
             new == {"series_id"}
             loose == {"series_id", "project_id"}
             owner == {Fk("series_id", "series", "CASCADE")}
             scope == {"scope"}
  <1>0. t \in NamesAt(8) /\ t \in NamesAt(9)
    BY Differences DEF Differ
  <1>1. /\ ColumnsAt(9, t) = ColumnsAt(8, t) \cup new
        /\ NullableAt(9, t) = NullableAt(8, t) \cup loose
        /\ FksAt(9, t) = FksAt(8, t) \cup owner
        /\ UniquesAt(9, t) = UniquesAt(8, t)
        /\ ChecksAt(9, t) = ChecksAt(8, t) \cup scope
    BY DEF ColumnsAt, NullableAt, FksAt, UniquesAt, ChecksAt
  <1>2. /\ ColumnsAt(8, t) = ColumnsAt(9, t) \ new
        /\ NullableAt(8, t) = (NullableAt(9, t) \ {"project_id"}) \ new
        /\ ChecksAt(8, t) = ChecksAt(9, t) \ scope
    <2>1. /\ First[t].columns \cap new = {} /\ First[t].nullable \cap loose = {}
          /\ First[t].checks \cap scope = {}
      BY DEF First, generation_job, Table, Kept, Mutable
    <2> QED BY <2>1 DEF ColumnsAt, NullableAt, ChecksAt
  <1>3. FksWithout(FksAt(9, t), new) = FksAt(8, t)
    <2>1. \A f \in FksAt(8, t) : f.column # "series_id"
      BY DEF FksAt, First, generation_job, Table, Fk
    <2>2. FksWithout(FksAt(8, t) \cup owner, new) = FksAt(8, t)
      <3> DEFINE fks == FksAt(8, t)
      <3> HIDE DEF fks
      <3>1. FksWithout(fks \cup {Fk("series_id", "series", "CASCADE")}, {"series_id"}) = fks
        BY <2>1, FkDropped DEF fks
      <3> QED BY <3>1 DEF fks
    <2> QED BY <2>2, <1>1
  <1>4. ASSUME IsAt(c, 8, types) PROVE IsAt(series_jobs_upgrade(c), 9, types)
    <2> DEFINE wide == AddColumns(c, t, new, loose)
               owned == AddFks(wide, t, owner)
               final == AddChecks(owned, t, scope)
    <2>0. /\ t \in DOMAIN c.table /\ IsCatalog(c)
          /\ c.table[t] = Table(ColumnsAt(8, t), NullableAt(8, t), FksAt(8, t), UniquesAt(8, t),
                                ChecksAt(8, t))
      BY <1>0, <1>4, TheEntry DEF IsAt
    <2>1. Puts(wide, c, t, Table(ColumnsAt(8, t) \cup new, NullableAt(8, t) \cup loose,
                                 FksAt(8, t), UniquesAt(8, t), ChecksAt(8, t)))
      BY <2>0, ColumnsAdded
    <2> HIDE DEF wide
    <2>2. Puts(owned, wide, t, Table(ColumnsAt(8, t) \cup new, NullableAt(8, t) \cup loose,
                                     FksAt(8, t) \cup owner, UniquesAt(8, t), ChecksAt(8, t)))
      <3>1. IsCatalog(wide) /\ wide.table[t] =
            Table(ColumnsAt(8, t) \cup new, NullableAt(8, t) \cup loose, FksAt(8, t),
                  UniquesAt(8, t), ChecksAt(8, t))
        BY <2>0, <2>1, AfterPut
      <3> QED BY <3>1, FksAdded
    <2> HIDE DEF owned
    <2>3. Puts(owned, c, t, Table(ColumnsAt(8, t) \cup new, NullableAt(8, t) \cup loose,
                                  FksAt(8, t) \cup owner, UniquesAt(8, t), ChecksAt(8, t)))
      BY <2>1, <2>2, PutTwice
    <2>4. Puts(final, owned, t,
               Table(ColumnsAt(8, t) \cup new, NullableAt(8, t) \cup loose,
                     FksAt(8, t) \cup owner, UniquesAt(8, t), ChecksAt(8, t) \cup scope))
      <3>1. IsCatalog(owned) /\ owned.table[t] =
            Table(ColumnsAt(8, t) \cup new, NullableAt(8, t) \cup loose, FksAt(8,
                  t) \cup owner, UniquesAt(8, t), ChecksAt(8, t))
        BY <2>0, <2>3, AfterPut
      <3> QED BY <3>1, ChecksAdded
    <2> HIDE DEF final
    <2>5. Puts(final, c, t, TableAt(9, t))
      BY <2>3, <2>4, <1>1, PutTwice DEF TableAt
    <2>6. IsAt(final, 9, types)
      BY <1>4, <2>5, Moved, Differences
    <2> QED BY <2>6 DEF series_jobs_upgrade, final, owned, wide
  <1>5. ASSUME IsAt(c, 9, types) PROVE IsAt(series_jobs_downgrade(c), 8, types)
    <2> DEFINE plain == DropChecks(c, t, scope)
               free == DropFks(plain, t, new)
               strict == SetNotNull(free, t, {"project_id"})
               final == DropColumns(strict, t, new)
               fks == FksWithout(FksAt(9, t), new)
    <2>0. /\ t \in DOMAIN c.table /\ IsCatalog(c)
          /\ c.table[t] = Table(ColumnsAt(9, t), NullableAt(9, t), FksAt(9, t), UniquesAt(9, t),
                                ChecksAt(9, t))
      BY <1>0, <1>5, TheEntry DEF IsAt
    <2>1. Puts(plain, c, t, Table(ColumnsAt(9, t), NullableAt(9, t), FksAt(9, t),
                                  UniquesAt(9, t), ChecksAt(9, t) \ scope))
      BY <2>0, ChecksDropped
    <2> HIDE DEF plain
    <2>2. Puts(free, plain, t, Table(ColumnsAt(9, t), NullableAt(9, t), fks,
                                     UniquesAt(9, t), ChecksAt(9, t) \ scope))
      <3>1. IsCatalog(plain) /\ plain.table[t] =
            Table(ColumnsAt(9, t), NullableAt(9, t), FksAt(9, t), UniquesAt(9, t),
                  ChecksAt(9, t) \ scope)
        BY <2>0, <2>1, AfterPut
      <3> QED BY <3>1, FksDropped
    <2> HIDE DEF free, fks
    <2>3. Puts(free, c, t, Table(ColumnsAt(9, t), NullableAt(9, t), fks,
                                 UniquesAt(9, t), ChecksAt(9, t) \ scope))
      BY <2>1, <2>2, PutTwice
    <2>4. Puts(strict, free, t, Table(ColumnsAt(9, t), NullableAt(9, t) \ {"project_id"},
                                      fks, UniquesAt(9, t), ChecksAt(9, t) \ scope))
      <3>1. IsCatalog(free) /\ free.table[t] =
            Table(ColumnsAt(9, t), NullableAt(9, t), fks, UniquesAt(9, t), ChecksAt(9,
                  t) \ scope)
        BY <2>0, <2>3, AfterPut
      <3> QED BY <3>1, NotNullSet
    <2> HIDE DEF strict
    <2>5. Puts(strict, c, t, Table(ColumnsAt(9, t), NullableAt(9, t) \ {"project_id"},
                                   fks, UniquesAt(9, t), ChecksAt(9, t) \ scope))
      BY <2>3, <2>4, PutTwice
    <2>6. /\ IsCatalog(strict)
          /\ strict.table[t] = Table(ColumnsAt(9, t), NullableAt(9, t) \ {"project_id"},
                                     fks, UniquesAt(9, t), ChecksAt(9, t) \ scope)
      BY <2>0, <2>5, AfterPut
    <2>7. Puts(final, strict, t,
               Table(ColumnsAt(9, t) \ new, (NullableAt(9, t) \ {"project_id"}) \ new,
                     fks, UniquesAt(9, t), ChecksAt(9, t) \ scope))
      BY <2>6, ColumnsDropped
    <2> HIDE DEF final
    <2>8. Puts(final, c, t,
               Table(ColumnsAt(9, t) \ new, (NullableAt(9, t) \ {"project_id"}) \ new,
                     fks, UniquesAt(9, t), ChecksAt(9, t) \ scope))
      BY <2>5, <2>7, PutTwice
    <2>9. Puts(final, c, t, TableAt(8, t))
      BY <2>8, <1>1, <1>2, <1>3 DEF TableAt, fks
    <2>10. IsAt(final, 8, types)
      BY <1>5, <2>9, Moved, Differences, DifferBothWays
    <2> QED BY <2>10 DEF series_jobs_downgrade, final, strict, free, plain
  <1> QED BY <1>4, <1>5

(* References dropped and declared again, and four tables altered in turn. *)
LEMMA FksReplaced ==
    ASSUME NEW c, IsCatalog(c), NEW t \in DOMAIN c.table, NEW columns, NEW nullable, NEW fks,
           NEW uniques, NEW checks, c.table[t] = Table(columns, nullable, fks, uniques, checks),
           NEW gone, NEW more
    PROVE  Puts(AddFks(DropFks(c, t, gone), t, more), c, t,
                Table(columns, nullable, FksWithout(fks, gone) \cup more,
                      uniques, checks))
  <1> DEFINE left == FksWithout(fks, gone)
             d == DropFks(c, t, gone)
  <1>1. Puts(d, c, t, Table(columns, nullable, left, uniques, checks))
    BY FksDropped
  <1> HIDE DEF d, left
  <1>2. IsCatalog(d) /\ d.table[t] = Table(columns, nullable, left, uniques, checks)
    BY <1>1, AfterPut
  <1>3. Puts(AddFks(d, t, more), d, t, Table(columns, nullable, left \cup more, uniques, checks))
    BY <1>2, FksAdded
  <1>4. Puts(AddFks(d, t, more), c, t, Table(columns, nullable, left \cup more, uniques, checks))
    BY <1>1, <1>3, PutTwice
  <1> QED BY <1>4 DEF d, left

LEMMA FourMoved ==
    ASSUME NEW types, NEW m, NEW n, NEW t1, NEW t2, NEW t3, NEW t4, Differ(m, n, {t1, t2, t3, t4}),
           NEW c, NEW c1, NEW c2, NEW c3, NEW c4, IsAt(c, m, types),
           t1 # t2, t1 # t3, t1 # t4, t2 # t3, t2 # t4, t3 # t4,
           Puts(c1, c, t1, TableAt(n, t1)), Puts(c2, c1, t2, TableAt(n, t2)),
           Puts(c3, c2, t3, TableAt(n, t3)), Puts(c4, c3, t4, TableAt(n, t4))
    PROVE  IsAt(c4, n, types)
  BY DEF IsAt, Puts, Differ

(* The references of the four append-only tables, before and after.        *)
LEMMA EditionsOfAppendOnly ==
    /\ FksWithout(FksAt(1, "artifact_version"),
          {"parent_version_id", "created_by", "generation_job_id"}) \cup
       {Fk("parent_version_id", "artifact_version", "CASCADE"),
        Fk("generation_job_id", "generation_job", "CASCADE")} = FksAt(2, "artifact_version")
    /\ FksWithout(FksAt(1, "state_transition"), {"actor_id", "job_id"}) \cup
       {Fk("job_id", "generation_job", "CASCADE")} = FksAt(2, "state_transition")
    /\ FksWithout(FksAt(1, "audit_event"), {"actor_id"}) = FksAt(2, "audit_event")
    /\ FksWithout(FksAt(1, "review_decision"), {"reviewer_id"}) =
       FksAt(2, "review_decision")
    /\ FksWithout(FksAt(2, "artifact_version"), {"generation_job_id", "parent_version_id"}) \cup
       {Fk("generation_job_id", "generation_job", "SET_NULL"),
        Fk("created_by", "app_user", "SET_NULL"),
        Fk("parent_version_id", "artifact_version", "SET_NULL")} = FksAt(1, "artifact_version")
    /\ FksWithout(FksAt(2, "state_transition"), {"job_id"}) \cup
       {Fk("job_id", "generation_job", "SET_NULL"), Fk("actor_id", "app_user", "SET_NULL")} =
       FksAt(1, "state_transition")
    /\ FksAt(2, "audit_event") \cup {Fk("actor_id", "app_user", "SET_NULL")} =
       FksAt(1, "audit_event")
    /\ FksAt(2, "review_decision") \cup {Fk("reviewer_id", "app_user", "SET_NULL")} =
       FksAt(1, "review_decision")
  <1>1. \A column, to, action : Fk(column, to, action).column = column
    BY DEF Fk
  <1>2. /\ FksAt(1, "artifact_version") =
             {Fk("artifact_id", "artifact", "CASCADE"), Fk("created_by", "app_user", "SET_NULL"),
              Fk("generation_job_id", "generation_job", "SET_NULL"),
              Fk("parent_version_id", "artifact_version", "SET_NULL")}
        /\ FksAt(1, "state_transition") =
             {Fk("actor_id", "app_user", "SET_NULL"), Fk("job_id", "generation_job", "SET_NULL")}
        /\ FksAt(1, "audit_event") = {Fk("actor_id", "app_user", "SET_NULL")}
        /\ FksAt(1, "review_decision") =
             {Fk("artifact_version_id", "artifact_version", "CASCADE"),
              Fk("reviewer_id", "app_user", "SET_NULL")}
    BY DEF FksAt, First, artifact_version, state_transition, audit_event, review_decision, Table
  <1>3. /\ FksAt(2, "artifact_version") =
              {Fk("artifact_id", "artifact", "CASCADE"),
               Fk("parent_version_id", "artifact_version", "CASCADE"),
               Fk("generation_job_id", "generation_job", "CASCADE")}
        /\ FksAt(2, "state_transition") = {Fk("job_id", "generation_job", "CASCADE")}
        /\ FksAt(2, "audit_event") = {}
        /\ FksAt(2, "review_decision") =
              {Fk("artifact_version_id", "artifact_version", "CASCADE")}
    BY DEF FksAt
  <1>4. FksWithout(FksAt(1, "artifact_version"),
        {"parent_version_id", "created_by", "generation_job_id"}) =
        {Fk("artifact_id", "artifact", "CASCADE")}
    BY <1>1, <1>2 DEF FksWithout
  <1>5. FksWithout(FksAt(2, "artifact_version"), {"generation_job_id", "parent_version_id"}) =
        {Fk("artifact_id", "artifact", "CASCADE")}
    BY <1>1, <1>3 DEF FksWithout
  <1>6. /\ FksWithout(FksAt(1, "state_transition"), {"actor_id", "job_id"}) = {}
        /\ FksWithout(FksAt(2, "state_transition"), {"job_id"}) = {}
    BY <1>1, <1>2, <1>3 DEF FksWithout
  <1>7. FksWithout(FksAt(1, "audit_event"), {"actor_id"}) = {}
    BY <1>1, <1>2 DEF FksWithout
  <1>8. FksWithout(FksAt(1, "review_decision"), {"reviewer_id"}) =
        {Fk("artifact_version_id", "artifact_version", "CASCADE")}
    BY <1>1, <1>2 DEF FksWithout
  <1>9. /\ {Fk("artifact_id", "artifact", "CASCADE")} \cup
           {Fk("parent_version_id", "artifact_version", "CASCADE"),
            Fk("generation_job_id", "generation_job", "CASCADE")} = FksAt(2, "artifact_version")
        /\ {Fk("artifact_id", "artifact", "CASCADE")} \cup
           {Fk("generation_job_id", "generation_job", "SET_NULL"),
            Fk("created_by", "app_user", "SET_NULL"),
            Fk("parent_version_id", "artifact_version", "SET_NULL")} =
           FksAt(1, "artifact_version")
    BY <1>2, <1>3
  <1>10. /\ {} \cup {Fk("job_id", "generation_job", "CASCADE")} = FksAt(2, "state_transition")
         /\ {} \cup {Fk("job_id", "generation_job", "SET_NULL"),
                     Fk("actor_id", "app_user", "SET_NULL")} = FksAt(1, "state_transition")
         /\ {} \cup {Fk("actor_id", "app_user", "SET_NULL")} = FksAt(1, "audit_event")
         /\ {Fk("artifact_version_id", "artifact_version", "CASCADE")} \cup
            {Fk("reviewer_id", "app_user", "SET_NULL")} = FksAt(1, "review_decision")
    BY <1>2, <1>3
  <1> QED BY <1>3, <1>4, <1>5, <1>6, <1>7, <1>8, <1>9, <1>10

(* 83fa1410a747 (revision 2): what the append-only tables refer to, up and *)
(* down.                                                                   *)
LEMMA ImmutableFks ==
    ASSUME NEW c, NEW types
    PROVE  /\ IsAt(c, 1, types) => IsAt(immutable_fks_upgrade(c), 2, types)
           /\ IsAt(c, 2, types) => IsAt(immutable_fks_downgrade(c), 1, types)
  <1>1. {"artifact_version", "state_transition", "audit_event", "review_decision"}
            \subseteq NamesAt(1) \cap NamesAt(2)
    BY Differences DEF Differ
  <1>2. \A t : /\ ColumnsAt(2, t) = ColumnsAt(1, t) /\ NullableAt(2, t) = NullableAt(1, t)
               /\ UniquesAt(2, t) = UniquesAt(1, t) /\ ChecksAt(2, t) = ChecksAt(1, t)
    BY DEF ColumnsAt, NullableAt, UniquesAt, ChecksAt
  <1>3. ASSUME IsAt(c, 1, types) PROVE IsAt(immutable_fks_upgrade(c), 2, types)
    <2> DEFINE c1 == AddFks(DropFks(c, "artifact_version",
          {"parent_version_id", "created_by", "generation_job_id"}), "artifact_version",
               {Fk("parent_version_id", "artifact_version", "CASCADE"),
                Fk("generation_job_id", "generation_job", "CASCADE")})
               c2 == AddFks(DropFks(c1, "state_transition", {"actor_id", "job_id"}),
                     "state_transition",
               {Fk("job_id", "generation_job", "CASCADE")})
               c3 == DropFks(c2, "audit_event", {"actor_id"})
               c4 == DropFks(c3, "review_decision", {"reviewer_id"})
    <2> HIDE DEF c1, c2, c3, c4
    <2>1. /\ IsCatalog(c) /\ "artifact_version" \in DOMAIN c.table
          /\ c.table["artifact_version"] =
               Table(ColumnsAt(1, "artifact_version"), NullableAt(1, "artifact_version"),
                     FksAt(1, "artifact_version"), UniquesAt(1, "artifact_version"),
                     ChecksAt(1, "artifact_version"))
      BY <1>1, <1>3, TheEntry DEF IsAt
    <2>2. /\ IsCatalog(c) /\ "state_transition" \in DOMAIN c.table
          /\ c.table["state_transition"] =
               Table(ColumnsAt(1, "state_transition"), NullableAt(1, "state_transition"),
                     FksAt(1, "state_transition"), UniquesAt(1, "state_transition"),
                     ChecksAt(1, "state_transition"))
      BY <1>1, <1>3, TheEntry DEF IsAt
    <2>3. /\ IsCatalog(c) /\ "audit_event" \in DOMAIN c.table
          /\ c.table["audit_event"] =
               Table(ColumnsAt(1, "audit_event"), NullableAt(1, "audit_event"),
                     FksAt(1, "audit_event"), UniquesAt(1, "audit_event"),
                     ChecksAt(1, "audit_event"))
      BY <1>1, <1>3, TheEntry DEF IsAt
    <2>4. /\ IsCatalog(c) /\ "review_decision" \in DOMAIN c.table
          /\ c.table["review_decision"] =
               Table(ColumnsAt(1, "review_decision"), NullableAt(1, "review_decision"),
                     FksAt(1, "review_decision"), UniquesAt(1, "review_decision"),
                     ChecksAt(1, "review_decision"))
      BY <1>1, <1>3, TheEntry DEF IsAt
    <2>5. Puts(c1, c, "artifact_version", TableAt(2, "artifact_version"))
      <3>1. /\ IsCatalog(c) /\ "artifact_version" \in DOMAIN c.table
            /\ c.table["artifact_version"] =
                 Table(ColumnsAt(1, "artifact_version"), NullableAt(1, "artifact_version"),
                       FksAt(1, "artifact_version"), UniquesAt(1, "artifact_version"),
                       ChecksAt(1, "artifact_version"))
        BY <2>1 DEF Puts
      <3>2. Puts(AddFks(DropFks(c, "artifact_version",
            {"parent_version_id", "created_by", "generation_job_id"}), "artifact_version",
               {Fk("parent_version_id", "artifact_version", "CASCADE"),
                Fk("generation_job_id", "generation_job", "CASCADE")}), c, "artifact_version",
                Table(ColumnsAt(1, "artifact_version"), NullableAt(1, "artifact_version"),
                FksWithout(FksAt(1, "artifact_version"),
                      {"parent_version_id", "created_by", "generation_job_id"}) \cup
                {Fk("parent_version_id", "artifact_version", "CASCADE"),
                Fk("generation_job_id", "generation_job", "CASCADE")},
                UniquesAt(1, "artifact_version"), ChecksAt(1, "artifact_version")))
        BY <3>1, FksReplaced
      <3> QED BY <3>2, EditionsOfAppendOnly, <1>2 DEF TableAt, c1
    <2>6. Puts(c2, c1, "state_transition", TableAt(2, "state_transition"))
      <3>1. /\ IsCatalog(c1) /\ "state_transition" \in DOMAIN c1.table
            /\ c1.table["state_transition"] =
                 Table(ColumnsAt(1, "state_transition"), NullableAt(1, "state_transition"),
                       FksAt(1, "state_transition"), UniquesAt(1, "state_transition"),
                       ChecksAt(1, "state_transition"))
        BY <2>2, <2>5 DEF Puts
      <3>2. Puts(AddFks(DropFks(c1, "state_transition", {"actor_id", "job_id"}), "state_transition",
               {Fk("job_id", "generation_job", "CASCADE")}), c1, "state_transition",
                Table(ColumnsAt(1, "state_transition"), NullableAt(1, "state_transition"),
                FksWithout(FksAt(1, "state_transition"), {"actor_id", "job_id"}) \cup
                {Fk("job_id", "generation_job", "CASCADE")},
                UniquesAt(1, "state_transition"), ChecksAt(1, "state_transition")))
        BY <3>1, FksReplaced
      <3> QED BY <3>2, EditionsOfAppendOnly, <1>2 DEF TableAt, c2
    <2>7. Puts(c3, c2, "audit_event", TableAt(2, "audit_event"))
      <3>1. /\ IsCatalog(c2) /\ "audit_event" \in DOMAIN c2.table
            /\ c2.table["audit_event"] =
                 Table(ColumnsAt(1, "audit_event"), NullableAt(1, "audit_event"),
                       FksAt(1, "audit_event"), UniquesAt(1, "audit_event"),
                       ChecksAt(1, "audit_event"))
        BY <2>3, <2>5, <2>6 DEF Puts
      <3>2. Puts(DropFks(c2, "audit_event", {"actor_id"}), c2, "audit_event",
                Table(ColumnsAt(1, "audit_event"), NullableAt(1, "audit_event"),
                FksWithout(FksAt(1, "audit_event"), {"actor_id"}),
                UniquesAt(1, "audit_event"), ChecksAt(1, "audit_event")))
        BY <3>1, FksDropped
      <3> QED BY <3>2, EditionsOfAppendOnly, <1>2 DEF TableAt, c3
    <2>8. Puts(c4, c3, "review_decision", TableAt(2, "review_decision"))
      <3>1. /\ IsCatalog(c3) /\ "review_decision" \in DOMAIN c3.table
            /\ c3.table["review_decision"] =
                 Table(ColumnsAt(1, "review_decision"), NullableAt(1, "review_decision"),
                       FksAt(1, "review_decision"), UniquesAt(1, "review_decision"),
                       ChecksAt(1, "review_decision"))
        BY <2>4, <2>5, <2>6, <2>7 DEF Puts
      <3>2. Puts(DropFks(c3, "review_decision", {"reviewer_id"}), c3, "review_decision",
                Table(ColumnsAt(1, "review_decision"), NullableAt(1, "review_decision"),
                FksWithout(FksAt(1, "review_decision"), {"reviewer_id"}),
                UniquesAt(1, "review_decision"), ChecksAt(1, "review_decision")))
        BY <3>1, FksDropped
      <3> QED BY <3>2, EditionsOfAppendOnly, <1>2 DEF TableAt, c4
    <2>9. IsAt(c4, 2, types)
      <3> DEFINE t1 == "artifact_version"
                 t2 == "state_transition"
                 t3 == "audit_event"
                 t4 == "review_decision"
      <3>1. t1 # t2 /\ t1 # t3 /\ t1 # t4 /\ t2 # t3 /\ t2 # t4 /\ t3 # t4
        OBVIOUS
      <3>2. Differ(1, 2, {t1, t2, t3, t4})
        <4>1. {t1, t2, t3, t4} = {"artifact_version", "state_transition", "audit_event",
              "review_decision"}
          OBVIOUS
        <4> QED BY <4>1, Differences, DifferBothWays
      <3>3. /\ Puts(c1, c, t1, TableAt(2, t1)) /\ Puts(c2, c1, t2, TableAt(2, t2))
            /\ Puts(c3, c2, t3, TableAt(2, t3)) /\ Puts(c4, c3, t4, TableAt(2, t4))
        BY <2>5, <2>6, <2>7, <2>8
      <3> HIDE DEF t1, t2, t3, t4
      <3> QED BY <1>3, <3>1, <3>2, <3>3, FourMoved
    <2> QED BY <2>9 DEF immutable_fks_upgrade, c1, c2, c3, c4
  <1>4. ASSUME IsAt(c, 2, types) PROVE IsAt(immutable_fks_downgrade(c), 1, types)
    <2> DEFINE c1 == AddFks(DropFks(c, "state_transition", {"job_id"}), "state_transition",
               {Fk("job_id", "generation_job", "SET_NULL"),
                Fk("actor_id", "app_user", "SET_NULL")})
               c2 == AddFks(c1, "review_decision", {Fk("reviewer_id", "app_user", "SET_NULL")})
               c3 == AddFks(c2, "audit_event", {Fk("actor_id", "app_user", "SET_NULL")})
               c4 == AddFks(DropFks(c3, "artifact_version",
                     {"generation_job_id", "parent_version_id"}), "artifact_version",
               {Fk("generation_job_id", "generation_job", "SET_NULL"),
                Fk("created_by", "app_user", "SET_NULL"),
                Fk("parent_version_id", "artifact_version", "SET_NULL")})
    <2> HIDE DEF c1, c2, c3, c4
    <2>1. /\ IsCatalog(c) /\ "state_transition" \in DOMAIN c.table
          /\ c.table["state_transition"] =
               Table(ColumnsAt(2, "state_transition"), NullableAt(2, "state_transition"),
                     FksAt(2, "state_transition"), UniquesAt(2, "state_transition"),
                     ChecksAt(2, "state_transition"))
      BY <1>1, <1>4, TheEntry DEF IsAt
    <2>2. /\ IsCatalog(c) /\ "review_decision" \in DOMAIN c.table
          /\ c.table["review_decision"] =
               Table(ColumnsAt(2, "review_decision"), NullableAt(2, "review_decision"),
                     FksAt(2, "review_decision"), UniquesAt(2, "review_decision"),
                     ChecksAt(2, "review_decision"))
      BY <1>1, <1>4, TheEntry DEF IsAt
    <2>3. /\ IsCatalog(c) /\ "audit_event" \in DOMAIN c.table
          /\ c.table["audit_event"] =
               Table(ColumnsAt(2, "audit_event"), NullableAt(2, "audit_event"),
                     FksAt(2, "audit_event"), UniquesAt(2, "audit_event"),
                     ChecksAt(2, "audit_event"))
      BY <1>1, <1>4, TheEntry DEF IsAt
    <2>4. /\ IsCatalog(c) /\ "artifact_version" \in DOMAIN c.table
          /\ c.table["artifact_version"] =
               Table(ColumnsAt(2, "artifact_version"), NullableAt(2, "artifact_version"),
                     FksAt(2, "artifact_version"), UniquesAt(2, "artifact_version"),
                     ChecksAt(2, "artifact_version"))
      BY <1>1, <1>4, TheEntry DEF IsAt
    <2>5. Puts(c1, c, "state_transition", TableAt(1, "state_transition"))
      <3>1. /\ IsCatalog(c) /\ "state_transition" \in DOMAIN c.table
            /\ c.table["state_transition"] =
                 Table(ColumnsAt(2, "state_transition"), NullableAt(2, "state_transition"),
                       FksAt(2, "state_transition"), UniquesAt(2, "state_transition"),
                       ChecksAt(2, "state_transition"))
        BY <2>1 DEF Puts
      <3>2. Puts(AddFks(DropFks(c, "state_transition", {"job_id"}), "state_transition",
               {Fk("job_id", "generation_job", "SET_NULL"),
                Fk("actor_id", "app_user", "SET_NULL")}), c, "state_transition",
                Table(ColumnsAt(2, "state_transition"), NullableAt(2, "state_transition"),
                FksWithout(FksAt(2, "state_transition"), {"job_id"}) \cup
                {Fk("job_id", "generation_job", "SET_NULL"),
                Fk("actor_id", "app_user", "SET_NULL")},
                UniquesAt(2, "state_transition"), ChecksAt(2, "state_transition")))
        BY <3>1, FksReplaced
      <3> QED BY <3>2, EditionsOfAppendOnly, <1>2 DEF TableAt, c1
    <2>6. Puts(c2, c1, "review_decision", TableAt(1, "review_decision"))
      <3>1. /\ IsCatalog(c1) /\ "review_decision" \in DOMAIN c1.table
            /\ c1.table["review_decision"] =
                 Table(ColumnsAt(2, "review_decision"), NullableAt(2, "review_decision"),
                       FksAt(2, "review_decision"), UniquesAt(2, "review_decision"),
                       ChecksAt(2, "review_decision"))
        BY <2>2, <2>5 DEF Puts
      <3>2. Puts(AddFks(c1, "review_decision", {Fk("reviewer_id", "app_user", "SET_NULL")}), c1,
            "review_decision",
                Table(ColumnsAt(2, "review_decision"), NullableAt(2, "review_decision"),
                FksAt(2, "review_decision") \cup {Fk("reviewer_id", "app_user", "SET_NULL")},
                UniquesAt(2, "review_decision"), ChecksAt(2, "review_decision")))
        BY <3>1, FksAdded
      <3> QED BY <3>2, EditionsOfAppendOnly, <1>2 DEF TableAt, c2
    <2>7. Puts(c3, c2, "audit_event", TableAt(1, "audit_event"))
      <3>1. /\ IsCatalog(c2) /\ "audit_event" \in DOMAIN c2.table
            /\ c2.table["audit_event"] =
                 Table(ColumnsAt(2, "audit_event"), NullableAt(2, "audit_event"),
                       FksAt(2, "audit_event"), UniquesAt(2, "audit_event"),
                       ChecksAt(2, "audit_event"))
        BY <2>3, <2>5, <2>6 DEF Puts
      <3>2. Puts(AddFks(c2, "audit_event", {Fk("actor_id", "app_user", "SET_NULL")}), c2,
            "audit_event",
                Table(ColumnsAt(2, "audit_event"), NullableAt(2, "audit_event"),
                FksAt(2, "audit_event") \cup {Fk("actor_id", "app_user", "SET_NULL")},
                UniquesAt(2, "audit_event"), ChecksAt(2, "audit_event")))
        BY <3>1, FksAdded
      <3> QED BY <3>2, EditionsOfAppendOnly, <1>2 DEF TableAt, c3
    <2>8. Puts(c4, c3, "artifact_version", TableAt(1, "artifact_version"))
      <3>1. /\ IsCatalog(c3) /\ "artifact_version" \in DOMAIN c3.table
            /\ c3.table["artifact_version"] =
                 Table(ColumnsAt(2, "artifact_version"), NullableAt(2, "artifact_version"),
                       FksAt(2, "artifact_version"), UniquesAt(2, "artifact_version"),
                       ChecksAt(2, "artifact_version"))
        BY <2>4, <2>5, <2>6, <2>7 DEF Puts
      <3>2. Puts(AddFks(DropFks(c3, "artifact_version",
            {"generation_job_id", "parent_version_id"}), "artifact_version",
               {Fk("generation_job_id", "generation_job", "SET_NULL"),
                Fk("created_by", "app_user", "SET_NULL"),
                Fk("parent_version_id", "artifact_version", "SET_NULL")}), c3, "artifact_version",
                Table(ColumnsAt(2, "artifact_version"), NullableAt(2, "artifact_version"),
                FksWithout(FksAt(2, "artifact_version"),
                      {"generation_job_id", "parent_version_id"}) \cup
                {Fk("generation_job_id", "generation_job", "SET_NULL"),
                Fk("created_by", "app_user", "SET_NULL"),
                Fk("parent_version_id", "artifact_version", "SET_NULL")},
                UniquesAt(2, "artifact_version"), ChecksAt(2, "artifact_version")))
        BY <3>1, FksReplaced
      <3> QED BY <3>2, EditionsOfAppendOnly, <1>2 DEF TableAt, c4
    <2>9. IsAt(c4, 1, types)
      <3> DEFINE t1 == "state_transition"
                 t2 == "review_decision"
                 t3 == "audit_event"
                 t4 == "artifact_version"
      <3>1. t1 # t2 /\ t1 # t3 /\ t1 # t4 /\ t2 # t3 /\ t2 # t4 /\ t3 # t4
        OBVIOUS
      <3>2. Differ(2, 1, {t1, t2, t3, t4})
        <4>1. {t1, t2, t3, t4} = {"artifact_version", "state_transition", "audit_event",
              "review_decision"}
          OBVIOUS
        <4> QED BY <4>1, Differences, DifferBothWays
      <3>3. /\ Puts(c1, c, t1, TableAt(1, t1)) /\ Puts(c2, c1, t2, TableAt(1, t2))
            /\ Puts(c3, c2, t3, TableAt(1, t3)) /\ Puts(c4, c3, t4, TableAt(1, t4))
        BY <2>5, <2>6, <2>7, <2>8
      <3> HIDE DEF t1, t2, t3, t4
      <3> QED BY <1>4, <3>1, <3>2, <3>3, FourMoved
    <2> QED BY <2>9 DEF immutable_fks_downgrade, c1, c2, c3, c4
  <1> QED BY <1>3, <1>4

IsFcn(f) == f = [x \in DOMAIN f |-> f[x]]

(* What Over and Restrict return, for functions that need not be records.  *)
LEMMA Merged ==
    ASSUME NEW new, NEW old
    PROVE  /\ IsFcn(Over(new, old)) /\ DOMAIN Over(new, old) = DOMAIN new \cup DOMAIN old
           /\ \A x \in DOMAIN new : Over(new, old)[x] = new[x]
           /\ \A x \in DOMAIN old : x \notin DOMAIN new => Over(new, old)[x] = old[x]
  BY DEF Over, IsFcn

Extended(f, new, old) ==
    /\ DOMAIN f = DOMAIN new \cup DOMAIN old
    /\ \A x \in DOMAIN new : f[x] = new[x]
    /\ \A x \in DOMAIN old : x \notin DOMAIN new => f[x] = old[x]

LEMMA OfMerged == \A new, old : Extended(Over(new, old), new, old)
  BY Merged DEF Extended

LEMMA Restricted ==
    ASSUME NEW f, NEW names
    PROVE  /\ IsFcn(Restrict(f, names)) /\ DOMAIN Restrict(f, names) = names
           /\ \A x \in names : Restrict(f, names)[x] = f[x]
  BY DEF Restrict, IsFcn

(* d is a catalogue with these parts.                                      *)
Made(d, tables, triggers, types, views) ==
    /\ IsCatalog(d)
    /\ d.table = tables /\ d.trigger = triggers /\ d.type = types /\ d.view = views

(* A catalogue with one part replaced.                                     *)
LEMMA SetTrigger ==
    ASSUME NEW c, IsCatalog(c), NEW value
    PROVE  Made([c EXCEPT !.trigger = value], c.table, value, c.type, c.view)
  <1>0. DOMAIN c = {"table", "trigger", "type", "view"}
    BY DEF IsCatalog
  <1> QED BY <1>0 DEF IsCatalog, Made

LEMMA SetView ==
    ASSUME NEW c, IsCatalog(c), NEW value
    PROVE  Made([c EXCEPT !.view = value], c.table, c.trigger, c.type, value)
  <1>0. DOMAIN c = {"table", "trigger", "type", "view"}
    BY DEF IsCatalog
  <1> QED BY <1>0 DEF IsCatalog, Made

LEMMA SetType ==
    ASSUME NEW c, IsCatalog(c), NEW value, IsFcn(value)
    PROVE  Made([c EXCEPT !.type = value], c.table, c.trigger, value, c.view)
  <1>0. DOMAIN c = {"table", "trigger", "type", "view"}
    BY DEF IsCatalog
  <1> QED BY <1>0 DEF IsCatalog, Made, IsFcn

LEMMA SetTable ==
    ASSUME NEW c, IsCatalog(c), NEW value, IsFcn(value)
    PROVE  Made([c EXCEPT !.table = value], value, c.trigger, c.type, c.view)
  <1>0. DOMAIN c = {"table", "trigger", "type", "view"}
    BY DEF IsCatalog
  <1> QED BY <1>0 DEF IsCatalog, Made, IsFcn

LEMMA Guarded ==
    ASSUME NEW c, IsCatalog(c), NEW tables
    PROVE  /\ Made(Guard(c, tables), c.table, c.trigger \cup tables, c.type, c.view)
           /\ Made(Unguard(c, tables), c.table, c.trigger \ tables, c.type, c.view)
  BY SetTrigger DEF Guard, Unguard

LEMMA Created ==
    ASSUME NEW c, IsCatalog(c), NEW tables
    PROVE  Made(CreateTables(c, tables), Over(tables, c.table), c.trigger, c.type, c.view)
  BY Merged, SetTable DEF CreateTables

LEMMA Dropped ==
    ASSUME NEW c, IsCatalog(c), NEW names
    PROVE  Made(DropTables(c, names), Restrict(c.table, DOMAIN c.table \ names),
                c.trigger, c.type, c.view)
  BY Restricted, SetTable DEF DropTables

LEMMA TypesCreated ==
    ASSUME NEW c, IsCatalog(c), NEW types
    PROVE  Made(CreateTypes(c, types), c.table, c.trigger, Over(types, c.type), c.view)
  BY Merged, SetType DEF CreateTypes

LEMMA TypesDropped ==
    ASSUME NEW c, IsCatalog(c), NEW names
    PROVE  Made(DropTypes(c, names), c.table, c.trigger,
                Restrict(c.type, DOMAIN c.type \ names), c.view)
  BY Restricted, SetType DEF DropTypes

LEMMA LabelsAdded ==
    ASSUME NEW c, IsCatalog(c), NEW name, NEW labels
    PROVE  Made(AddLabels(c, name, labels), c.table, c.trigger,
                [c.type EXCEPT ![name] = @ \cup labels], c.view)
  <1> DEFINE value == [c.type EXCEPT ![name] = @ \cup labels]
  <1>1. IsFcn(value)
    BY DEF IsFcn
  <1>2. AddLabels(c, name, labels) = [c EXCEPT !.type = value]
    BY DEF AddLabels
  <1> HIDE DEF value
  <1>3. Made(AddLabels(c, name, labels), c.table, c.trigger, value, c.view)
    BY <1>1, <1>2, SetType
  <1> QED BY <1>3 DEF value

(* What the core schema (revision 1) creates, and drops again.             *)
LEMMA FirstAreTables == \A t \in DOMAIN First : IsTable(First[t])
  <1>1. IsTable(outbox_event)
    BY DEF outbox_event, IsTable, Table
  <1>2. IsTable(workspace)
    BY DEF workspace, IsTable, Table
  <1>3. IsTable(app_user)
    BY DEF app_user, IsTable, Table
  <1>4. IsTable(series)
    BY DEF series, IsTable, Table
  <1>5. IsTable(audit_event)
    BY DEF audit_event, IsTable, Table
  <1>6. IsTable(video_project)
    BY DEF video_project, IsTable, Table
  <1>7. IsTable(artifact)
    BY DEF artifact, IsTable, Table
  <1>8. IsTable(generation_job)
    BY DEF generation_job, IsTable, Table
  <1>9. IsTable(artifact_version)
    BY DEF artifact_version, IsTable, Table
  <1>10. IsTable(provider_usage)
    BY DEF provider_usage, IsTable, Table
  <1>11. IsTable(state_transition)
    BY DEF state_transition, IsTable, Table
  <1>12. IsTable(comment)
    BY DEF comment, IsTable, Table
  <1>13. IsTable(review_decision)
    BY DEF review_decision, IsTable, Table
  <1>14. IsTable(scene_set)
    BY DEF scene_set, IsTable, Table
  <1>15. IsTable(scene)
    BY DEF scene, IsTable, Table
  <1>16. IsTable(series_character)
    BY DEF series_character, IsTable, Table
  <1>17. IsTable(series_style)
    BY DEF series_style, IsTable, Table
  <1>18. IsTable(character_reference)
    BY DEF character_reference, IsTable, Table
  <1>19. IsTable(publishing_package)
    BY DEF publishing_package, IsTable, Table
  <1> QED BY <1>1, <1>2, <1>3, <1>4, <1>5, <1>6, <1>7, <1>8, <1>9, <1>10,
         <1>11, <1>12, <1>13, <1>14, <1>15, <1>16, <1>17, <1>18, <1>19 DEF First

(* The revision a table comes with, and those that alter it later.         *)
LEMMA TablesAreFirst ==
    /\ \A t \in DOMAIN CoreTables : t \in DOMAIN First /\ CoreTables[t] = TableAt(1, t)
    /\ scene_set = TableAt(4, "scene_set") /\ scene = TableAt(4, "scene")
    /\ \A t \in DOMAIN BrandingTables : BrandingTables[t] = TableAt(7, t)
    /\ publishing_package = TableAt(13, "publishing_package")
  <1>1. \A t \in DOMAIN First : First[t] = Table(First[t].columns, First[t].nullable,
            First[t].fks, First[t].uniques, First[t].checks)
    BY FirstAreTables DEF IsTable
  <1>2. \A t \in DOMAIN CoreTables : t \in DOMAIN First /\ CoreTables[t] = First[t]
    BY DEF CoreTables, First
  <1>3. \A t : /\ ColumnsAt(1, t) = First[t].columns /\ NullableAt(1, t) = First[t].nullable
               /\ FksAt(1, t) = First[t].fks /\ UniquesAt(1, t) = First[t].uniques
               /\ ChecksAt(1, t) = First[t].checks
    BY DEF ColumnsAt, NullableAt, FksAt, UniquesAt, ChecksAt
  <1>4. \A t \in DOMAIN CoreTables : CoreTables[t] = TableAt(1, t)
    BY <1>1, <1>2, <1>3 DEF TableAt
  <1>5. \A t \in {"scene_set", "scene"} : t \in DOMAIN First /\ First[t] = TableAt(4, t)
    <2>1. \A t \in {"scene_set", "scene"} :
               /\ t \in DOMAIN First
               /\ ColumnsAt(4, t) = First[t].columns /\ NullableAt(4, t) = First[t].nullable
               /\ FksAt(4, t) = First[t].fks /\ UniquesAt(4, t) = First[t].uniques
               /\ ChecksAt(4, t) = First[t].checks
      BY DEF ColumnsAt, NullableAt, FksAt, UniquesAt, ChecksAt, First
    <2> QED BY <1>1, <2>1 DEF TableAt
  <1>6. \A t \in DOMAIN BrandingTables : t \in DOMAIN First /\ First[t] = TableAt(7, t)
    <2>1. \A t \in DOMAIN BrandingTables :
               /\ t \in DOMAIN First
               /\ ColumnsAt(7, t) = First[t].columns /\ NullableAt(7, t) = First[t].nullable
               /\ FksAt(7, t) = First[t].fks /\ UniquesAt(7, t) = First[t].uniques
               /\ ChecksAt(7, t) = First[t].checks
      BY DEF ColumnsAt, NullableAt, FksAt, UniquesAt, ChecksAt, First, BrandingTables
    <2> QED BY <1>1, <2>1 DEF TableAt
  <1>7. \A t \in {"publishing_package"} : t \in DOMAIN First /\ First[t] = TableAt(13, t)
    <2>1. \A t \in {"publishing_package"} :
               /\ t \in DOMAIN First
               /\ ColumnsAt(13, t) = First[t].columns /\ NullableAt(13, t) = First[t].nullable
               /\ FksAt(13, t) = First[t].fks /\ UniquesAt(13, t) = First[t].uniques
               /\ ChecksAt(13, t) = First[t].checks
      BY DEF ColumnsAt, NullableAt, FksAt, UniquesAt, ChecksAt, First
    <2> QED BY <1>1, <2>1 DEF TableAt
  <1>8. /\ First["scene_set"] = scene_set /\ First["scene"] = scene
        /\ First["publishing_package"] = publishing_package
        /\ \A t \in DOMAIN BrandingTables : BrandingTables[t] = First[t]
    BY DEF First, BrandingTables
  <1> QED BY <1>2, <1>4, <1>5, <1>6, <1>7, <1>8

LEMMA CoreSchema ==
    ASSUME NEW c, NEW types
    PROVE  /\ IsAt(c, 0, types) => IsAt(core_schema_upgrade(c), 1, Over(_ENUM_TYPES, types))
           /\ IsAt(c, 1, types) =>
              IsAt(core_schema_downgrade(c), 0,
                   Restrict(types, DOMAIN types \ DOMAIN _ENUM_TYPES))
  <1>1. /\ NamesAt(0) = {} /\ NamesAt(1) = DOMAIN CoreTables
        /\ GuardedAt(0) = {} /\ GuardedAt(1) = _IMMUTABLE_TABLES
        /\ ViewsAt(0) = {} /\ ViewsAt(1) = {"artifact_version_status"}
    BY DEF NamesAt, GuardedAt, ViewsAt
  <1>2. ASSUME IsAt(c, 0, types)
        PROVE  IsAt(core_schema_upgrade(c), 1, Over(_ENUM_TYPES, types))
    <2> DEFINE c1 == CreateTypes(c, _ENUM_TYPES)
               c2 == CreateTables(c1, CoreTables)
               c3 == Guard(c2, _IMMUTABLE_TABLES)
               views == c3.view \cup {"artifact_version_status"}
               c4 == [c3 EXCEPT !.view = views]
               tables == Over(CoreTables, c.table)
    <2>0. IsCatalog(c) /\ DOMAIN c.table = {} /\ c.trigger = {} /\ c.view = {} /\ c.type = types
      BY <1>1, <1>2 DEF IsAt
    <2>1. Made(c1, c.table, {}, Over(_ENUM_TYPES, types), {})
      BY <2>0, TypesCreated
    <2> HIDE DEF c1
    <2>2. Made(c2, tables, {}, Over(_ENUM_TYPES, types), {})
      BY <2>1, Created DEF Made
    <2> HIDE DEF c2
    <2>3. Made(c3, tables, _IMMUTABLE_TABLES, Over(_ENUM_TYPES, types), {})
      <3>1. {} \cup _IMMUTABLE_TABLES = _IMMUTABLE_TABLES
        OBVIOUS
      <3>2. Made(c3, c2.table, c2.trigger \cup _IMMUTABLE_TABLES, c2.type, c2.view)
        <4>1. IsCatalog(c2)
          BY <2>2 DEF Made
        <4> QED BY <4>1, Guarded
      <3> QED BY <2>2, <3>1, <3>2 DEF Made
    <2> HIDE DEF c3
    <2>4. Made(c4, tables, _IMMUTABLE_TABLES, Over(_ENUM_TYPES, types),
               {"artifact_version_status"})
      <3>1. IsCatalog(c3) /\ views = {"artifact_version_status"}
        BY <2>3 DEF Made
      <3> HIDE DEF views
      <3>2. Made(c4, c3.table, c3.trigger, c3.type, views)
        BY <3>1, SetView
      <3> QED BY <2>3, <3>1, <3>2 DEF Made
    <2> HIDE DEF c4
    <2>5. /\ DOMAIN tables = DOMAIN CoreTables
          /\ \A t \in DOMAIN CoreTables : tables[t] = TableAt(1, t)
      <3>1. /\ DOMAIN tables = DOMAIN CoreTables \cup DOMAIN c.table
            /\ \A t \in DOMAIN CoreTables : tables[t] = CoreTables[t]
        BY Merged
      <3> HIDE DEF tables
      <3>2. DOMAIN tables = DOMAIN CoreTables
        BY <2>0, <3>1
      <3>3. \A t \in DOMAIN CoreTables : CoreTables[t] = TableAt(1, t)
        BY TablesAreFirst
      <3> QED BY <3>1, <3>2, <3>3
    <2> HIDE DEF tables
    <2>6. IsAt(c4, 1, Over(_ENUM_TYPES, types))
      BY <2>4, <2>5, <1>1 DEF IsAt, Made
    <2> QED BY <2>6 DEF core_schema_upgrade, c4, c3, c2, c1, views
  <1>3. ASSUME IsAt(c, 1, types)
        PROVE  IsAt(core_schema_downgrade(c), 0,
                    Restrict(types, DOMAIN types \ DOMAIN _ENUM_TYPES))
    <2> DEFINE left == Restrict(types, DOMAIN types \ DOMAIN _ENUM_TYPES)
               tables == Restrict(c.table, DOMAIN c.table \ DOMAIN CoreTables)
               c1 == Unguard(c, _IMMUTABLE_TABLES)
               c2 == DropTables(c1, DOMAIN CoreTables)
               c3 == DropTypes(c2, DOMAIN _ENUM_TYPES)
               views == c3.view \ {"artifact_version_status"}
               c4 == [c3 EXCEPT !.view = views]
    <2>0. /\ IsCatalog(c) /\ DOMAIN c.table = DOMAIN CoreTables
          /\ c.trigger = _IMMUTABLE_TABLES /\ c.view = {"artifact_version_status"}
          /\ c.type = types
      BY <1>1, <1>3 DEF IsAt
    <2>1. Made(c1, c.table, {}, types, c.view)
      <3>1. _IMMUTABLE_TABLES \ _IMMUTABLE_TABLES = {}
        OBVIOUS
      <3> QED BY <2>0, <3>1, Guarded
    <2> HIDE DEF c1
    <2>2. Made(c2, tables, {}, types, c.view)
      BY <2>1, Dropped DEF Made
    <2> HIDE DEF c2
    <2>3. Made(c3, tables, {}, left, c.view)
      BY <2>2, TypesDropped DEF Made
    <2> HIDE DEF c3
    <2>4. Made(c4, tables, {}, left, {})
      <3>1. IsCatalog(c3) /\ views = {}
        BY <2>0, <2>3 DEF Made
      <3> HIDE DEF views
      <3>2. Made(c4, c3.table, c3.trigger, c3.type, views)
        BY <3>1, SetView
      <3> QED BY <2>3, <3>1, <3>2 DEF Made
    <2> HIDE DEF c4
    <2>5. DOMAIN tables = {}
      BY <2>0, Restricted
    <2> HIDE DEF tables
    <2>6. IsAt(c4, 0, left)
      BY <2>4, <2>5, <1>1 DEF IsAt, Made
    <2> QED BY <2>6 DEF core_schema_downgrade, c4, c3, c2, c1, views, left
  <1> QED BY <1>2, <1>3

(* The tables, triggers and views that come and go with a revision.        *)
LEMMA NamesAndTriggers ==
    /\ NamesAt(4) = NamesAt(3) \cup {"scene_set", "scene"}
    /\ NamesAt(3) = NamesAt(4) \ {"scene", "scene_set"}
    /\ "artifact" \in NamesAt(3)
    /\ GuardedAt(4) = GuardedAt(3) \cup _NEW_IMMUTABLE_TABLES
    /\ GuardedAt(3) = GuardedAt(4) \ _NEW_IMMUTABLE_TABLES
    /\ ViewsAt(4) = ViewsAt(3)
    /\ NamesAt(7) = NamesAt(6) \cup DOMAIN BrandingTables
    /\ NamesAt(6) = NamesAt(7) \ DOMAIN BrandingTables
    /\ GuardedAt(7) = GuardedAt(6) /\ ViewsAt(7) = ViewsAt(6)
    /\ "scene" \in NamesAt(10)
    /\ NamesAt(11) = NamesAt(10) /\ GuardedAt(11) = GuardedAt(10) /\ ViewsAt(11) = ViewsAt(10)
    /\ NamesAt(13) = NamesAt(12) \cup {"publishing_package"}
    /\ NamesAt(12) = NamesAt(13) \ {"publishing_package"}
    /\ GuardedAt(13) = GuardedAt(12) \cup {"publishing_package"}
    /\ GuardedAt(12) = GuardedAt(13) \ {"publishing_package"}
    /\ ViewsAt(13) = ViewsAt(12)
  BY DEF NamesAt, GuardedAt, ViewsAt, CoreTables, BrandingTables, _IMMUTABLE_TABLES,
         _NEW_IMMUTABLE_TABLES

LEMMA Unaltered ==
    /\ \A t \in NamesAt(3) : t # "artifact" => TableAt(4, t) = TableAt(3, t)
    /\ \A t \in NamesAt(6) : TableAt(7, t) = TableAt(6, t)
    /\ \A t \in NamesAt(10) : t # "scene" => TableAt(11, t) = TableAt(10, t)
    /\ \A t \in NamesAt(12) : TableAt(13, t) = TableAt(12, t)
  BY DEF TableAt, ColumnsAt, NullableAt, FksAt, UniquesAt, ChecksAt

(* Scenes (revision 4).                                                    *)
LEMMA Scenes ==
    ASSUME NEW c, NEW types
    PROVE  /\ IsAt(c, 3, types) => IsAt(scenes_upgrade(c), 4, types)
           /\ IsAt(c, 4, types) => IsAt(scenes_downgrade(c), 3, types)
  <1> DEFINE t == "artifact"
             owner == {Fk("scene_ref", "scene", "CASCADE")}
             new == {"scene_ref"}
             made == [scene_set |-> scene_set, scene |-> scene]
  <1>1. /\ ColumnsAt(4, t) = ColumnsAt(3, t) /\ NullableAt(4, t) = NullableAt(3, t)
        /\ FksAt(4, t) = FksAt(3, t) \cup owner
        /\ UniquesAt(4, t) = UniquesAt(3, t) /\ ChecksAt(4, t) = ChecksAt(3, t)
    BY DEF ColumnsAt, NullableAt, FksAt, UniquesAt, ChecksAt
  <1>2. FksWithout(FksAt(4, t), new) = FksAt(3, t)
    <2> DEFINE fks == FksAt(3, t)
    <2>1. \A f \in fks : f.column # "scene_ref"
      BY DEF FksAt, First, artifact, Table, Fk
    <2> HIDE DEF fks
    <2>2. FksWithout(fks \cup {Fk("scene_ref", "scene", "CASCADE")}, {"scene_ref"}) = fks
      BY <2>1, FkDropped
    <2> QED BY <2>2, <1>1 DEF fks
  <1>3. ASSUME IsAt(c, 3, types) PROVE IsAt(scenes_upgrade(c), 4, types)
    <2> DEFINE c1 == CreateTables(c, made)
               c2 == AddFks(c1, t, owner)
               c3 == Guard(c2, _NEW_IMMUTABLE_TABLES)
    <2>0. /\ IsCatalog(c) /\ DOMAIN c.table = NamesAt(3) /\ t \in DOMAIN c.table
          /\ \A s \in NamesAt(3) : c.table[s] = TableAt(3, s)
          /\ c.trigger = GuardedAt(3) /\ c.view = ViewsAt(3) /\ c.type = types
      BY <1>3, NamesAndTriggers DEF IsAt
    <2>1. Made(c1, Over(made, c.table), c.trigger, c.type, c.view)
      BY <2>0, Created
    <2>2. /\ DOMAIN made = {"scene_set", "scene"}
          /\ \A s \in DOMAIN made : made[s] = TableAt(4, s)
      BY TablesAreFirst
    <2> HIDE DEF made, c1
    <2>3. /\ DOMAIN c1.table = NamesAt(4)
          /\ \A s \in {"scene_set", "scene"} : c1.table[s] = TableAt(4, s)
          /\ \A s \in NamesAt(3) : c1.table[s] = TableAt(3, s)
      <3>1. /\ DOMAIN c1.table = DOMAIN made \cup DOMAIN c.table
            /\ \A x \in DOMAIN made : c1.table[x] = made[x]
            /\ \A x \in DOMAIN c.table : x \notin DOMAIN made => c1.table[x] = c.table[x]
        <4>1. c1.table = Over(made, c.table)
          BY <2>1 DEF Made
        <4>2. Extended(c1.table, made, c.table)
          BY <4>1, OfMerged
        <4> QED BY <4>2 DEF Extended
      <3> QED BY <3>1, <2>0, <2>2, NamesAndTriggers
    <2>4. Puts(c2, c1, t, Table(ColumnsAt(3, t), NullableAt(3, t), FksAt(3, t) \cup owner,
                                UniquesAt(3, t), ChecksAt(3, t)))
      <3>1. /\ IsCatalog(c1)
            /\ c1.table[t] = Table(ColumnsAt(3, t), NullableAt(3, t), FksAt(3, t),
                                   UniquesAt(3, t), ChecksAt(3, t))
        BY <2>0, <2>1, <2>3 DEF Made, TableAt
      <3> QED BY <3>1, FksAdded
    <2> HIDE DEF c2
    <2>5. Puts(c2, c1, t, TableAt(4, t))
      BY <2>4, <1>1 DEF TableAt
    <2>6. Made(c3, c2.table, c2.trigger \cup _NEW_IMMUTABLE_TABLES, c2.type, c2.view)
      <3>1. IsCatalog(c2)
        BY <2>5 DEF Puts
      <3> QED BY <3>1, Guarded
    <2> HIDE DEF c3
    <2>7. \A s \in NamesAt(4) : c2.table[s] = TableAt(4, s)
      BY <2>3, <2>5, NamesAndTriggers, Unaltered DEF Puts
    <2>8. IsAt(c3, 4, types)
      <3>1. c2.trigger = GuardedAt(3) /\ c2.view = ViewsAt(3) /\ c2.type = types
            /\ DOMAIN c2.table = NamesAt(4)
        BY <2>0, <2>1, <2>3, <2>5 DEF Made, Puts
      <3> QED BY <3>1, <2>6, <2>7, NamesAndTriggers DEF IsAt, Made
    <2> QED BY <2>8 DEF scenes_upgrade, c3, c2, c1, made
  <1>4. ASSUME IsAt(c, 4, types) PROVE IsAt(scenes_downgrade(c), 3, types)
    <2> DEFINE c1 == Unguard(c, _NEW_IMMUTABLE_TABLES)
               c2 == DropFks(c1, t, new)
               c3 == DropTables(c2, {"scene", "scene_set"})
    <2>0. /\ IsCatalog(c) /\ DOMAIN c.table = NamesAt(4) /\ t \in NamesAt(4)
          /\ \A s \in NamesAt(4) : c.table[s] = TableAt(4, s)
          /\ c.trigger = GuardedAt(4) /\ c.view = ViewsAt(4) /\ c.type = types
      BY <1>4, NamesAndTriggers DEF IsAt
    <2>1. Made(c1, c.table, c.trigger \ _NEW_IMMUTABLE_TABLES, c.type, c.view)
      BY <2>0, Guarded
    <2> HIDE DEF c1
    <2>2. Puts(c2, c1, t, Table(ColumnsAt(4, t), NullableAt(4, t),
                                FksWithout(FksAt(4, t), new), UniquesAt(4, t), ChecksAt(4, t)))
      <3>1. /\ IsCatalog(c1)
            /\ c1.table[t] = Table(ColumnsAt(4, t), NullableAt(4, t), FksAt(4, t),
                                   UniquesAt(4, t), ChecksAt(4, t))
        BY <2>0, <2>1 DEF Made, TableAt
      <3> QED BY <3>1, FksDropped
    <2> HIDE DEF c2
    <2>3. Puts(c2, c1, t, TableAt(3, t))
      BY <2>2, <1>1, <1>2 DEF TableAt
    <2>4. Made(c3, Restrict(c2.table, DOMAIN c2.table \ {"scene", "scene_set"}), c2.trigger,
               c2.type, c2.view)
      <3>1. IsCatalog(c2)
        BY <2>3 DEF Puts
      <3> QED BY <3>1, Dropped
    <2> HIDE DEF c3
    <2>5. /\ DOMAIN c2.table = NamesAt(4)
          /\ \A s \in NamesAt(3) : c2.table[s] = TableAt(3, s)
          /\ c2.trigger = GuardedAt(3) /\ c2.view = ViewsAt(3) /\ c2.type = types
      BY <2>0, <2>1, <2>3, NamesAndTriggers, Unaltered DEF Puts, Made
    <2>6. /\ DOMAIN c3.table = NamesAt(3)
          /\ \A s \in NamesAt(3) : c3.table[s] = TableAt(3, s)
      <3>1. DOMAIN c2.table \ {"scene", "scene_set"} = NamesAt(3)
        BY <2>5, NamesAndTriggers
      <3> QED BY <3>1, <2>4, <2>5, Restricted, SMTT(30) DEF Made
    <2>7. IsAt(c3, 3, types)
      BY <2>4, <2>5, <2>6 DEF IsAt, Made
    <2> QED BY <2>7 DEF scenes_downgrade, c3, c2, c1
  <1> QED BY <1>3, <1>4

(* Series branding (revision 7).                                           *)
LEMMA BrandingSchema ==
    ASSUME NEW c, NEW types
    PROVE  /\ IsAt(c, 6, types) =>
              IsAt(branding_upgrade(c), 7,
                   [Over([branding_status |-> _BRANDING_STATUS_LABELS], types)
                       EXCEPT !["subject_type"] = @ \cup _NEW_SUBJECT_TYPES])
           /\ IsAt(c, 7, types) =>
              IsAt(branding_downgrade(c), 6, Restrict(types, DOMAIN types \ {"branding_status"}))
  <1>1. ASSUME IsAt(c, 6, types)
        PROVE  IsAt(branding_upgrade(c), 7,
                    [Over([branding_status |-> _BRANDING_STATUS_LABELS], types)
                        EXCEPT !["subject_type"] = @ \cup _NEW_SUBJECT_TYPES])
    <2> DEFINE made == [branding_status |-> _BRANDING_STATUS_LABELS]
               wide == Over(made, types)
               wider == [wide EXCEPT !["subject_type"] = @ \cup _NEW_SUBJECT_TYPES]
               c1 == CreateTypes(c, made)
               c2 == AddLabels(c1, "subject_type", _NEW_SUBJECT_TYPES)
               c3 == CreateTables(c2, BrandingTables)
    <2>0. /\ IsCatalog(c) /\ DOMAIN c.table = NamesAt(6)
          /\ \A s \in NamesAt(6) : c.table[s] = TableAt(6, s)
          /\ c.trigger = GuardedAt(6) /\ c.view = ViewsAt(6) /\ c.type = types
      BY <1>1 DEF IsAt
    <2>1. Made(c1, c.table, c.trigger, wide, c.view)
      BY <2>0, TypesCreated
    <2> HIDE DEF c1, wide
    <2>2. Made(c2, c.table, c.trigger, wider, c.view)
      <3>1. IsCatalog(c1) /\ c1.table = c.table /\ c1.trigger = c.trigger /\ c1.type = wide
            /\ c1.view = c.view
        BY <2>1 DEF Made
      <3>2. Made(c2, c1.table, c1.trigger,
                 [c1.type EXCEPT !["subject_type"] = @ \cup _NEW_SUBJECT_TYPES], c1.view)
        BY <3>1, LabelsAdded
      <3> HIDE DEF c2
      <3> QED BY <3>1, <3>2
    <2> HIDE DEF c2, wider
    <2>3. Made(c3, Over(BrandingTables, c.table), c.trigger, wider, c.view)
      BY <2>2, Created DEF Made
    <2> HIDE DEF c3
    <2>4. /\ DOMAIN c3.table = NamesAt(7)
          /\ \A s \in NamesAt(7) : c3.table[s] = TableAt(7, s)
      <3>0. c3.table = Over(BrandingTables, c.table)
        BY <2>3 DEF Made
      <3>a. Extended(c3.table, BrandingTables, c.table)
        BY <3>0, OfMerged
      <3>1. /\ DOMAIN c3.table = DOMAIN BrandingTables \cup DOMAIN c.table
            /\ \A x \in DOMAIN BrandingTables : c3.table[x] = BrandingTables[x]
            /\ \A x \in DOMAIN c.table :
                  x \notin DOMAIN BrandingTables => c3.table[x] = c.table[x]
        BY <3>a DEF Extended
      <3>2. \A t \in DOMAIN BrandingTables : BrandingTables[t] = TableAt(7, t)
        BY TablesAreFirst
      <3>3. NamesAt(7) = NamesAt(6) \cup DOMAIN BrandingTables
        BY NamesAndTriggers
      <3>4. \A t \in NamesAt(6) : TableAt(7, t) = TableAt(6, t)
        BY Unaltered
      <3> QED BY <2>0, <3>1, <3>2, <3>3, <3>4
    <2>5. IsAt(c3, 7, wider)
      BY <2>0, <2>3, <2>4, NamesAndTriggers DEF IsAt, Made
    <2> QED BY <2>5 DEF branding_upgrade, c3, c2, c1, wider, wide
  <1>2. ASSUME IsAt(c, 7, types)
        PROVE  IsAt(branding_downgrade(c), 6,
                    Restrict(types, DOMAIN types \ {"branding_status"}))
    <2> DEFINE left == Restrict(types, DOMAIN types \ {"branding_status"})
               c1 == DropTables(c, DOMAIN BrandingTables)
               c2 == DropTypes(c1, {"branding_status"})
    <2>0. /\ IsCatalog(c) /\ DOMAIN c.table = NamesAt(7)
          /\ \A s \in NamesAt(7) : c.table[s] = TableAt(7, s)
          /\ c.trigger = GuardedAt(7) /\ c.view = ViewsAt(7) /\ c.type = types
      BY <1>2 DEF IsAt
    <2>1. Made(c1, Restrict(c.table, DOMAIN c.table \ DOMAIN BrandingTables), c.trigger,
               types, c.view)
      BY <2>0, Dropped
    <2> HIDE DEF c1
    <2>2. Made(c2, c1.table, c.trigger, left, c.view)
      BY <2>1, TypesDropped DEF Made
    <2> HIDE DEF c2, left
    <2>3. /\ DOMAIN c1.table = NamesAt(6)
          /\ \A s \in NamesAt(6) : c1.table[s] = TableAt(6, s)
      <3>1. NamesAt(6) = NamesAt(7) \ DOMAIN BrandingTables
        BY NamesAndTriggers
      <3>2. c1.table = Restrict(c.table, NamesAt(6))
        BY <2>0, <2>1, <3>1 DEF Made
      <3>3. \A t \in NamesAt(6) : TableAt(7, t) = TableAt(6, t)
        BY Unaltered
      <3> QED BY <2>0, <3>1, <3>2, <3>3, Restricted
    <2>4. IsAt(c2, 6, left)
      BY <2>0, <2>2, <2>3, NamesAndTriggers DEF IsAt, Made
    <2> QED BY <2>4 DEF branding_downgrade, c2, c1, left
  <1> QED BY <1>1, <1>2

(* The kind of a scene (revision 11).                                      *)
LEMMA SceneKind ==
    ASSUME NEW c, NEW types
    PROVE  /\ IsAt(c, 10, types) =>
              IsAt(scene_kind_upgrade(c), 11,
                   Over([scene_kind |-> {"illustration", "card"}], types))
           /\ IsAt(c, 11, types) =>
              IsAt(scene_kind_downgrade(c), 10, Restrict(types, DOMAIN types \ {"scene_kind"}))
  <1> DEFINE t == "scene"
             new == {"kind", "card_text"}
             void == {"card_text"}
             made == [scene_kind |-> {"illustration", "card"}]
             wide == Over(made, types)
             left == Restrict(types, DOMAIN types \ {"scene_kind"})
  <1>1. /\ ColumnsAt(11, t) = ColumnsAt(10, t) \cup new
        /\ NullableAt(11, t) = NullableAt(10, t) \cup void
        /\ FksAt(11, t) = FksAt(10, t) /\ UniquesAt(11, t) = UniquesAt(10, t)
        /\ ChecksAt(11, t) = ChecksAt(10, t) \cup CardChecks
    BY DEF ColumnsAt, NullableAt, FksAt, UniquesAt, ChecksAt
  <1>2. /\ ColumnsAt(10, t) = ColumnsAt(11, t) \ new
        /\ NullableAt(10, t) = NullableAt(11, t) \ new
        /\ ChecksAt(10, t) = ChecksAt(11, t) \ CardChecks
    <2>1. /\ First[t].columns \cap new = {} /\ First[t].nullable \cap new = {}
          /\ First[t].checks \cap CardChecks = {}
      BY DEF First, scene, Table, Kept, CardChecks
    <2> QED BY <2>1 DEF ColumnsAt, NullableAt, ChecksAt
  <1>3. {"card_text", "kind"} = new
    OBVIOUS
  <1>4. ASSUME IsAt(c, 10, types) PROVE IsAt(scene_kind_upgrade(c), 11, wide)
    <2> DEFINE c1 == CreateTypes(c, made)
               c2 == AddColumns(c1, t, new, void)
               c3 == AddChecks(c2, t, CardChecks)
    <2>0. IsCatalog(c) /\ t \in NamesAt(10) /\ c.type = types
      BY <1>4, NamesAndTriggers DEF IsAt
    <2>1. Made(c1, c.table, c.trigger, wide, c.view)
      BY <2>0, TypesCreated
    <2> HIDE DEF c1, wide
    <2>2. /\ IsAt(c1, 10, wide) /\ IsCatalog(c1) /\ t \in DOMAIN c1.table
          /\ c1.table[t] = Table(ColumnsAt(10, t), NullableAt(10, t), FksAt(10, t),
                                 UniquesAt(10, t), ChecksAt(10, t))
      BY <1>4, <2>0, <2>1 DEF IsAt, Made, TableAt
    <2>3. Puts(c2, c1, t, Table(ColumnsAt(10, t) \cup new, NullableAt(10, t) \cup void,
                                FksAt(10, t), UniquesAt(10, t), ChecksAt(10, t)))
      BY <2>2, ColumnsAdded
    <2> HIDE DEF c2
    <2>4. Puts(c3, c2, t,
               Table(ColumnsAt(10, t) \cup new, NullableAt(10, t) \cup void, FksAt(10, t),
                     UniquesAt(10, t), ChecksAt(10, t) \cup CardChecks))
      <3>1. IsCatalog(c2) /\ c2.table[t] =
              Table(ColumnsAt(10, t) \cup new, NullableAt(10, t) \cup void, FksAt(10, t),
                    UniquesAt(10, t), ChecksAt(10, t))
        BY <2>2, <2>3, AfterPut
      <3> QED BY <3>1, ChecksAdded
    <2> HIDE DEF c3
    <2>5. Puts(c3, c1, t, TableAt(11, t))
      <3>1. Puts(c3, c2, t, TableAt(11, t))
        BY <2>4, <1>1 DEF TableAt
      <3> QED BY <2>3, <3>1, PutTwice
    <2>6. IsAt(c3, 11, wide)
      BY <2>2, <2>5, NamesAndTriggers, Unaltered DEF IsAt, Puts
    <2> QED BY <2>6 DEF scene_kind_upgrade, c3, c2, c1, wide
  <1>5. ASSUME IsAt(c, 11, types) PROVE IsAt(scene_kind_downgrade(c), 10, left)
    <2> DEFINE c1 == DropChecks(c, t, CardChecks)
               c2 == DropColumns(c1, t, {"card_text", "kind"})
               c3 == DropTypes(c2, {"scene_kind"})
    <2>0. /\ IsCatalog(c) /\ t \in DOMAIN c.table /\ c.type = types
          /\ c.table[t] = Table(ColumnsAt(11, t), NullableAt(11, t), FksAt(11, t),
                                UniquesAt(11, t), ChecksAt(11, t))
      BY <1>5, NamesAndTriggers DEF IsAt, TableAt
    <2>1. Puts(c1, c, t, Table(ColumnsAt(11, t), NullableAt(11, t), FksAt(11, t),
                               UniquesAt(11, t), ChecksAt(11, t) \ CardChecks))
      BY <2>0, ChecksDropped
    <2> HIDE DEF c1
    <2>2. Puts(c2, c1, t,
               Table(ColumnsAt(11, t) \ new, NullableAt(11, t) \ new, FksAt(11, t),
                     UniquesAt(11, t), ChecksAt(11, t) \ CardChecks))
      <3>1. IsCatalog(c1) /\ c1.table[t] =
               Table(ColumnsAt(11, t), NullableAt(11, t), FksAt(11, t), UniquesAt(11, t),
                     ChecksAt(11, t) \ CardChecks)
        BY <2>0, <2>1, AfterPut
      <3>2. c2 = DropColumns(c1, t, new)
        BY <1>3
      <3> HIDE DEF new, c2
      <3> QED BY <3>1, <3>2, ColumnsDropped
    <2> HIDE DEF c2
    <2>3. Puts(c2, c, t, TableAt(10, t))
      <3>1. Puts(c2, c1, t, TableAt(10, t))
        BY <2>2, <1>1, <1>2 DEF TableAt
      <3> QED BY <2>1, <3>1, PutTwice
    <2>4. IsAt(c2, 10, types)
      BY <1>5, <2>3, NamesAndTriggers, Unaltered DEF IsAt, Puts
    <2>5. Made(c3, c2.table, c2.trigger, left, c2.view)
      BY <2>4, TypesDropped DEF IsAt
    <2> HIDE DEF c3, left
    <2>6. IsAt(c3, 10, left)
      BY <2>4, <2>5 DEF IsAt, Made
    <2> QED BY <2>6 DEF scene_kind_downgrade, c3, c2, c1, left
  <1> QED BY <1>4, <1>5

(* Labels that a downgrade leaves behind (12), and a revision of data      *)
(* alone (6).                                                              *)
LEMMA Kinds ==
    ASSUME NEW c, NEW types, IsAt(c, 11, types)
    PROVE  IsAt(kinds_upgrade(c), 12, [types EXCEPT !["artifact_kind"] = @ \cup _NEW_KINDS])
  <1> DEFINE wide == [types EXCEPT !["artifact_kind"] = @ \cup _NEW_KINDS]
             d == AddLabels(c, "artifact_kind", _NEW_KINDS)
  <1>1. IsCatalog(c) /\ c.type = types
    BY DEF IsAt
  <1>2. Made(d, c.table, c.trigger, wide, c.view)
    BY <1>1, LabelsAdded
  <1> HIDE DEF d, wide
  <1>3. IsAt(d, 12, wide)
    BY <1>2, Differences DEF IsAt, Made, Differ
  <1> QED BY <1>3 DEF kinds_upgrade, d, wide

LEMMA KindsBack ==
    ASSUME NEW c, NEW types, IsAt(c, 12, types)
    PROVE  IsAt(kinds_downgrade(c), 11, types)
  BY Differences DEF kinds_downgrade, IsAt, Differ

LEMMA DataOnly ==
    ASSUME NEW c, NEW types
    PROVE  IsAt(c, 5, types) <=> IsAt(c, 6, types)
  BY Differences DEF IsAt, Differ

(* Publishing packages (revision 13).                                      *)
LEMMA Packages ==
    ASSUME NEW c, NEW types
    PROVE  /\ IsAt(c, 12, types) => IsAt(package_upgrade(c), 13, types)
           /\ IsAt(c, 13, types) => IsAt(package_downgrade(c), 12, types)
  <1> DEFINE name == {"publishing_package"}
             made == [publishing_package |-> publishing_package]
  <1>1. ASSUME IsAt(c, 12, types) PROVE IsAt(package_upgrade(c), 13, types)
    <2> DEFINE c1 == CreateTables(c, made)
               c2 == Guard(c1, name)
    <2>0. /\ IsCatalog(c) /\ DOMAIN c.table = NamesAt(12)
          /\ \A s \in NamesAt(12) : c.table[s] = TableAt(12, s)
          /\ c.trigger = GuardedAt(12) /\ c.view = ViewsAt(12) /\ c.type = types
      BY <1>1 DEF IsAt
    <2>1. Made(c1, Over(made, c.table), c.trigger, c.type, c.view)
      BY <2>0, Created
    <2>2. DOMAIN made = name /\ \A s \in DOMAIN made : made[s] = TableAt(13, s)
      BY TablesAreFirst
    <2> HIDE DEF made, c1
    <2>3. /\ DOMAIN c1.table = NamesAt(13)
          /\ \A s \in NamesAt(13) : c1.table[s] = TableAt(13, s)
      <3>1. c1.table = Over(made, c.table)
        BY <2>1 DEF Made
      <3>a. Extended(c1.table, made, c.table)
        BY <3>1, OfMerged
      <3>2. /\ DOMAIN c1.table = DOMAIN made \cup DOMAIN c.table
            /\ \A x \in DOMAIN made : c1.table[x] = made[x]
            /\ \A x \in DOMAIN c.table : x \notin DOMAIN made => c1.table[x] = c.table[x]
        BY <3>a DEF Extended
      <3> QED BY <3>2, <2>0, <2>2, NamesAndTriggers, Unaltered
    <2>4. Made(c2, c1.table, c1.trigger \cup name, c1.type, c1.view)
      <3>1. IsCatalog(c1)
        BY <2>1 DEF Made
      <3> QED BY <3>1, Guarded
    <2> HIDE DEF c2
    <2>5. IsAt(c2, 13, types)
      BY <2>0, <2>1, <2>3, <2>4, NamesAndTriggers DEF IsAt, Made
    <2> QED BY <2>5 DEF package_upgrade, c2, c1, made
  <1>2. ASSUME IsAt(c, 13, types) PROVE IsAt(package_downgrade(c), 12, types)
    <2> DEFINE c1 == Unguard(c, name)
               c2 == DropTables(c1, name)
    <2>0. /\ IsCatalog(c) /\ DOMAIN c.table = NamesAt(13)
          /\ \A s \in NamesAt(13) : c.table[s] = TableAt(13, s)
          /\ c.trigger = GuardedAt(13) /\ c.view = ViewsAt(13) /\ c.type = types
      BY <1>2 DEF IsAt
    <2>1. Made(c1, c.table, c.trigger \ name, c.type, c.view)
      BY <2>0, Guarded
    <2> HIDE DEF c1
    <2>2. Made(c2, Restrict(c1.table, DOMAIN c1.table \ name), c1.trigger, c1.type, c1.view)
      <3>1. IsCatalog(c1)
        BY <2>1 DEF Made
      <3> QED BY <3>1, Dropped
    <2> HIDE DEF c2
    <2>3. /\ DOMAIN c2.table = NamesAt(12)
          /\ \A s \in NamesAt(12) : c2.table[s] = TableAt(12, s)
      <3>1. NamesAt(12) = NamesAt(13) \ name
        BY NamesAndTriggers
      <3>2. c2.table = Restrict(c.table, NamesAt(12))
        BY <2>0, <2>1, <2>2, <3>1 DEF Made
      <3>3. \A t \in NamesAt(12) : TableAt(13, t) = TableAt(12, t)
        BY Unaltered
      <3> QED BY <2>0, <3>1, <3>2, <3>3, Restricted
    <2>4. IsAt(c2, 12, types)
      BY <2>0, <2>1, <2>2, <2>3, NamesAndTriggers DEF IsAt, Made
    <2> QED BY <2>4 DEF package_downgrade, c2, c1
  <1> QED BY <1>1, <1>2

(* What the types of revision n are made of those of n - 1, and back.      *)
CoreTypes(types) == Over(_ENUM_TYPES, types)
BrandingTypes(types) ==
    [Over([branding_status |-> _BRANDING_STATUS_LABELS], types)
        EXCEPT !["subject_type"] = @ \cup _NEW_SUBJECT_TYPES]
CardTypes(types) == Over([scene_kind |-> {"illustration", "card"}], types)
KindTypes(types) == [types EXCEPT !["artifact_kind"] = @ \cup _NEW_KINDS]

TypesWithout(types, names) == Restrict(types, DOMAIN types \ names)

UpTypes(n, types) ==
    CASE n = 1 -> CoreTypes(types)
      [] n = 7 -> BrandingTypes(types)
      [] n = 11 -> CardTypes(types)
      [] n = 12 -> KindTypes(types)
      [] OTHER -> types

DownTypes(n, types) ==
    CASE n = 1 -> TypesWithout(types, DOMAIN _ENUM_TYPES)
      [] n = 7 -> TypesWithout(types, {"branding_status"})
      [] n = 11 -> TypesWithout(types, {"scene_kind"})
      [] OTHER -> types

(* Every revision's upgrade builds its schema on that of the one before,   *)
(* and its downgrade gives that one back: the induction step of everything *)
(* below.                                                                  *)
LEMMA UpStep ==
    ASSUME NEW n \in 1 .. 13, NEW c, NEW types, IsAt(c, n - 1, types)
    PROVE  IsAt(Up(n, c), n, UpTypes(n, types))
  <1>1. CASE n = 1
    <2>1. IsAt(c, 0, types)
      BY <1>1
    <2>2. Up(1, c) = core_schema_upgrade(c)
      BY DEF Up
    <2>3. UpTypes(1, types) = CoreTypes(types)
      BY DEF UpTypes
    <2>4. IsAt(core_schema_upgrade(c), 1, CoreTypes(types))
      BY <2>1, CoreSchema DEF CoreTypes
    <2> QED BY <1>1, <2>2, <2>3, <2>4
  <1>2. CASE n = 2
    <2>1. IsAt(c, 1, types)
      BY <1>2
    <2>2. Up(2, c) = immutable_fks_upgrade(c)
      BY DEF Up
    <2>3. UpTypes(2, types) = types
      BY DEF UpTypes
    <2>4. IsAt(immutable_fks_upgrade(c), 2, types)
      BY <2>1, ImmutableFks
    <2> QED BY <1>2, <2>2, <2>3, <2>4
  <1>3. CASE n = 3
    <2>1. IsAt(c, 2, types)
      BY <1>3
    <2>2. Up(3, c) = style_preset_upgrade(c)
      BY DEF Up
    <2>3. UpTypes(3, types) = types
      BY DEF UpTypes
    <2>4. IsAt(style_preset_upgrade(c), 3, types)
      BY <2>1, StylePreset
    <2> QED BY <1>3, <2>2, <2>3, <2>4
  <1>4. CASE n = 4
    <2>1. IsAt(c, 3, types)
      BY <1>4
    <2>2. Up(4, c) = scenes_upgrade(c)
      BY DEF Up
    <2>3. UpTypes(4, types) = types
      BY DEF UpTypes
    <2>4. IsAt(scenes_upgrade(c), 4, types)
      BY <2>1, Scenes
    <2> QED BY <1>4, <2>2, <2>3, <2>4
  <1>5. CASE n = 5
    <2>1. IsAt(c, 4, types)
      BY <1>5
    <2>2. Up(5, c) = live_key_upgrade(c)
      BY DEF Up
    <2>3. UpTypes(5, types) = types
      BY DEF UpTypes
    <2>4. IsAt(live_key_upgrade(c), 5, types)
      BY <2>1, LiveKey
    <2> QED BY <1>5, <2>2, <2>3, <2>4
  <1>6. CASE n = 6
    <2>1. IsAt(c, 5, types)
      BY <1>6
    <2>2. Up(6, c) = c
      BY DEF Up
    <2>3. UpTypes(6, types) = types
      BY DEF UpTypes
    <2>4. IsAt(c, 6, types)
      BY <2>1, DataOnly
    <2> QED BY <1>6, <2>2, <2>3, <2>4
  <1>7. CASE n = 7
    <2>1. IsAt(c, 6, types)
      BY <1>7
    <2>2. Up(7, c) = branding_upgrade(c)
      BY DEF Up
    <2>3. UpTypes(7, types) = BrandingTypes(types)
      BY DEF UpTypes
    <2>4. IsAt(branding_upgrade(c), 7, BrandingTypes(types))
      BY <2>1, BrandingSchema DEF BrandingTypes
    <2> QED BY <1>7, <2>2, <2>3, <2>4
  <1>8. CASE n = 8
    <2>1. IsAt(c, 7, types)
      BY <1>8
    <2>2. Up(8, c) = pins_upgrade(c)
      BY DEF Up
    <2>3. UpTypes(8, types) = types
      BY DEF UpTypes
    <2>4. IsAt(pins_upgrade(c), 8, types)
      BY <2>1, BrandingPins
    <2> QED BY <1>8, <2>2, <2>3, <2>4
  <1>9. CASE n = 9
    <2>1. IsAt(c, 8, types)
      BY <1>9
    <2>2. Up(9, c) = series_jobs_upgrade(c)
      BY DEF Up
    <2>3. UpTypes(9, types) = types
      BY DEF UpTypes
    <2>4. IsAt(series_jobs_upgrade(c), 9, types)
      BY <2>1, SeriesJobs
    <2> QED BY <1>9, <2>2, <2>3, <2>4
  <1>10. CASE n = 10
    <2>1. IsAt(c, 9, types)
      BY <1>10
    <2>2. Up(10, c) = reasons_upgrade(c)
      BY DEF Up
    <2>3. UpTypes(10, types) = types
      BY DEF UpTypes
    <2>4. IsAt(reasons_upgrade(c), 10, types)
      BY <2>1, Reasons
    <2> QED BY <1>10, <2>2, <2>3, <2>4
  <1>11. CASE n = 11
    <2>1. IsAt(c, 10, types)
      BY <1>11
    <2>2. Up(11, c) = scene_kind_upgrade(c)
      BY DEF Up
    <2>3. UpTypes(11, types) = CardTypes(types)
      BY DEF UpTypes
    <2>4. IsAt(scene_kind_upgrade(c), 11, CardTypes(types))
      BY <2>1, SceneKind DEF CardTypes
    <2> QED BY <1>11, <2>2, <2>3, <2>4
  <1>12. CASE n = 12
    <2>1. IsAt(c, 11, types)
      BY <1>12
    <2>2. Up(12, c) = kinds_upgrade(c)
      BY DEF Up
    <2>3. UpTypes(12, types) = KindTypes(types)
      BY DEF UpTypes
    <2>4. IsAt(kinds_upgrade(c), 12, KindTypes(types))
      BY <2>1, Kinds DEF KindTypes
    <2> QED BY <1>12, <2>2, <2>3, <2>4
  <1>13. CASE n = 13
    <2>1. IsAt(c, 12, types)
      BY <1>13
    <2>2. Up(13, c) = package_upgrade(c)
      BY DEF Up
    <2>3. UpTypes(13, types) = types
      BY DEF UpTypes
    <2>4. IsAt(package_upgrade(c), 13, types)
      BY <2>1, Packages
    <2> QED BY <1>13, <2>2, <2>3, <2>4
  <1> QED
    BY <1>1, <1>2, <1>3, <1>4, <1>5, <1>6, <1>7, <1>8, <1>9, <1>10, <1>11, <1>12, <1>13

LEMMA DownStep ==
    ASSUME NEW n \in 1 .. 13, NEW c, NEW types, IsAt(c, n, types)
    PROVE  IsAt(Down(n, c), n - 1, DownTypes(n, types))
  <1>1. CASE n = 1
    <2>1. IsAt(c, 1, types)
      BY <1>1
    <2>2. Down(1, c) = core_schema_downgrade(c)
      BY DEF Down
    <2>3. DownTypes(1, types) = TypesWithout(types, DOMAIN _ENUM_TYPES)
      BY DEF DownTypes
    <2>4. IsAt(core_schema_downgrade(c), 0, TypesWithout(types, DOMAIN _ENUM_TYPES))
      BY <2>1, CoreSchema DEF TypesWithout
    <2> QED BY <1>1, <2>2, <2>3, <2>4
  <1>2. CASE n = 2
    <2>1. IsAt(c, 2, types)
      BY <1>2
    <2>2. Down(2, c) = immutable_fks_downgrade(c)
      BY DEF Down
    <2>3. DownTypes(2, types) = types
      BY DEF DownTypes
    <2>4. IsAt(immutable_fks_downgrade(c), 1, types)
      BY <2>1, ImmutableFks
    <2> QED BY <1>2, <2>2, <2>3, <2>4
  <1>3. CASE n = 3
    <2>1. IsAt(c, 3, types)
      BY <1>3
    <2>2. Down(3, c) = style_preset_downgrade(c)
      BY DEF Down
    <2>3. DownTypes(3, types) = types
      BY DEF DownTypes
    <2>4. IsAt(style_preset_downgrade(c), 2, types)
      BY <2>1, StylePreset
    <2> QED BY <1>3, <2>2, <2>3, <2>4
  <1>4. CASE n = 4
    <2>1. IsAt(c, 4, types)
      BY <1>4
    <2>2. Down(4, c) = scenes_downgrade(c)
      BY DEF Down
    <2>3. DownTypes(4, types) = types
      BY DEF DownTypes
    <2>4. IsAt(scenes_downgrade(c), 3, types)
      BY <2>1, Scenes
    <2> QED BY <1>4, <2>2, <2>3, <2>4
  <1>5. CASE n = 5
    <2>1. IsAt(c, 5, types)
      BY <1>5
    <2>2. Down(5, c) = live_key_downgrade(c)
      BY DEF Down
    <2>3. DownTypes(5, types) = types
      BY DEF DownTypes
    <2>4. IsAt(live_key_downgrade(c), 4, types)
      BY <2>1, LiveKey
    <2> QED BY <1>5, <2>2, <2>3, <2>4
  <1>6. CASE n = 6
    <2>1. IsAt(c, 6, types)
      BY <1>6
    <2>2. Down(6, c) = c
      BY DEF Down
    <2>3. DownTypes(6, types) = types
      BY DEF DownTypes
    <2>4. IsAt(c, 5, types)
      BY <2>1, DataOnly
    <2> QED BY <1>6, <2>2, <2>3, <2>4
  <1>7. CASE n = 7
    <2>1. IsAt(c, 7, types)
      BY <1>7
    <2>2. Down(7, c) = branding_downgrade(c)
      BY DEF Down
    <2>3. DownTypes(7, types) = TypesWithout(types, {"branding_status"})
      BY DEF DownTypes
    <2>4. IsAt(branding_downgrade(c), 6, TypesWithout(types, {"branding_status"}))
      BY <2>1, BrandingSchema DEF TypesWithout
    <2> QED BY <1>7, <2>2, <2>3, <2>4
  <1>8. CASE n = 8
    <2>1. IsAt(c, 8, types)
      BY <1>8
    <2>2. Down(8, c) = pins_downgrade(c)
      BY DEF Down
    <2>3. DownTypes(8, types) = types
      BY DEF DownTypes
    <2>4. IsAt(pins_downgrade(c), 7, types)
      BY <2>1, BrandingPins
    <2> QED BY <1>8, <2>2, <2>3, <2>4
  <1>9. CASE n = 9
    <2>1. IsAt(c, 9, types)
      BY <1>9
    <2>2. Down(9, c) = series_jobs_downgrade(c)
      BY DEF Down
    <2>3. DownTypes(9, types) = types
      BY DEF DownTypes
    <2>4. IsAt(series_jobs_downgrade(c), 8, types)
      BY <2>1, SeriesJobs
    <2> QED BY <1>9, <2>2, <2>3, <2>4
  <1>10. CASE n = 10
    <2>1. IsAt(c, 10, types)
      BY <1>10
    <2>2. Down(10, c) = reasons_downgrade(c)
      BY DEF Down
    <2>3. DownTypes(10, types) = types
      BY DEF DownTypes
    <2>4. IsAt(reasons_downgrade(c), 9, types)
      BY <2>1, Reasons
    <2> QED BY <1>10, <2>2, <2>3, <2>4
  <1>11. CASE n = 11
    <2>1. IsAt(c, 11, types)
      BY <1>11
    <2>2. Down(11, c) = scene_kind_downgrade(c)
      BY DEF Down
    <2>3. DownTypes(11, types) = TypesWithout(types, {"scene_kind"})
      BY DEF DownTypes
    <2>4. IsAt(scene_kind_downgrade(c), 10, TypesWithout(types, {"scene_kind"}))
      BY <2>1, SceneKind DEF TypesWithout
    <2> QED BY <1>11, <2>2, <2>3, <2>4
  <1>12. CASE n = 12
    <2>1. IsAt(c, 12, types)
      BY <1>12
    <2>2. Down(12, c) = kinds_downgrade(c)
      BY DEF Down
    <2>3. DownTypes(12, types) = types
      BY DEF DownTypes
    <2>4. IsAt(kinds_downgrade(c), 11, types)
      BY <2>1, KindsBack
    <2> QED BY <1>12, <2>2, <2>3, <2>4
  <1>13. CASE n = 13
    <2>1. IsAt(c, 13, types)
      BY <1>13
    <2>2. Down(13, c) = package_downgrade(c)
      BY DEF Down
    <2>3. DownTypes(13, types) = types
      BY DEF DownTypes
    <2>4. IsAt(package_downgrade(c), 12, types)
      BY <2>1, Packages
    <2> QED BY <1>13, <2>2, <2>3, <2>4
  <1> QED
    BY <1>1, <1>2, <1>3, <1>4, <1>5, <1>6, <1>7, <1>8, <1>9, <1>10, <1>11, <1>12, <1>13


(* The enum types a database may have at revision n: the labels of the     *)
(* chain, and some that came and stayed.                                   *)
IsTyped(types, n) ==
    /\ DOMAIN types = TypesAt(n)
    /\ \A t \in TypesAt(n) : LabelsAt(n, t) \subseteq types[t] /\ types[t] \subseteq LabelsAt(13, t)

IsPlain(types, n) ==
    /\ DOMAIN types = TypesAt(n)
    /\ \A t \in TypesAt(n) : types[t] = LabelsAt(n, t)

(* The types a revision leaves alone, creates and extends.                 *)
LEMMA SameTypes ==
    ASSUME NEW n \in 1 .. 13, n \notin {1, 7, 11, 12}
    PROVE  /\ TypesAt(n) = TypesAt(n - 1)
           /\ \A t : LabelsAt(n, t) = LabelsAt(n - 1, t)
  <1>1. n \in {2, 3, 4, 5, 6, 8, 9, 10, 13}
    OBVIOUS
  <1>2. /\ n >= 1 <=> n - 1 >= 1
        /\ n >= 7 <=> n - 1 >= 7
        /\ n >= 11 <=> n - 1 >= 11
        /\ n >= 12 <=> n - 1 >= 12
    BY <1>1
  <1>3. TypesAt(n) = TypesAt(n - 1)
    BY <1>2 DEF TypesAt
  <1>4. ASSUME NEW t PROVE LabelsAt(n, t) = LabelsAt(n - 1, t)
    BY <1>2 DEF LabelsAt
  <1> QED BY <1>3, <1>4

LEMMA NewTypes ==
    /\ TypesAt(0) = {} /\ TypesAt(1) = DOMAIN _ENUM_TYPES
    /\ TypesAt(7) = TypesAt(6) \cup {"branding_status"} /\ "branding_status" \notin TypesAt(6)
    /\ TypesAt(6) = DOMAIN _ENUM_TYPES
    /\ "subject_type" \in DOMAIN _ENUM_TYPES /\ "artifact_kind" \in DOMAIN _ENUM_TYPES
    /\ TypesAt(11) = TypesAt(10) \cup {"scene_kind"} /\ "scene_kind" \notin TypesAt(10)
    /\ TypesAt(12) = TypesAt(11)
    /\ "artifact_kind" \in TypesAt(11)
  BY DEF TypesAt, _ENUM_TYPES

LEMMA NewLabels ==
    /\ \A t \in DOMAIN _ENUM_TYPES : LabelsAt(1, t) = _ENUM_TYPES[t]
    /\ \A t \in TypesAt(6) : t # "subject_type" => LabelsAt(7, t) = LabelsAt(6, t)
    /\ LabelsAt(7, "subject_type") = LabelsAt(6, "subject_type") \cup _NEW_SUBJECT_TYPES
    /\ LabelsAt(7, "branding_status") = _BRANDING_STATUS_LABELS
    /\ \A t \in TypesAt(10) : LabelsAt(11, t) = LabelsAt(10, t)
    /\ LabelsAt(11, "scene_kind") = {"illustration", "card"}
    /\ \A t \in TypesAt(11) : t # "artifact_kind" => LabelsAt(12, t) = LabelsAt(11, t)
    /\ LabelsAt(12, "artifact_kind") = LabelsAt(11, "artifact_kind") \cup _NEW_KINDS
  <1>1. \A t \in DOMAIN _ENUM_TYPES : t # "branding_status" /\ t # "scene_kind"
    BY DEF _ENUM_TYPES
  <1>2. \A t \in DOMAIN _ENUM_TYPES : LabelsAt(1, t) = _ENUM_TYPES[t]
    BY <1>1 DEF LabelsAt
  <1>3. \A t \in TypesAt(6) : t # "subject_type" => LabelsAt(7, t) = LabelsAt(6, t)
    BY DEF LabelsAt
  <1>4. LabelsAt(7, "subject_type") = LabelsAt(6, "subject_type") \cup _NEW_SUBJECT_TYPES
    BY DEF LabelsAt
  <1>5. LabelsAt(7, "branding_status") = _BRANDING_STATUS_LABELS
    BY DEF LabelsAt
  <1>6. \A t \in TypesAt(10) : LabelsAt(11, t) = LabelsAt(10, t)
    BY DEF LabelsAt
  <1>7. LabelsAt(11, "scene_kind") = {"illustration", "card"}
    BY DEF LabelsAt
  <1>8. \A t \in TypesAt(11) : t # "artifact_kind" => LabelsAt(12, t) = LabelsAt(11, t)
    BY DEF LabelsAt
  <1>9. LabelsAt(12, "artifact_kind") = LabelsAt(11, "artifact_kind") \cup _NEW_KINDS
    BY DEF LabelsAt
  <1> QED BY <1>2, <1>3, <1>4, <1>5, <1>6, <1>7, <1>8, <1>9

(* The labels only grow.                                                   *)
LEMMA LabelsGrow ==
    ASSUME NEW n \in 0 .. 13, NEW t
    PROVE  LabelsAt(n, t) \subseteq LabelsAt(13, t)
  <1>1. CASE t = "subject_type"
    BY <1>1 DEF LabelsAt
  <1>2. CASE t = "artifact_kind"
    BY <1>2 DEF LabelsAt
  <1>3. CASE t # "subject_type" /\ t # "artifact_kind"
    BY <1>3 DEF LabelsAt
  <1> QED BY <1>1, <1>2, <1>3

(* What the type operations make of their argument.                        *)
LEMMA TypesMade ==
    ASSUME NEW types
    PROVE  /\ Extended(CoreTypes(types), _ENUM_TYPES, types)
           /\ DOMAIN BrandingTypes(types) = {"branding_status"} \cup DOMAIN types
           /\ BrandingTypes(types)["branding_status"] = _BRANDING_STATUS_LABELS
           /\ \A t \in DOMAIN types : t # "branding_status" => BrandingTypes(types)[t] =
                 IF t = "subject_type" THEN types[t] \cup _NEW_SUBJECT_TYPES ELSE types[t]
           /\ DOMAIN CardTypes(types) = {"scene_kind"} \cup DOMAIN types
           /\ CardTypes(types)["scene_kind"] = {"illustration", "card"}
           /\ \A t \in DOMAIN types : t # "scene_kind" => CardTypes(types)[t] = types[t]
           /\ DOMAIN KindTypes(types) = DOMAIN types
           /\ \A t \in DOMAIN types : KindTypes(types)[t] =
                 IF t = "artifact_kind" THEN types[t] \cup _NEW_KINDS ELSE types[t]
  <1>1. Extended(CoreTypes(types), _ENUM_TYPES, types)
    BY OfMerged DEF CoreTypes
  <1>2. /\ DOMAIN BrandingTypes(types) = {"branding_status"} \cup DOMAIN types
        /\ BrandingTypes(types)["branding_status"] = _BRANDING_STATUS_LABELS
        /\ \A t \in DOMAIN types : t # "branding_status" => BrandingTypes(types)[t] =
              IF t = "subject_type" THEN types[t] \cup _NEW_SUBJECT_TYPES ELSE types[t]
    <2> DEFINE made == [branding_status |-> _BRANDING_STATUS_LABELS]
               wide == Over(made, types)
    <2>1. Extended(wide, made, types)
      BY OfMerged
    <2>2. DOMAIN made = {"branding_status"} /\ made["branding_status"] = _BRANDING_STATUS_LABELS
      OBVIOUS
    <2>3. BrandingTypes(types) = [wide EXCEPT !["subject_type"] = @ \cup _NEW_SUBJECT_TYPES]
      BY DEF BrandingTypes
    <2> HIDE DEF wide, made
    <2> QED BY <2>1, <2>2, <2>3 DEF Extended
  <1>3. /\ DOMAIN CardTypes(types) = {"scene_kind"} \cup DOMAIN types
        /\ CardTypes(types)["scene_kind"] = {"illustration", "card"}
        /\ \A t \in DOMAIN types : t # "scene_kind" => CardTypes(types)[t] = types[t]
    <2> DEFINE made == [scene_kind |-> {"illustration", "card"}]
    <2>1. Extended(CardTypes(types), made, types)
      BY OfMerged DEF CardTypes
    <2>2. DOMAIN made = {"scene_kind"} /\ made["scene_kind"] = {"illustration", "card"}
      OBVIOUS
    <2> HIDE DEF made
    <2> QED BY <2>1, <2>2 DEF Extended
  <1>4. /\ DOMAIN KindTypes(types) = DOMAIN types
        /\ \A t \in DOMAIN types : KindTypes(types)[t] =
              IF t = "artifact_kind" THEN types[t] \cup _NEW_KINDS ELSE types[t]
    BY DEF KindTypes
  <1> QED BY <1>1, <1>2, <1>3, <1>4

(* The types keep to what a revision may have, up and down the chain;      *)
(* climbing alone, they are exactly the chain's.                           *)
LEMMA TypedUp ==
    ASSUME NEW n \in 1 .. 13, NEW types, IsTyped(types, n - 1)
    PROVE  IsTyped(UpTypes(n, types), n)
  <1>1. CASE n = 1
    <2>1. UpTypes(1, types) = CoreTypes(types)
      BY DEF UpTypes
    <2>2. DOMAIN types = {}
      BY <1>1, NewTypes DEF IsTyped
    <2>3. DOMAIN CoreTypes(types) = TypesAt(1)
          /\ \A t \in TypesAt(1) : CoreTypes(types)[t] = LabelsAt(1, t)
      <3>1. Extended(CoreTypes(types), _ENUM_TYPES, types)
        BY TypesMade
      <3>2. /\ DOMAIN CoreTypes(types) = DOMAIN _ENUM_TYPES
            /\ \A t \in DOMAIN _ENUM_TYPES : CoreTypes(types)[t] = _ENUM_TYPES[t]
        BY <2>2, <3>1 DEF Extended
      <3>3. \A t \in DOMAIN _ENUM_TYPES : LabelsAt(1, t) = _ENUM_TYPES[t]
        BY NewLabels
      <3>4. TypesAt(1) = DOMAIN _ENUM_TYPES
        BY NewTypes
      <3> QED BY <3>2, <3>3, <3>4
    <2>4. \A t : LabelsAt(1, t) \subseteq LabelsAt(13, t)
      BY LabelsGrow
    <2> QED BY <1>1, <2>1, <2>3, <2>4 DEF IsTyped
  <1>2. CASE n = 7
    <2>1. UpTypes(7, types) = BrandingTypes(types)
      BY DEF UpTypes
    <2>2. DOMAIN types = TypesAt(6)
          /\ \A t \in TypesAt(6) :
                LabelsAt(6, t) \subseteq types[t] /\ types[t] \subseteq LabelsAt(13, t)
      BY <1>2 DEF IsTyped
    <2>3. \A t : LabelsAt(7, t) \subseteq LabelsAt(13, t)
      BY LabelsGrow
    <2>4. DOMAIN BrandingTypes(types) = TypesAt(7)
      BY <2>2, TypesMade, NewTypes
    <2>5. ASSUME NEW t \in TypesAt(7)
          PROVE  /\ LabelsAt(7, t) \subseteq BrandingTypes(types)[t]
                 /\ BrandingTypes(types)[t] \subseteq LabelsAt(13, t)
      <3>1. CASE t = "branding_status"
        <4>1. BrandingTypes(types)["branding_status"] = _BRANDING_STATUS_LABELS
          BY TypesMade
        <4>2. LabelsAt(7, "branding_status") = _BRANDING_STATUS_LABELS
          BY NewLabels
        <4> QED BY <3>1, <4>1, <4>2, <2>3
      <3>2. CASE t = "subject_type"
        <4>1. t \in TypesAt(6) /\ t # "branding_status"
          BY <3>2, NewTypes
        <4>2. BrandingTypes(types)[t] = types[t] \cup _NEW_SUBJECT_TYPES
          BY <3>2, <4>1, <2>2, TypesMade
        <4>3. LabelsAt(7, t) = LabelsAt(6, t) \cup _NEW_SUBJECT_TYPES
          BY <3>2, NewLabels
        <4> QED BY <4>1, <4>2, <4>3, <2>2, <2>3
      <3>3. CASE t # "branding_status" /\ t # "subject_type"
        <4>1. t \in TypesAt(6)
          BY <3>3, NewTypes
        <4>2. BrandingTypes(types)[t] = types[t]
          BY <3>3, <4>1, <2>2, TypesMade
        <4>3. LabelsAt(7, t) = LabelsAt(6, t)
          BY <3>3, <4>1, NewLabels
        <4> QED BY <4>1, <4>2, <4>3, <2>2
      <3> QED BY <3>1, <3>2, <3>3
    <2> QED BY <1>2, <2>1, <2>4, <2>5 DEF IsTyped
  <1>3. CASE n = 11
    <2>1. UpTypes(11, types) = CardTypes(types)
      BY DEF UpTypes
    <2>2. DOMAIN types = TypesAt(10)
          /\ \A t \in TypesAt(10) :
                LabelsAt(10, t) \subseteq types[t] /\ types[t] \subseteq LabelsAt(13, t)
      BY <1>3 DEF IsTyped
    <2>3. \A t : LabelsAt(11, t) \subseteq LabelsAt(13, t)
      BY LabelsGrow
    <2>4. DOMAIN CardTypes(types) = TypesAt(11)
      BY <2>2, TypesMade, NewTypes
    <2>5. ASSUME NEW t \in TypesAt(11)
          PROVE  /\ LabelsAt(11, t) \subseteq CardTypes(types)[t]
                 /\ CardTypes(types)[t] \subseteq LabelsAt(13, t)
      <3>1. CASE t = "scene_kind"
        BY <3>1, <2>3, TypesMade, NewLabels
      <3>2. CASE t # "scene_kind"
        <4>1. t \in TypesAt(10)
          BY <3>2, NewTypes
        <4>2. CardTypes(types)[t] = types[t]
          BY <3>2, <4>1, <2>2, TypesMade
        <4>3. LabelsAt(11, t) = LabelsAt(10, t)
          BY <4>1, NewLabels
        <4> QED BY <4>1, <4>2, <4>3, <2>2
      <3> QED BY <3>1, <3>2
    <2> QED BY <1>3, <2>1, <2>4, <2>5 DEF IsTyped
  <1>4. CASE n = 12
    <2>1. UpTypes(12, types) = KindTypes(types)
      BY DEF UpTypes
    <2>2. DOMAIN types = TypesAt(11)
          /\ \A t \in TypesAt(11) :
                LabelsAt(11, t) \subseteq types[t] /\ types[t] \subseteq LabelsAt(13, t)
      BY <1>4 DEF IsTyped
    <2>3. \A t : LabelsAt(12, t) \subseteq LabelsAt(13, t)
      BY LabelsGrow
    <2>4. DOMAIN KindTypes(types) = TypesAt(12)
      BY <2>2, TypesMade, NewTypes
    <2>5. ASSUME NEW t \in TypesAt(12)
          PROVE  /\ LabelsAt(12, t) \subseteq KindTypes(types)[t]
                 /\ KindTypes(types)[t] \subseteq LabelsAt(13, t)
      <3>0. t \in TypesAt(11)
        BY NewTypes
      <3>1. CASE t = "artifact_kind"
        <4>1. KindTypes(types)[t] = types[t] \cup _NEW_KINDS
          BY <3>0, <3>1, <2>2, TypesMade
        <4>2. LabelsAt(12, t) = LabelsAt(11, t) \cup _NEW_KINDS
          BY <3>1, NewLabels
        <4> QED BY <3>0, <4>1, <4>2, <2>2, <2>3
      <3>2. CASE t # "artifact_kind"
        <4>1. KindTypes(types)[t] = types[t]
          BY <3>0, <3>2, <2>2, TypesMade
        <4>2. LabelsAt(12, t) = LabelsAt(11, t)
          BY <3>0, <3>2, NewLabels
        <4> QED BY <3>0, <4>1, <4>2, <2>2
      <3> QED BY <3>1, <3>2
    <2> QED BY <1>4, <2>1, <2>4, <2>5 DEF IsTyped
  <1>5. CASE n \notin {1, 7, 11, 12}
    <2>1. UpTypes(n, types) = types
      BY <1>5 DEF UpTypes
    <2> QED BY <1>5, <2>1, SameTypes DEF IsTyped
  <1> QED BY <1>1, <1>2, <1>3, <1>4, <1>5

LEMMA PlainUp ==
    ASSUME NEW n \in 1 .. 13, NEW types, IsPlain(types, n - 1)
    PROVE  IsPlain(UpTypes(n, types), n)
  <1>1. CASE n = 1
    <2>1. UpTypes(1, types) = CoreTypes(types)
      BY DEF UpTypes
    <2>2. DOMAIN types = {}
      BY <1>1, NewTypes DEF IsPlain
    <2>3. DOMAIN CoreTypes(types) = TypesAt(1)
          /\ \A t \in TypesAt(1) : CoreTypes(types)[t] = LabelsAt(1, t)
      <3>1. Extended(CoreTypes(types), _ENUM_TYPES, types)
        BY TypesMade
      <3>2. /\ DOMAIN CoreTypes(types) = DOMAIN _ENUM_TYPES
            /\ \A t \in DOMAIN _ENUM_TYPES : CoreTypes(types)[t] = _ENUM_TYPES[t]
        BY <2>2, <3>1 DEF Extended
      <3>3. \A t \in DOMAIN _ENUM_TYPES : LabelsAt(1, t) = _ENUM_TYPES[t]
        BY NewLabels
      <3>4. TypesAt(1) = DOMAIN _ENUM_TYPES
        BY NewTypes
      <3> QED BY <3>2, <3>3, <3>4
    <2> QED BY <1>1, <2>1, <2>3 DEF IsPlain
  <1>2. CASE n = 7
    <2>1. UpTypes(7, types) = BrandingTypes(types)
      BY DEF UpTypes
    <2>2. DOMAIN types = TypesAt(6) /\ \A t \in TypesAt(6) : types[t] = LabelsAt(6, t)
      BY <1>2 DEF IsPlain
    <2>3. DOMAIN BrandingTypes(types) = TypesAt(7)
      BY <2>2, TypesMade, NewTypes
    <2>4. ASSUME NEW t \in TypesAt(7) PROVE BrandingTypes(types)[t] = LabelsAt(7, t)
      <3>1. CASE t = "branding_status"
        BY <3>1, TypesMade, NewLabels
      <3>2. CASE t = "subject_type"
        <4>1. t \in TypesAt(6) /\ t # "branding_status"
          BY <3>2, NewTypes
        <4>2. BrandingTypes(types)[t] = types[t] \cup _NEW_SUBJECT_TYPES
          BY <3>2, <4>1, <2>2, TypesMade
        <4>3. LabelsAt(7, t) = LabelsAt(6, t) \cup _NEW_SUBJECT_TYPES
          BY <3>2, NewLabels
        <4> QED BY <4>1, <4>2, <4>3, <2>2
      <3>3. CASE t # "branding_status" /\ t # "subject_type"
        <4>1. t \in TypesAt(6)
          BY <3>3, NewTypes
        <4>2. BrandingTypes(types)[t] = types[t]
          BY <3>3, <4>1, <2>2, TypesMade
        <4> QED BY <3>3, <4>1, <4>2, <2>2, NewLabels
      <3> QED BY <3>1, <3>2, <3>3
    <2> QED BY <1>2, <2>1, <2>3, <2>4 DEF IsPlain
  <1>3. CASE n = 11
    <2>1. UpTypes(11, types) = CardTypes(types)
      BY DEF UpTypes
    <2>2. DOMAIN types = TypesAt(10) /\ \A t \in TypesAt(10) : types[t] = LabelsAt(10, t)
      BY <1>3 DEF IsPlain
    <2>3. DOMAIN CardTypes(types) = TypesAt(11)
      BY <2>2, TypesMade, NewTypes
    <2>4. ASSUME NEW t \in TypesAt(11) PROVE CardTypes(types)[t] = LabelsAt(11, t)
      <3>1. CASE t = "scene_kind"
        BY <3>1, TypesMade, NewLabels
      <3>2. CASE t # "scene_kind"
        <4>1. t \in TypesAt(10)
          BY <3>2, NewTypes
        <4>2. CardTypes(types)[t] = types[t]
          BY <3>2, <4>1, <2>2, TypesMade
        <4> QED BY <4>1, <4>2, <2>2, NewLabels
      <3> QED BY <3>1, <3>2
    <2> QED BY <1>3, <2>1, <2>3, <2>4 DEF IsPlain
  <1>4. CASE n = 12
    <2>1. UpTypes(12, types) = KindTypes(types)
      BY DEF UpTypes
    <2>2. DOMAIN types = TypesAt(11) /\ \A t \in TypesAt(11) : types[t] = LabelsAt(11, t)
      BY <1>4 DEF IsPlain
    <2>3. DOMAIN KindTypes(types) = TypesAt(12)
      BY <2>2, TypesMade, NewTypes
    <2>4. ASSUME NEW t \in TypesAt(12) PROVE KindTypes(types)[t] = LabelsAt(12, t)
      <3>0. t \in TypesAt(11)
        BY NewTypes
      <3>1. CASE t = "artifact_kind"
        <4>1. KindTypes(types)[t] = types[t] \cup _NEW_KINDS
          BY <3>0, <3>1, <2>2, TypesMade
        <4>2. LabelsAt(12, t) = LabelsAt(11, t) \cup _NEW_KINDS
          BY <3>1, NewLabels
        <4> QED BY <3>0, <4>1, <4>2, <2>2
      <3>2. CASE t # "artifact_kind"
        <4>1. KindTypes(types)[t] = types[t]
          BY <3>0, <3>2, <2>2, TypesMade
        <4> QED BY <3>0, <3>2, <4>1, <2>2, NewLabels
      <3> QED BY <3>1, <3>2
    <2> QED BY <1>4, <2>1, <2>3, <2>4 DEF IsPlain
  <1>5. CASE n \notin {1, 7, 11, 12}
    <2>1. UpTypes(n, types) = types
      BY <1>5 DEF UpTypes
    <2> QED BY <1>5, <2>1, SameTypes DEF IsPlain
  <1> QED BY <1>1, <1>2, <1>3, <1>4, <1>5

LEMMA TypedDown ==
    ASSUME NEW n \in 1 .. 13, NEW types, IsTyped(types, n)
    PROVE  IsTyped(DownTypes(n, types), n - 1)
  <1>0. DOMAIN types = TypesAt(n) /\ \A t \in TypesAt(n) :
            LabelsAt(n, t) \subseteq types[t] /\ types[t] \subseteq LabelsAt(13, t)
    BY DEF IsTyped
  <1>1. CASE n = 1
    <2>1. DownTypes(1, types) = TypesWithout(types, DOMAIN _ENUM_TYPES)
      BY DEF DownTypes
    <2>2. DOMAIN TypesWithout(types, DOMAIN _ENUM_TYPES) = {}
      <3> DEFINE names == DOMAIN types \ DOMAIN _ENUM_TYPES
      <3>1. DOMAIN types = DOMAIN _ENUM_TYPES
        BY <1>0, <1>1, NewTypes
      <3>2. names = {}
        BY <3>1
      <3>3. TypesWithout(types, DOMAIN _ENUM_TYPES) = Restrict(types, names)
        BY DEF TypesWithout
      <3> HIDE DEF names
      <3> QED BY <3>2, <3>3, Restricted
    <2>3. IsTyped(TypesWithout(types, DOMAIN _ENUM_TYPES), 0)
      <3>1. TypesAt(0) = {}
        BY NewTypes
      <3> QED BY <2>2, <3>1 DEF IsTyped
    <2>4. n - 1 = 0
      BY <1>1
    <2> QED BY <1>1, <2>1, <2>3, <2>4
  <1>2. CASE n = 7
    <2> DEFINE left == TypesWithout(types, {"branding_status"})
    <2>1. DownTypes(7, types) = left
      BY DEF DownTypes
    <2>2. DOMAIN left = TypesAt(6) /\ \A t \in TypesAt(6) : left[t] = types[t]
      <3>1. TypesAt(7) \ {"branding_status"} = TypesAt(6)
        BY NewTypes
      <3> QED BY <1>0, <1>2, <3>1, Restricted DEF TypesWithout
    <2> HIDE DEF left
    <2>3. ASSUME NEW t \in TypesAt(6)
          PROVE  LabelsAt(6, t) \subseteq left[t] /\ left[t] \subseteq LabelsAt(13, t)
      <3>1. t \in TypesAt(7) /\ left[t] = types[t]
        BY <2>2, NewTypes
      <3>2. LabelsAt(6, t) \subseteq LabelsAt(7, t)
        BY NewLabels
      <3> QED BY <1>0, <1>2, <3>1, <3>2
    <2> QED BY <1>2, <2>1, <2>2, <2>3 DEF IsTyped
  <1>3. CASE n = 11
    <2> DEFINE left == TypesWithout(types, {"scene_kind"})
    <2>1. DownTypes(11, types) = left
      BY DEF DownTypes
    <2>2. DOMAIN left = TypesAt(10) /\ \A t \in TypesAt(10) : left[t] = types[t]
      <3>1. TypesAt(11) \ {"scene_kind"} = TypesAt(10)
        BY NewTypes
      <3> QED BY <1>0, <1>3, <3>1, Restricted DEF TypesWithout
    <2> HIDE DEF left
    <2>3. ASSUME NEW t \in TypesAt(10)
          PROVE  LabelsAt(10, t) \subseteq left[t] /\ left[t] \subseteq LabelsAt(13, t)
      <3>1. t \in TypesAt(11) /\ left[t] = types[t]
        BY <2>2, NewTypes
      <3>2. LabelsAt(10, t) = LabelsAt(11, t)
        BY NewLabels
      <3> QED BY <1>0, <1>3, <3>1, <3>2
    <2> QED BY <1>3, <2>1, <2>2, <2>3 DEF IsTyped
  <1>4. CASE n = 12
    <2>1. DownTypes(12, types) = types
      BY DEF DownTypes
    <2>2. ASSUME NEW t \in TypesAt(11)
          PROVE  LabelsAt(11, t) \subseteq types[t] /\ types[t] \subseteq LabelsAt(13, t)
      <3>1. t \in TypesAt(12)
        BY NewTypes
      <3>2. LabelsAt(11, t) \subseteq LabelsAt(12, t)
        BY NewLabels
      <3> QED BY <1>0, <1>4, <3>1, <3>2
    <2> QED BY <1>0, <1>4, <2>1, <2>2, NewTypes DEF IsTyped
  <1>5. CASE n \notin {1, 7, 11, 12}
    <2>1. DownTypes(n, types) = types
      BY <1>5 DEF DownTypes
    <2> QED BY <1>5, <2>1, SameTypes DEF IsTyped
  <1> QED BY <1>1, <1>2, <1>3, <1>4, <1>5

(* The equation of the chain has a solution, so Built is one.              *)
BuildsAll(f) == f = [n \in 0 .. HeadRevision |-> IF n = 0 THEN Empty ELSE Up(n, f[n - 1])]

(* Built satisfies its own equation.                                       *)
LEMMA ChainIsBuilt == BuildsAll(Built)
  <1> DEFINE b0 == Empty
             b1 == Up(1, b0)
             b2 == Up(2, b1)
             b3 == Up(3, b2)
             b4 == Up(4, b3)
             b5 == Up(5, b4)
             b6 == Up(6, b5)
             b7 == Up(7, b6)
             b8 == Up(8, b7)
             b9 == Up(9, b8)
             b10 == Up(10, b9)
             b11 == Up(11, b10)
             b12 == Up(12, b11)
             b13 == Up(13, b12)
             all == [n \in 0 .. 13 |->
                CASE n = 0 -> b0
                  [] n = 1 -> b1
                  [] n = 2 -> b2
                  [] n = 3 -> b3
                  [] n = 4 -> b4
                  [] n = 5 -> b5
                  [] n = 6 -> b6
                  [] n = 7 -> b7
                  [] n = 8 -> b8
                  [] n = 9 -> b9
                  [] n = 10 -> b10
                  [] n = 11 -> b11
                  [] n = 12 -> b12
                  [] n = 13 -> b13]
  <1>0. all = [n \in 0 .. 13 |-> all[n]]
    OBVIOUS
  <1> HIDE DEF b0, b1, b2, b3, b4, b5, b6, b7, b8, b9, b10, b11, b12, b13
  <1>1. /\ all[0] = b0
        /\ all[1] = b1
        /\ all[2] = b2
        /\ all[3] = b3
        /\ all[4] = b4
        /\ all[5] = b5
        /\ all[6] = b6
        /\ all[7] = b7
        /\ all[8] = b8
        /\ all[9] = b9
        /\ all[10] = b10
        /\ all[11] = b11
        /\ all[12] = b12
        /\ all[13] = b13
    OBVIOUS
  <1> HIDE DEF all
  <1>2. all[0] = Empty
    BY <1>1 DEF b0
  <1>3. all[1] = Up(1, all[0])
    BY <1>1 DEF b1
  <1>4. all[2] = Up(2, all[1])
    BY <1>1 DEF b2
  <1>5. all[3] = Up(3, all[2])
    BY <1>1 DEF b3
  <1>6. all[4] = Up(4, all[3])
    BY <1>1 DEF b4
  <1>7. all[5] = Up(5, all[4])
    BY <1>1 DEF b5
  <1>8. all[6] = Up(6, all[5])
    BY <1>1 DEF b6
  <1>9. all[7] = Up(7, all[6])
    BY <1>1 DEF b7
  <1>10. all[8] = Up(8, all[7])
    BY <1>1 DEF b8
  <1>11. all[9] = Up(9, all[8])
    BY <1>1 DEF b9
  <1>12. all[10] = Up(10, all[9])
    BY <1>1 DEF b10
  <1>13. all[11] = Up(11, all[10])
    BY <1>1 DEF b11
  <1>14. all[12] = Up(12, all[11])
    BY <1>1 DEF b12
  <1>15. all[13] = Up(13, all[12])
    BY <1>1 DEF b13
  <1>16. ASSUME NEW n \in 0 .. 13, n # 0 PROVE all[n] = Up(n, all[n - 1])
    <2>1. n \in 1 .. 13
      BY <1>16
    <2>2. CASE n = 1
      <3>1. n - 1 = 0
        BY <2>2
      <3> QED BY <2>2, <3>1, <1>3
    <2>3. CASE n = 2
      <3>1. n - 1 = 1
        BY <2>3
      <3> QED BY <2>3, <3>1, <1>4
    <2>4. CASE n = 3
      <3>1. n - 1 = 2
        BY <2>4
      <3> QED BY <2>4, <3>1, <1>5
    <2>5. CASE n = 4
      <3>1. n - 1 = 3
        BY <2>5
      <3> QED BY <2>5, <3>1, <1>6
    <2>6. CASE n = 5
      <3>1. n - 1 = 4
        BY <2>6
      <3> QED BY <2>6, <3>1, <1>7
    <2>7. CASE n = 6
      <3>1. n - 1 = 5
        BY <2>7
      <3> QED BY <2>7, <3>1, <1>8
    <2>8. CASE n = 7
      <3>1. n - 1 = 6
        BY <2>8
      <3> QED BY <2>8, <3>1, <1>9
    <2>9. CASE n = 8
      <3>1. n - 1 = 7
        BY <2>9
      <3> QED BY <2>9, <3>1, <1>10
    <2>10. CASE n = 9
      <3>1. n - 1 = 8
        BY <2>10
      <3> QED BY <2>10, <3>1, <1>11
    <2>11. CASE n = 10
      <3>1. n - 1 = 9
        BY <2>11
      <3> QED BY <2>11, <3>1, <1>12
    <2>12. CASE n = 11
      <3>1. n - 1 = 10
        BY <2>12
      <3> QED BY <2>12, <3>1, <1>13
    <2>13. CASE n = 12
      <3>1. n - 1 = 11
        BY <2>13
      <3> QED BY <2>13, <3>1, <1>14
    <2>14. CASE n = 13
      <3>1. n - 1 = 12
        BY <2>14
      <3> QED BY <2>14, <3>1, <1>15
    <2> QED BY <2>1, <2>2, <2>3, <2>4, <2>5, <2>6, <2>7, <2>8, <2>9, <2>10, <2>11, <2>12, <2>13,
          <2>14
  <1>17. \A n \in 0 .. 13 : all[n] = IF n = 0 THEN Empty ELSE Up(n, all[n - 1])
    BY <1>2, <1>16
  <1>18. BuildsAll(all)
    <2>1. [n \in 0 .. 13 |-> all[n]] =
             [n \in 0 .. 13 |-> IF n = 0 THEN Empty ELSE Up(n, all[n - 1])]
      BY <1>17
    <2> QED BY <1>0, <2>1 DEF BuildsAll, HeadRevision
  <1>19. Built = CHOOSE f : BuildsAll(f)
    BY DEF Built, BuildsAll
  <1> QED BY <1>18, <1>19

(* The revision the chain builds has its tables and its types.             *)
IsBuilt(n) == IsAt(Built[n], n, Built[n].type) /\ IsPlain(Built[n].type, n)

LEMMA BuiltFirst == IsBuilt(0)
  <1>1. Built[0] = Empty
    BY ChainIsBuilt DEF BuildsAll, HeadRevision
  <1>2. IsAt(Empty, 0, Empty.type)
    <2>1. NamesAt(0) = {} /\ GuardedAt(0) = {} /\ ViewsAt(0) = {}
      BY DEF NamesAt, GuardedAt, ViewsAt
    <2>2. IsCatalog(Empty)
      BY DEF IsCatalog, Empty
    <2> QED BY <2>1, <2>2 DEF IsAt, Empty
  <1>3. IsPlain(Empty.type, 0)
    BY NewTypes DEF IsPlain, Empty
  <1> QED BY <1>1, <1>2, <1>3 DEF IsBuilt

(* The chain climbs: what it builds at a revision has that revision's      *)
(* tables and types.                                                       *)
LEMMA BuiltNext == ASSUME NEW n \in 1 .. 13, IsBuilt(n - 1) PROVE IsBuilt(n)
  <1>1. Built[n] = Up(n, Built[n - 1])
    BY ChainIsBuilt DEF BuildsAll, HeadRevision
  <1>2. IsAt(Built[n], n, UpTypes(n, Built[n - 1].type))
    BY <1>1, UpStep DEF IsBuilt
  <1>3. IsPlain(UpTypes(n, Built[n - 1].type), n)
    BY PlainUp DEF IsBuilt
  <1>4. Built[n].type = UpTypes(n, Built[n - 1].type)
    BY <1>2 DEF IsAt
  <1> QED BY <1>2, <1>3, <1>4 DEF IsBuilt

LEMMA AllBuilt == \A n \in 0 .. 13 : IsBuilt(n)
  <1>0. IsBuilt(0)
    BY BuiltFirst
  <1>1. IsBuilt(1)
    BY <1>0, BuiltNext
  <1>2. IsBuilt(2)
    BY <1>1, BuiltNext
  <1>3. IsBuilt(3)
    BY <1>2, BuiltNext
  <1>4. IsBuilt(4)
    BY <1>3, BuiltNext
  <1>5. IsBuilt(5)
    BY <1>4, BuiltNext
  <1>6. IsBuilt(6)
    BY <1>5, BuiltNext
  <1>7. IsBuilt(7)
    BY <1>6, BuiltNext
  <1>8. IsBuilt(8)
    BY <1>7, BuiltNext
  <1>9. IsBuilt(9)
    BY <1>8, BuiltNext
  <1>10. IsBuilt(10)
    BY <1>9, BuiltNext
  <1>11. IsBuilt(11)
    BY <1>10, BuiltNext
  <1>12. IsBuilt(12)
    BY <1>11, BuiltNext
  <1>13. IsBuilt(13)
    BY <1>12, BuiltNext
  <1> QED BY <1>0, <1>1, <1>2, <1>3, <1>4, <1>5, <1>6, <1>7, <1>8, <1>9, <1>10, <1>11, <1>12, <1>13

(* Table by table, what the chain builds at its head is what the model     *)
(* declares in models/*.py: columns, nullability, references, uniques and  *)
(* checks.                                                                 *)
LEMMA OutboxEventMatches == TableAt(13, "outbox_event") = M!OutboxEvent
  <1>1. ColumnsAt(13, "outbox_event") = M!OutboxEvent.columns
    BY DEF ColumnsAt, First, outbox_event, Table, Kept, Mutable, Pins, M!OutboxEvent, M!Table,
          M!Kept,
           M!Mutable
  <1>2. NullableAt(13, "outbox_event") = M!OutboxEvent.nullable
    BY DEF NullableAt, First, outbox_event, Table, Pins, M!OutboxEvent, M!Table
  <1>3. FksAt(13, "outbox_event") = M!OutboxEvent.fks
    BY DEF FksAt, First, outbox_event, Table, Fk, M!OutboxEvent, M!Table, M!Fk
  <1>4. UniquesAt(13, "outbox_event") = M!OutboxEvent.uniques
    BY DEF UniquesAt, First, outbox_event, Table, Unique, UniqueNulls, UniqueAmong, M!OutboxEvent,
          M!Table,
           M!Unique, M!UniqueNulls, M!UniqueAmong
  <1>5. ChecksAt(13, "outbox_event") = M!OutboxEvent.checks
    BY DEF ChecksAt, First, outbox_event, Table, CardChecks, M!OutboxEvent, M!Table
  <1>6. IsTable(M!OutboxEvent)
    BY DEF IsTable, Table, M!OutboxEvent, M!Table
  <1> QED BY <1>1, <1>2, <1>3, <1>4, <1>5, <1>6 DEF TableAt, IsTable

LEMMA WorkspaceMatches == TableAt(13, "workspace") = M!Workspace
  <1>1. ColumnsAt(13, "workspace") = M!Workspace.columns
    BY DEF ColumnsAt, First, workspace, Table, Kept, Mutable, Pins, M!Workspace, M!Table, M!Kept,
           M!Mutable
  <1>2. NullableAt(13, "workspace") = M!Workspace.nullable
    BY DEF NullableAt, First, workspace, Table, Pins, M!Workspace, M!Table
  <1>3. FksAt(13, "workspace") = M!Workspace.fks
    BY DEF FksAt, First, workspace, Table, Fk, M!Workspace, M!Table, M!Fk
  <1>4. UniquesAt(13, "workspace") = M!Workspace.uniques
    BY DEF UniquesAt, First, workspace, Table, Unique, UniqueNulls, UniqueAmong, M!Workspace,
          M!Table,
           M!Unique, M!UniqueNulls, M!UniqueAmong
  <1>5. ChecksAt(13, "workspace") = M!Workspace.checks
    BY DEF ChecksAt, First, workspace, Table, CardChecks, M!Workspace, M!Table
  <1>6. IsTable(M!Workspace)
    BY DEF IsTable, Table, M!Workspace, M!Table
  <1> QED BY <1>1, <1>2, <1>3, <1>4, <1>5, <1>6 DEF TableAt, IsTable

LEMMA AppUserMatches == TableAt(13, "app_user") = M!AppUser
  <1>1. ColumnsAt(13, "app_user") = M!AppUser.columns
    BY DEF ColumnsAt, First, app_user, Table, Kept, Mutable, Pins, M!AppUser, M!Table, M!Kept,
           M!Mutable
  <1>2. NullableAt(13, "app_user") = M!AppUser.nullable
    BY DEF NullableAt, First, app_user, Table, Pins, M!AppUser, M!Table
  <1>3. FksAt(13, "app_user") = M!AppUser.fks
    BY DEF FksAt, First, app_user, Table, Fk, M!AppUser, M!Table, M!Fk
  <1>4. UniquesAt(13, "app_user") = M!AppUser.uniques
    BY DEF UniquesAt, First, app_user, Table, Unique, UniqueNulls, UniqueAmong, M!AppUser, M!Table,
           M!Unique, M!UniqueNulls, M!UniqueAmong
  <1>5. ChecksAt(13, "app_user") = M!AppUser.checks
    BY DEF ChecksAt, First, app_user, Table, CardChecks, M!AppUser, M!Table
  <1>6. IsTable(M!AppUser)
    BY DEF IsTable, Table, M!AppUser, M!Table
  <1> QED BY <1>1, <1>2, <1>3, <1>4, <1>5, <1>6 DEF TableAt, IsTable

LEMMA SeriesMatches == TableAt(13, "series") = M!Series
  <1>1. ColumnsAt(13, "series") = M!Series.columns
    BY DEF ColumnsAt, First, series, Table, Kept, Mutable, Pins, M!Series, M!Table, M!Kept,
           M!Mutable
  <1>2. NullableAt(13, "series") = M!Series.nullable
    BY DEF NullableAt, First, series, Table, Pins, M!Series, M!Table
  <1>3. FksAt(13, "series") = M!Series.fks
    BY DEF FksAt, First, series, Table, Fk, M!Series, M!Table, M!Fk
  <1>4. UniquesAt(13, "series") = M!Series.uniques
    BY DEF UniquesAt, First, series, Table, Unique, UniqueNulls, UniqueAmong, M!Series, M!Table,
           M!Unique, M!UniqueNulls, M!UniqueAmong
  <1>5. ChecksAt(13, "series") = M!Series.checks
    BY DEF ChecksAt, First, series, Table, CardChecks, M!Series, M!Table
  <1>6. IsTable(M!Series)
    BY DEF IsTable, Table, M!Series, M!Table
  <1> QED BY <1>1, <1>2, <1>3, <1>4, <1>5, <1>6 DEF TableAt, IsTable

LEMMA AuditEventMatches == TableAt(13, "audit_event") = M!AuditEvent
  <1>1. ColumnsAt(13, "audit_event") = M!AuditEvent.columns
    BY DEF ColumnsAt, First, audit_event, Table, Kept, Mutable, Pins, M!AuditEvent, M!Table, M!Kept,
           M!Mutable
  <1>2. NullableAt(13, "audit_event") = M!AuditEvent.nullable
    BY DEF NullableAt, First, audit_event, Table, Pins, M!AuditEvent, M!Table
  <1>3. FksAt(13, "audit_event") = M!AuditEvent.fks
    BY DEF FksAt, First, audit_event, Table, Fk, M!AuditEvent, M!Table, M!Fk
  <1>4. UniquesAt(13, "audit_event") = M!AuditEvent.uniques
    BY DEF UniquesAt, First, audit_event, Table, Unique, UniqueNulls, UniqueAmong, M!AuditEvent,
          M!Table,
           M!Unique, M!UniqueNulls, M!UniqueAmong
  <1>5. ChecksAt(13, "audit_event") = M!AuditEvent.checks
    BY DEF ChecksAt, First, audit_event, Table, CardChecks, M!AuditEvent, M!Table
  <1>6. IsTable(M!AuditEvent)
    BY DEF IsTable, Table, M!AuditEvent, M!Table
  <1> QED BY <1>1, <1>2, <1>3, <1>4, <1>5, <1>6 DEF TableAt, IsTable

LEMMA VideoProjectMatches == TableAt(13, "video_project") = M!VideoProject
  <1>1. ColumnsAt(13, "video_project") = M!VideoProject.columns
    BY DEF ColumnsAt, First, video_project, Table, Kept, Mutable, Pins, M!VideoProject, M!Table,
          M!Kept,
           M!Mutable
  <1>2. NullableAt(13, "video_project") = M!VideoProject.nullable
    BY DEF NullableAt, First, video_project, Table, Pins, M!VideoProject, M!Table
  <1>3. FksAt(13, "video_project") = M!VideoProject.fks
    BY DEF FksAt, First, video_project, Table, Fk, M!VideoProject, M!Table, M!Fk
  <1>4. UniquesAt(13, "video_project") = M!VideoProject.uniques
    BY DEF UniquesAt, First, video_project, Table, Unique, UniqueNulls, UniqueAmong,
          M!VideoProject, M!Table,
           M!Unique, M!UniqueNulls, M!UniqueAmong
  <1>5. ChecksAt(13, "video_project") = M!VideoProject.checks
    BY DEF ChecksAt, First, video_project, Table, CardChecks, M!VideoProject, M!Table
  <1>6. IsTable(M!VideoProject)
    BY DEF IsTable, Table, M!VideoProject, M!Table
  <1> QED BY <1>1, <1>2, <1>3, <1>4, <1>5, <1>6 DEF TableAt, IsTable

LEMMA ArtifactMatches == TableAt(13, "artifact") = M!Artifact
  <1>1. ColumnsAt(13, "artifact") = M!Artifact.columns
    BY DEF ColumnsAt, First, artifact, Table, Kept, Mutable, Pins, M!Artifact, M!Table, M!Kept,
           M!Mutable
  <1>2. NullableAt(13, "artifact") = M!Artifact.nullable
    BY DEF NullableAt, First, artifact, Table, Pins, M!Artifact, M!Table
  <1>3. FksAt(13, "artifact") = M!Artifact.fks
    BY DEF FksAt, First, artifact, Table, Fk, M!Artifact, M!Table, M!Fk
  <1>4. UniquesAt(13, "artifact") = M!Artifact.uniques
    BY DEF UniquesAt, First, artifact, Table, Unique, UniqueNulls, UniqueAmong, M!Artifact, M!Table,
           M!Unique, M!UniqueNulls, M!UniqueAmong
  <1>5. ChecksAt(13, "artifact") = M!Artifact.checks
    BY DEF ChecksAt, First, artifact, Table, CardChecks, M!Artifact, M!Table
  <1>6. IsTable(M!Artifact)
    BY DEF IsTable, Table, M!Artifact, M!Table
  <1> QED BY <1>1, <1>2, <1>3, <1>4, <1>5, <1>6 DEF TableAt, IsTable

LEMMA GenerationJobMatches == TableAt(13, "generation_job") = M!GenerationJob
  <1>1. ColumnsAt(13, "generation_job") = M!GenerationJob.columns
    BY DEF ColumnsAt, First, generation_job, Table, Kept, Mutable, Pins, M!GenerationJob, M!Table,
          M!Kept,
           M!Mutable
  <1>2. NullableAt(13, "generation_job") = M!GenerationJob.nullable
    BY DEF NullableAt, First, generation_job, Table, Pins, M!GenerationJob, M!Table
  <1>3. FksAt(13, "generation_job") = M!GenerationJob.fks
    BY DEF FksAt, First, generation_job, Table, Fk, M!GenerationJob, M!Table, M!Fk
  <1>4. UniquesAt(13, "generation_job") = M!GenerationJob.uniques
    BY DEF UniquesAt, First, generation_job, Table, Unique, UniqueNulls, UniqueAmong,
          M!GenerationJob, M!Table,
           M!Unique, M!UniqueNulls, M!UniqueAmong
  <1>5. ChecksAt(13, "generation_job") = M!GenerationJob.checks
    BY DEF ChecksAt, First, generation_job, Table, CardChecks, M!GenerationJob, M!Table
  <1>6. IsTable(M!GenerationJob)
    BY DEF IsTable, Table, M!GenerationJob, M!Table
  <1> QED BY <1>1, <1>2, <1>3, <1>4, <1>5, <1>6 DEF TableAt, IsTable

LEMMA ArtifactVersionMatches == TableAt(13, "artifact_version") = M!ArtifactVersion
  <1>1. ColumnsAt(13, "artifact_version") = M!ArtifactVersion.columns
    BY DEF ColumnsAt, First, artifact_version, Table, Kept, Mutable, Pins, M!ArtifactVersion,
          M!Table, M!Kept,
           M!Mutable
  <1>2. NullableAt(13, "artifact_version") = M!ArtifactVersion.nullable
    BY DEF NullableAt, First, artifact_version, Table, Pins, M!ArtifactVersion, M!Table
  <1>3. FksAt(13, "artifact_version") = M!ArtifactVersion.fks
    BY DEF FksAt, First, artifact_version, Table, Fk, M!ArtifactVersion, M!Table, M!Fk
  <1>4. UniquesAt(13, "artifact_version") = M!ArtifactVersion.uniques
    BY DEF UniquesAt, First, artifact_version, Table, Unique, UniqueNulls, UniqueAmong,
          M!ArtifactVersion, M!Table,
           M!Unique, M!UniqueNulls, M!UniqueAmong
  <1>5. ChecksAt(13, "artifact_version") = M!ArtifactVersion.checks
    BY DEF ChecksAt, First, artifact_version, Table, CardChecks, M!ArtifactVersion, M!Table
  <1>6. IsTable(M!ArtifactVersion)
    BY DEF IsTable, Table, M!ArtifactVersion, M!Table
  <1> QED BY <1>1, <1>2, <1>3, <1>4, <1>5, <1>6 DEF TableAt, IsTable

LEMMA ProviderUsageMatches == TableAt(13, "provider_usage") = M!ProviderUsage
  <1>1. ColumnsAt(13, "provider_usage") = M!ProviderUsage.columns
    BY DEF ColumnsAt, First, provider_usage, Table, Kept, Mutable, Pins, M!ProviderUsage, M!Table,
          M!Kept,
           M!Mutable
  <1>2. NullableAt(13, "provider_usage") = M!ProviderUsage.nullable
    BY DEF NullableAt, First, provider_usage, Table, Pins, M!ProviderUsage, M!Table
  <1>3. FksAt(13, "provider_usage") = M!ProviderUsage.fks
    BY DEF FksAt, First, provider_usage, Table, Fk, M!ProviderUsage, M!Table, M!Fk
  <1>4. UniquesAt(13, "provider_usage") = M!ProviderUsage.uniques
    BY DEF UniquesAt, First, provider_usage, Table, Unique, UniqueNulls, UniqueAmong,
          M!ProviderUsage, M!Table,
           M!Unique, M!UniqueNulls, M!UniqueAmong
  <1>5. ChecksAt(13, "provider_usage") = M!ProviderUsage.checks
    BY DEF ChecksAt, First, provider_usage, Table, CardChecks, M!ProviderUsage, M!Table
  <1>6. IsTable(M!ProviderUsage)
    BY DEF IsTable, Table, M!ProviderUsage, M!Table
  <1> QED BY <1>1, <1>2, <1>3, <1>4, <1>5, <1>6 DEF TableAt, IsTable

LEMMA StateTransitionMatches == TableAt(13, "state_transition") = M!StateTransition
  <1>1. ColumnsAt(13, "state_transition") = M!StateTransition.columns
    BY DEF ColumnsAt, First, state_transition, Table, Kept, Mutable, Pins, M!StateTransition,
          M!Table, M!Kept,
           M!Mutable
  <1>2. NullableAt(13, "state_transition") = M!StateTransition.nullable
    BY DEF NullableAt, First, state_transition, Table, Pins, M!StateTransition, M!Table
  <1>3. FksAt(13, "state_transition") = M!StateTransition.fks
    BY DEF FksAt, First, state_transition, Table, Fk, M!StateTransition, M!Table, M!Fk
  <1>4. UniquesAt(13, "state_transition") = M!StateTransition.uniques
    BY DEF UniquesAt, First, state_transition, Table, Unique, UniqueNulls, UniqueAmong,
          M!StateTransition, M!Table,
           M!Unique, M!UniqueNulls, M!UniqueAmong
  <1>5. ChecksAt(13, "state_transition") = M!StateTransition.checks
    BY DEF ChecksAt, First, state_transition, Table, CardChecks, M!StateTransition, M!Table
  <1>6. IsTable(M!StateTransition)
    BY DEF IsTable, Table, M!StateTransition, M!Table
  <1> QED BY <1>1, <1>2, <1>3, <1>4, <1>5, <1>6 DEF TableAt, IsTable

LEMMA CommentMatches == TableAt(13, "comment") = M!Comment
  <1>1. ColumnsAt(13, "comment") = M!Comment.columns
    BY DEF ColumnsAt, First, comment, Table, Kept, Mutable, Pins, M!Comment, M!Table, M!Kept,
           M!Mutable
  <1>2. NullableAt(13, "comment") = M!Comment.nullable
    BY DEF NullableAt, First, comment, Table, Pins, M!Comment, M!Table
  <1>3. FksAt(13, "comment") = M!Comment.fks
    BY DEF FksAt, First, comment, Table, Fk, M!Comment, M!Table, M!Fk
  <1>4. UniquesAt(13, "comment") = M!Comment.uniques
    BY DEF UniquesAt, First, comment, Table, Unique, UniqueNulls, UniqueAmong, M!Comment, M!Table,
           M!Unique, M!UniqueNulls, M!UniqueAmong
  <1>5. ChecksAt(13, "comment") = M!Comment.checks
    BY DEF ChecksAt, First, comment, Table, CardChecks, M!Comment, M!Table
  <1>6. IsTable(M!Comment)
    BY DEF IsTable, Table, M!Comment, M!Table
  <1> QED BY <1>1, <1>2, <1>3, <1>4, <1>5, <1>6 DEF TableAt, IsTable

LEMMA ReviewDecisionMatches == TableAt(13, "review_decision") = M!ReviewDecision
  <1>1. ColumnsAt(13, "review_decision") = M!ReviewDecision.columns
    BY DEF ColumnsAt, First, review_decision, Table, Kept, Mutable, Pins, M!ReviewDecision,
          M!Table, M!Kept,
           M!Mutable
  <1>2. NullableAt(13, "review_decision") = M!ReviewDecision.nullable
    BY DEF NullableAt, First, review_decision, Table, Pins, M!ReviewDecision, M!Table
  <1>3. FksAt(13, "review_decision") = M!ReviewDecision.fks
    BY DEF FksAt, First, review_decision, Table, Fk, M!ReviewDecision, M!Table, M!Fk
  <1>4. UniquesAt(13, "review_decision") = M!ReviewDecision.uniques
    BY DEF UniquesAt, First, review_decision, Table, Unique, UniqueNulls, UniqueAmong,
          M!ReviewDecision, M!Table,
           M!Unique, M!UniqueNulls, M!UniqueAmong
  <1>5. ChecksAt(13, "review_decision") = M!ReviewDecision.checks
    BY DEF ChecksAt, First, review_decision, Table, CardChecks, M!ReviewDecision, M!Table
  <1>6. IsTable(M!ReviewDecision)
    BY DEF IsTable, Table, M!ReviewDecision, M!Table
  <1> QED BY <1>1, <1>2, <1>3, <1>4, <1>5, <1>6 DEF TableAt, IsTable

LEMMA SceneSetMatches == TableAt(13, "scene_set") = M!SceneSet
  <1>1. ColumnsAt(13, "scene_set") = M!SceneSet.columns
    BY DEF ColumnsAt, First, scene_set, Table, Kept, Mutable, Pins, M!SceneSet, M!Table, M!Kept,
           M!Mutable
  <1>2. NullableAt(13, "scene_set") = M!SceneSet.nullable
    BY DEF NullableAt, First, scene_set, Table, Pins, M!SceneSet, M!Table
  <1>3. FksAt(13, "scene_set") = M!SceneSet.fks
    BY DEF FksAt, First, scene_set, Table, Fk, M!SceneSet, M!Table, M!Fk
  <1>4. UniquesAt(13, "scene_set") = M!SceneSet.uniques
    BY DEF UniquesAt, First, scene_set, Table, Unique, UniqueNulls, UniqueAmong, M!SceneSet,
          M!Table,
           M!Unique, M!UniqueNulls, M!UniqueAmong
  <1>5. ChecksAt(13, "scene_set") = M!SceneSet.checks
    BY DEF ChecksAt, First, scene_set, Table, CardChecks, M!SceneSet, M!Table
  <1>6. IsTable(M!SceneSet)
    BY DEF IsTable, Table, M!SceneSet, M!Table
  <1> QED BY <1>1, <1>2, <1>3, <1>4, <1>5, <1>6 DEF TableAt, IsTable

LEMMA SceneMatches == TableAt(13, "scene") = M!Scene
  <1>1. ColumnsAt(13, "scene") = M!Scene.columns
    BY DEF ColumnsAt, First, scene, Table, Kept, Mutable, Pins, M!Scene, M!Table, M!Kept,
           M!Mutable
  <1>2. NullableAt(13, "scene") = M!Scene.nullable
    BY DEF NullableAt, First, scene, Table, Pins, M!Scene, M!Table
  <1>3. FksAt(13, "scene") = M!Scene.fks
    BY DEF FksAt, First, scene, Table, Fk, M!Scene, M!Table, M!Fk
  <1>4. UniquesAt(13, "scene") = M!Scene.uniques
    BY DEF UniquesAt, First, scene, Table, Unique, UniqueNulls, UniqueAmong, M!Scene, M!Table,
           M!Unique, M!UniqueNulls, M!UniqueAmong
  <1>5. ChecksAt(13, "scene") = M!Scene.checks
    BY DEF ChecksAt, First, scene, Table, CardChecks, M!Scene, M!Table
  <1>6. IsTable(M!Scene)
    BY DEF IsTable, Table, M!Scene, M!Table
  <1> QED BY <1>1, <1>2, <1>3, <1>4, <1>5, <1>6 DEF TableAt, IsTable

LEMMA SeriesCharacterMatches == TableAt(13, "series_character") = M!SeriesCharacter
  <1>1. ColumnsAt(13, "series_character") = M!SeriesCharacter.columns
    BY DEF ColumnsAt, First, series_character, Table, Kept, Mutable, Pins, M!SeriesCharacter,
          M!Table, M!Kept,
           M!Mutable
  <1>2. NullableAt(13, "series_character") = M!SeriesCharacter.nullable
    BY DEF NullableAt, First, series_character, Table, Pins, M!SeriesCharacter, M!Table
  <1>3. FksAt(13, "series_character") = M!SeriesCharacter.fks
    BY DEF FksAt, First, series_character, Table, Fk, M!SeriesCharacter, M!Table, M!Fk
  <1>4. UniquesAt(13, "series_character") = M!SeriesCharacter.uniques
    BY DEF UniquesAt, First, series_character, Table, Unique, UniqueNulls, UniqueAmong,
          M!SeriesCharacter, M!Table,
           M!Unique, M!UniqueNulls, M!UniqueAmong
  <1>5. ChecksAt(13, "series_character") = M!SeriesCharacter.checks
    BY DEF ChecksAt, First, series_character, Table, CardChecks, M!SeriesCharacter, M!Table
  <1>6. IsTable(M!SeriesCharacter)
    BY DEF IsTable, Table, M!SeriesCharacter, M!Table
  <1> QED BY <1>1, <1>2, <1>3, <1>4, <1>5, <1>6 DEF TableAt, IsTable

LEMMA SeriesStyleMatches == TableAt(13, "series_style") = M!SeriesStyle
  <1>1. ColumnsAt(13, "series_style") = M!SeriesStyle.columns
    BY DEF ColumnsAt, First, series_style, Table, Kept, Mutable, Pins, M!SeriesStyle, M!Table,
          M!Kept,
           M!Mutable
  <1>2. NullableAt(13, "series_style") = M!SeriesStyle.nullable
    BY DEF NullableAt, First, series_style, Table, Pins, M!SeriesStyle, M!Table
  <1>3. FksAt(13, "series_style") = M!SeriesStyle.fks
    BY DEF FksAt, First, series_style, Table, Fk, M!SeriesStyle, M!Table, M!Fk
  <1>4. UniquesAt(13, "series_style") = M!SeriesStyle.uniques
    BY DEF UniquesAt, First, series_style, Table, Unique, UniqueNulls, UniqueAmong, M!SeriesStyle,
          M!Table,
           M!Unique, M!UniqueNulls, M!UniqueAmong
  <1>5. ChecksAt(13, "series_style") = M!SeriesStyle.checks
    BY DEF ChecksAt, First, series_style, Table, CardChecks, M!SeriesStyle, M!Table
  <1>6. IsTable(M!SeriesStyle)
    BY DEF IsTable, Table, M!SeriesStyle, M!Table
  <1> QED BY <1>1, <1>2, <1>3, <1>4, <1>5, <1>6 DEF TableAt, IsTable

LEMMA CharacterReferenceMatches == TableAt(13, "character_reference") = M!CharacterReference
  <1>1. ColumnsAt(13, "character_reference") = M!CharacterReference.columns
    BY DEF ColumnsAt, First, character_reference, Table, Kept, Mutable, Pins, M!CharacterReference,
          M!Table, M!Kept,
           M!Mutable
  <1>2. NullableAt(13, "character_reference") = M!CharacterReference.nullable
    BY DEF NullableAt, First, character_reference, Table, Pins, M!CharacterReference, M!Table
  <1>3. FksAt(13, "character_reference") = M!CharacterReference.fks
    BY DEF FksAt, First, character_reference, Table, Fk, M!CharacterReference, M!Table, M!Fk
  <1>4. UniquesAt(13, "character_reference") = M!CharacterReference.uniques
    BY DEF UniquesAt, First, character_reference, Table, Unique, UniqueNulls, UniqueAmong,
          M!CharacterReference, M!Table,
           M!Unique, M!UniqueNulls, M!UniqueAmong
  <1>5. ChecksAt(13, "character_reference") = M!CharacterReference.checks
    BY DEF ChecksAt, First, character_reference, Table, CardChecks, M!CharacterReference, M!Table
  <1>6. IsTable(M!CharacterReference)
    BY DEF IsTable, Table, M!CharacterReference, M!Table
  <1> QED BY <1>1, <1>2, <1>3, <1>4, <1>5, <1>6 DEF TableAt, IsTable

LEMMA PublishingPackageMatches == TableAt(13, "publishing_package") = M!PublishingPackage
  <1>1. ColumnsAt(13, "publishing_package") = M!PublishingPackage.columns
    BY DEF ColumnsAt, First, publishing_package, Table, Kept, Mutable, Pins, M!PublishingPackage,
          M!Table, M!Kept,
           M!Mutable
  <1>2. NullableAt(13, "publishing_package") = M!PublishingPackage.nullable
    BY DEF NullableAt, First, publishing_package, Table, Pins, M!PublishingPackage, M!Table
  <1>3. FksAt(13, "publishing_package") = M!PublishingPackage.fks
    BY DEF FksAt, First, publishing_package, Table, Fk, M!PublishingPackage, M!Table, M!Fk
  <1>4. UniquesAt(13, "publishing_package") = M!PublishingPackage.uniques
    BY DEF UniquesAt, First, publishing_package, Table, Unique, UniqueNulls, UniqueAmong,
          M!PublishingPackage, M!Table,
           M!Unique, M!UniqueNulls, M!UniqueAmong
  <1>5. ChecksAt(13, "publishing_package") = M!PublishingPackage.checks
    BY DEF ChecksAt, First, publishing_package, Table, CardChecks, M!PublishingPackage, M!Table
  <1>6. IsTable(M!PublishingPackage)
    BY DEF IsTable, Table, M!PublishingPackage, M!Table
  <1> QED BY <1>1, <1>2, <1>3, <1>4, <1>5, <1>6 DEF TableAt, IsTable

(* All of them, and no table more.                                         *)
LEMMA TablesMatch ==
    /\ DOMAIN M!Tables = NamesAt(13)
    /\ \A t \in NamesAt(13) : M!Tables[t] = TableAt(13, t)
  <1>1. DOMAIN M!Tables = NamesAt(13)
    BY DEF NamesAt, M!Tables, CoreTables, BrandingTables
  <1>2. M!Tables["outbox_event"] = TableAt(13, "outbox_event")
    BY OutboxEventMatches DEF M!Tables
  <1>3. M!Tables["workspace"] = TableAt(13, "workspace")
    BY WorkspaceMatches DEF M!Tables
  <1>4. M!Tables["app_user"] = TableAt(13, "app_user")
    BY AppUserMatches DEF M!Tables
  <1>5. M!Tables["series"] = TableAt(13, "series")
    BY SeriesMatches DEF M!Tables
  <1>6. M!Tables["audit_event"] = TableAt(13, "audit_event")
    BY AuditEventMatches DEF M!Tables
  <1>7. M!Tables["video_project"] = TableAt(13, "video_project")
    BY VideoProjectMatches DEF M!Tables
  <1>8. M!Tables["artifact"] = TableAt(13, "artifact")
    BY ArtifactMatches DEF M!Tables
  <1>9. M!Tables["generation_job"] = TableAt(13, "generation_job")
    BY GenerationJobMatches DEF M!Tables
  <1>10. M!Tables["artifact_version"] = TableAt(13, "artifact_version")
    BY ArtifactVersionMatches DEF M!Tables
  <1>11. M!Tables["provider_usage"] = TableAt(13, "provider_usage")
    BY ProviderUsageMatches DEF M!Tables
  <1>12. M!Tables["state_transition"] = TableAt(13, "state_transition")
    BY StateTransitionMatches DEF M!Tables
  <1>13. M!Tables["comment"] = TableAt(13, "comment")
    BY CommentMatches DEF M!Tables
  <1>14. M!Tables["review_decision"] = TableAt(13, "review_decision")
    BY ReviewDecisionMatches DEF M!Tables
  <1>15. M!Tables["scene_set"] = TableAt(13, "scene_set")
    BY SceneSetMatches DEF M!Tables
  <1>16. M!Tables["scene"] = TableAt(13, "scene")
    BY SceneMatches DEF M!Tables
  <1>17. M!Tables["series_character"] = TableAt(13, "series_character")
    BY SeriesCharacterMatches DEF M!Tables
  <1>18. M!Tables["series_style"] = TableAt(13, "series_style")
    BY SeriesStyleMatches DEF M!Tables
  <1>19. M!Tables["character_reference"] = TableAt(13, "character_reference")
    BY CharacterReferenceMatches DEF M!Tables
  <1>20. M!Tables["publishing_package"] = TableAt(13, "publishing_package")
    BY PublishingPackageMatches DEF M!Tables
  <1>21. ASSUME NEW t \in NamesAt(13) PROVE M!Tables[t] = TableAt(13, t)
    <2>1. t \in DOMAIN First
      BY DEF NamesAt, CoreTables, BrandingTables, First
    <2>2. CASE t = "outbox_event"
      BY <2>2, <1>2
    <2>3. CASE t = "workspace"
      BY <2>3, <1>3
    <2>4. CASE t = "app_user"
      BY <2>4, <1>4
    <2>5. CASE t = "series"
      BY <2>5, <1>5
    <2>6. CASE t = "audit_event"
      BY <2>6, <1>6
    <2>7. CASE t = "video_project"
      BY <2>7, <1>7
    <2>8. CASE t = "artifact"
      BY <2>8, <1>8
    <2>9. CASE t = "generation_job"
      BY <2>9, <1>9
    <2>10. CASE t = "artifact_version"
      BY <2>10, <1>10
    <2>11. CASE t = "provider_usage"
      BY <2>11, <1>11
    <2>12. CASE t = "state_transition"
      BY <2>12, <1>12
    <2>13. CASE t = "comment"
      BY <2>13, <1>13
    <2>14. CASE t = "review_decision"
      BY <2>14, <1>14
    <2>15. CASE t = "scene_set"
      BY <2>15, <1>15
    <2>16. CASE t = "scene"
      BY <2>16, <1>16
    <2>17. CASE t = "series_character"
      BY <2>17, <1>17
    <2>18. CASE t = "series_style"
      BY <2>18, <1>18
    <2>19. CASE t = "character_reference"
      BY <2>19, <1>19
    <2>20. CASE t = "publishing_package"
      BY <2>20, <1>20
    <2> QED
      BY <2>1, <2>2, <2>3, <2>4, <2>5, <2>6, <2>7, <2>8, <2>9, <2>10, <2>11, <2>12, <2>13, <2>14,
            <2>15, <2>16, <2>17, <2>18, <2>19, <2>20 DEF First
  <1> QED BY <1>1, <1>21

(* The append-only tables and the enum types of the head.                  *)
LEMMA TriggersMatch == M!IMMUTABLE_TABLES = GuardedAt(13)
  BY DEF GuardedAt, _IMMUTABLE_TABLES, _NEW_IMMUTABLE_TABLES, M!IMMUTABLE_TABLES

LEMMA TypesMatch ==
    /\ DOMAIN M!EnumTypes = TypesAt(13)
    /\ \A t \in TypesAt(13) : M!EnumTypes[t] = LabelsAt(13, t)
  <1>1. DOMAIN M!EnumTypes = TypesAt(13)
    BY DEF TypesAt, M!EnumTypes, _ENUM_TYPES
  <1>2. M!EnumTypes["user_role"] = LabelsAt(13, "user_role")
    BY DEF M!EnumTypes, M!UserRole, LabelsAt, _ENUM_TYPES, _NEW_SUBJECT_TYPES, _NEW_KINDS,
           _BRANDING_STATUS_LABELS
  <1>3. M!EnumTypes["project_phase"] = LabelsAt(13, "project_phase")
    BY DEF M!EnumTypes, M!ProjectPhase, LabelsAt, _ENUM_TYPES, _NEW_SUBJECT_TYPES, _NEW_KINDS,
           _BRANDING_STATUS_LABELS
  <1>4. M!EnumTypes["artifact_kind"] = LabelsAt(13, "artifact_kind")
    BY DEF M!EnumTypes, M!ArtifactKind, LabelsAt, _ENUM_TYPES, _NEW_SUBJECT_TYPES, _NEW_KINDS,
           _BRANDING_STATUS_LABELS
  <1>5. M!EnumTypes["artifact_state"] = LabelsAt(13, "artifact_state")
    BY DEF M!EnumTypes, M!ArtifactState, LabelsAt, _ENUM_TYPES, _NEW_SUBJECT_TYPES, _NEW_KINDS,
           _BRANDING_STATUS_LABELS
  <1>6. M!EnumTypes["version_origin"] = LabelsAt(13, "version_origin")
    BY DEF M!EnumTypes, M!VersionOrigin, LabelsAt, _ENUM_TYPES, _NEW_SUBJECT_TYPES, _NEW_KINDS,
           _BRANDING_STATUS_LABELS
  <1>7. M!EnumTypes["job_status"] = LabelsAt(13, "job_status")
    BY DEF M!EnumTypes, M!JobStatus, LabelsAt, _ENUM_TYPES, _NEW_SUBJECT_TYPES, _NEW_KINDS,
           _BRANDING_STATUS_LABELS
  <1>8. M!EnumTypes["review_decision_kind"] = LabelsAt(13, "review_decision_kind")
    BY DEF M!EnumTypes, M!ReviewDecisionKind, LabelsAt, _ENUM_TYPES, _NEW_SUBJECT_TYPES, _NEW_KINDS,
           _BRANDING_STATUS_LABELS
  <1>9. M!EnumTypes["subject_type"] = LabelsAt(13, "subject_type")
    BY DEF M!EnumTypes, M!SubjectType, LabelsAt, _ENUM_TYPES, _NEW_SUBJECT_TYPES, _NEW_KINDS,
           _BRANDING_STATUS_LABELS
  <1>10. M!EnumTypes["transition_cause"] = LabelsAt(13, "transition_cause")
    BY DEF M!EnumTypes, M!TransitionCause, LabelsAt, _ENUM_TYPES, _NEW_SUBJECT_TYPES, _NEW_KINDS,
           _BRANDING_STATUS_LABELS
  <1>11. M!EnumTypes["branding_status"] = LabelsAt(13, "branding_status")
    BY DEF M!EnumTypes, M!BrandingStatus, LabelsAt, _ENUM_TYPES, _NEW_SUBJECT_TYPES, _NEW_KINDS,
           _BRANDING_STATUS_LABELS
  <1>12. M!EnumTypes["scene_kind"] = LabelsAt(13, "scene_kind")
    BY DEF M!EnumTypes, M!SceneKind, LabelsAt, _ENUM_TYPES, _NEW_SUBJECT_TYPES, _NEW_KINDS,
           _BRANDING_STATUS_LABELS
  <1>13. ASSUME NEW t \in TypesAt(13) PROVE M!EnumTypes[t] = LabelsAt(13, t)
    <2>1. t \in {"user_role", "project_phase", "artifact_kind", "artifact_state", "version_origin",
          "job_status", "review_decision_kind", "subject_type", "transition_cause",
          "branding_status", "scene_kind"}
      BY DEF TypesAt, _ENUM_TYPES
    <2>2. CASE t = "user_role"
      BY <2>2, <1>2
    <2>3. CASE t = "project_phase"
      BY <2>3, <1>3
    <2>4. CASE t = "artifact_kind"
      BY <2>4, <1>4
    <2>5. CASE t = "artifact_state"
      BY <2>5, <1>5
    <2>6. CASE t = "version_origin"
      BY <2>6, <1>6
    <2>7. CASE t = "job_status"
      BY <2>7, <1>7
    <2>8. CASE t = "review_decision_kind"
      BY <2>8, <1>8
    <2>9. CASE t = "subject_type"
      BY <2>9, <1>9
    <2>10. CASE t = "transition_cause"
      BY <2>10, <1>10
    <2>11. CASE t = "branding_status"
      BY <2>11, <1>11
    <2>12. CASE t = "scene_kind"
      BY <2>12, <1>12
    <2> QED
      BY <2>1, <2>2, <2>3, <2>4, <2>5, <2>6, <2>7, <2>8, <2>9, <2>10, <2>11, <2>12
  <1> QED BY <1>1, <1>13


(* A catalogue with the tables and types of the head is the one of the     *)
(* models; one with those of any revision is the one the chain builds      *)
(* there.                                                                  *)
LEMMA HeadIsTheModels ==
    ASSUME NEW c, NEW types, IsAt(c, 13, types), IsTyped(types, 13)
    PROVE  c.table = M!Tables /\ c.trigger = M!IMMUTABLE_TABLES /\ c.type = M!EnumTypes
  <1>1. c.table = M!Tables
    <2> DEFINE tables == M!Tables
    <2>1. tables = [t \in DOMAIN tables |-> tables[t]]
      BY DEF M!Tables
    <2>2. DOMAIN tables = NamesAt(13) /\ \A t \in NamesAt(13) : tables[t] = TableAt(13, t)
      BY TablesMatch
    <2> HIDE DEF tables
    <2>3. c.table = tables
      BY <2>1, <2>2 DEF IsAt, IsCatalog
    <2> QED BY <2>3 DEF tables
  <1>2. c.type = M!EnumTypes
    <2> DEFINE enums == M!EnumTypes
    <2>1. enums = [t \in DOMAIN enums |-> enums[t]]
      BY DEF M!EnumTypes
    <2>2. DOMAIN enums = TypesAt(13) /\ \A t \in TypesAt(13) : enums[t] = LabelsAt(13, t)
      BY TypesMatch
    <2>3. types = [t \in DOMAIN types |-> types[t]] /\ c.type = types
      BY DEF IsAt, IsCatalog
    <2>4. DOMAIN types = TypesAt(13) /\ \A t \in TypesAt(13) : types[t] = LabelsAt(13, t)
      BY DEF IsTyped
    <2> HIDE DEF enums
    <2>5. c.type = enums
      BY <2>1, <2>2, <2>3, <2>4
    <2> QED BY <2>5 DEF enums
  <1> QED BY <1>1, <1>2, TriggersMatch DEF IsAt

LEMMA AsBuilt ==
    ASSUME NEW n \in 0 .. 13, NEW c, NEW types, IsAt(c, n, types), IsTyped(types, n)
    PROVE  /\ c.table = Built[n].table
           /\ c.trigger = Built[n].trigger
           /\ c.view = Built[n].view
           /\ DOMAIN c.type = DOMAIN Built[n].type
           /\ \A t \in DOMAIN Built[n].type : Built[n].type[t] \subseteq c.type[t]
  <1> DEFINE b == Built[n]
  <1>1. IsAt(b, n, b.type) /\ IsPlain(b.type, n)
    BY AllBuilt DEF IsBuilt
  <1> HIDE DEF b
  <1>2. c.table = b.table
    BY <1>1 DEF IsAt, IsCatalog
  <1>3. c.trigger = b.trigger /\ c.view = b.view /\ c.type = types
    BY <1>1 DEF IsAt
  <1>4. DOMAIN types = DOMAIN b.type /\ \A t \in DOMAIN b.type : b.type[t] \subseteq types[t]
    BY <1>1 DEF IsPlain, IsTyped
  <1>5. /\ c.table = b.table
        /\ c.trigger = b.trigger
        /\ c.view = b.view
        /\ DOMAIN c.type = DOMAIN b.type
        /\ \A t \in DOMAIN b.type : b.type[t] \subseteq c.type[t]
    BY <1>2, <1>3, <1>4
  <1> QED BY <1>5 DEF b

(* What holds of every foreign key of every revision: it cascades from an  *)
(* owner or lets go of its column, and from revision 2 on only the series  *)
(* of an episode and the author of a comment are let go of.                *)
LetGo(t, column) ==
    \/ t = "video_project" /\ column = "series_id"
    \/ t = "comment" /\ column = "author_id"

Lawful(n, t, f) ==
    /\ f.action \in {"CASCADE", "SET_NULL"}
    /\ f.action = "CASCADE" => f.column \in Owning[t]
    /\ n >= 2 /\ f.action = "SET_NULL" => LetGo(t, f.column)

(* Each foreign key of each revision, one table at a time.                 *)
LEMMA FksAreLawful ==
    ASSUME NEW n \in 0 .. 13, NEW t \in NamesAt(n), NEW f \in FksAt(n, t)
    PROVE  Lawful(n, t, f)
  <1>0. t \in DOMAIN First
    BY DEF NamesAt, CoreTables, BrandingTables, First
  <1>1. CASE t = "outbox_event"
    BY <1>1 DEF FksAt, First, outbox_event, Table, Fk, Lawful, Owning, LetGo
  <1>2. CASE t = "workspace"
    BY <1>2 DEF FksAt, First, workspace, Table, Fk, Lawful, Owning, LetGo
  <1>3. CASE t = "app_user"
    BY <1>3 DEF FksAt, First, app_user, Table, Fk, Lawful, Owning, LetGo
  <1>4. CASE t = "series"
    BY <1>4 DEF FksAt, First, series, Table, Fk, Lawful, Owning, LetGo
  <1>5. CASE t = "audit_event"
    BY <1>5 DEF FksAt, First, audit_event, Table, Fk, Lawful, Owning, LetGo
  <1>6. CASE t = "video_project"
    BY <1>6 DEF FksAt, First, video_project, Table, Fk, Lawful, Owning, LetGo
  <1>7. CASE t = "artifact"
    BY <1>7 DEF FksAt, First, artifact, Table, Fk, Lawful, Owning, LetGo
  <1>8. CASE t = "generation_job"
    BY <1>8 DEF FksAt, First, generation_job, Table, Fk, Lawful, Owning, LetGo
  <1>9. CASE t = "artifact_version"
    BY <1>9 DEF FksAt, First, artifact_version, Table, Fk, Lawful, Owning, LetGo
  <1>10. CASE t = "provider_usage"
    BY <1>10 DEF FksAt, First, provider_usage, Table, Fk, Lawful, Owning, LetGo
  <1>11. CASE t = "state_transition"
    BY <1>11 DEF FksAt, First, state_transition, Table, Fk, Lawful, Owning, LetGo
  <1>12. CASE t = "comment"
    BY <1>12 DEF FksAt, First, comment, Table, Fk, Lawful, Owning, LetGo
  <1>13. CASE t = "review_decision"
    BY <1>13 DEF FksAt, First, review_decision, Table, Fk, Lawful, Owning, LetGo
  <1>14. CASE t = "scene_set"
    BY <1>14 DEF FksAt, First, scene_set, Table, Fk, Lawful, Owning, LetGo
  <1>15. CASE t = "scene"
    BY <1>15 DEF FksAt, First, scene, Table, Fk, Lawful, Owning, LetGo
  <1>16. CASE t = "series_character"
    BY <1>16 DEF FksAt, First, series_character, Table, Fk, Lawful, Owning, LetGo
  <1>17. CASE t = "series_style"
    BY <1>17 DEF FksAt, First, series_style, Table, Fk, Lawful, Owning, LetGo
  <1>18. CASE t = "character_reference"
    BY <1>18 DEF FksAt, First, character_reference, Table, Fk, Lawful, Owning, LetGo
  <1>19. CASE t = "publishing_package"
    BY <1>19 DEF FksAt, First, publishing_package, Table, Fk, Lawful, Owning, LetGo
  <1> QED
    BY <1>0, <1>1, <1>2, <1>3, <1>4, <1>5, <1>6, <1>7, <1>8, <1>9, <1>10, <1>11, <1>12, <1>13,
          <1>14, <1>15, <1>16, <1>17, <1>18, <1>19 DEF First


(* What is let go of stands in no append-only table, in no key, in no job, *)
(* and may be NULL.                                                        *)
LEMMA GuardedTables ==
    ASSUME NEW n \in 0 .. 13
    PROVE  /\ GuardedAt(n) \subseteq NamesAt(n)
           /\ "video_project" \notin GuardedAt(n) /\ "comment" \notin GuardedAt(n)
  BY DEF GuardedAt, NamesAt, CoreTables, _IMMUTABLE_TABLES, _NEW_IMMUTABLE_TABLES

LEMMA LetGoSafely ==
    ASSUME NEW n \in 0 .. 13, NEW t \in NamesAt(n), NEW column, LetGo(t, column)
    PROVE  /\ t \notin GuardedAt(n) /\ t # "generation_job"
           /\ column \in NullableAt(n, t)
           /\ \A u \in UniquesAt(n, t) : column \notin u.columns
  <1>1. CASE t = "video_project" /\ column = "series_id"
    <2>1. column \in NullableAt(n, t)
      BY <1>1 DEF NullableAt, First, video_project, Table
    <2>2. UniquesAt(n, t) = {}
      BY <1>1 DEF UniquesAt, First, video_project, Table
    <2> QED BY <1>1, <2>1, <2>2, GuardedTables
  <1>2. CASE t = "comment" /\ column = "author_id"
    <2>1. column \in NullableAt(n, t)
      BY <1>2 DEF NullableAt, First, comment, Table
    <2>2. UniquesAt(n, t) = {}
      BY <1>2 DEF UniquesAt, First, comment, Table
    <2> QED BY <1>2, <2>1, <2>2, GuardedTables
  <1> QED BY <1>1, <1>2 DEF LetGo

(* What every revision knows of jobs and artifacts.                        *)
LEMMA JobsAndArtifacts ==
    ASSUME NEW n \in 0 .. 13
    PROVE  /\ {"status", "error", "artifact_id", "project_id"}
                 \subseteq ColumnsAt(n, "generation_job")
           /\ {"state", "project_id"} \subseteq ColumnsAt(n, "artifact")
           /\ "project_id" \notin NullableAt(n, "artifact")
           /\ Fk("project_id", "video_project", "CASCADE") \in FksAt(n, "artifact")
           /\ Fk("artifact_id", "artifact", "CASCADE") \in FksAt(n, "generation_job")
           /\ \A f \in FksAt(n, "generation_job") :
                 f.column \in {"project_id", "artifact_id", "series_id"}
           /\ n >= 1 => "artifact" \in NamesAt(n) /\ "generation_job" \in NamesAt(n)
  <1>1. {"status", "error", "artifact_id", "project_id"} \subseteq ColumnsAt(n, "generation_job")
    BY DEF ColumnsAt, First, generation_job, Table
  <1>2. {"state", "project_id"} \subseteq ColumnsAt(n, "artifact")
    BY DEF ColumnsAt, First, artifact, Table
  <1>3. "project_id" \notin NullableAt(n, "artifact")
    BY DEF NullableAt, First, artifact, Table
  <1>4. Fk("project_id", "video_project", "CASCADE") \in FksAt(n, "artifact")
    BY DEF FksAt, First, artifact, Table
  <1>5. Fk("artifact_id", "artifact", "CASCADE") \in FksAt(n, "generation_job")
    BY DEF FksAt, First, generation_job, Table
  <1>6. \A f \in FksAt(n, "generation_job") :
           f.column \in {"project_id", "artifact_id", "series_id"}
    BY DEF FksAt, First, generation_job, Table, Fk
  <1>7. n >= 1 => "artifact" \in NamesAt(n) /\ "generation_job" \in NamesAt(n)
    BY DEF NamesAt, CoreTables
  <1> QED BY <1>1, <1>2, <1>3, <1>4, <1>5, <1>6, <1>7

(* Induction over an interval, from the well-foundedness of the naturals.  *)
LEMMA LeastNumber ==
    ASSUME NEW Numbers, Numbers \subseteq Nat, Numbers # {}
    PROVE  \E i \in Numbers : \A j \in Numbers : i <= j
  <1> DEFINE Less == {pair \in Nat \X Nat : pair[1] < pair[2]}
  <1>1. IsWellFoundedOn(Less, Nat)
    BY NatLessThanWellFounded, Zenon DEF OpToRel
  <1>2. \A j, i \in Nat : j < i => <<j, i>> \in Less
    OBVIOUS
  <1> HIDE DEF Less
  <1>3. PICK i \in Numbers : \A j \in Numbers : ~ (<<j, i>> \in Less)
    BY <1>1, WFMin, Zenon
  <1>4. ASSUME NEW j \in Numbers PROVE i <= j
    <2>1. i \in Nat /\ j \in Nat /\ ~(j < i)
      BY <1>2, <1>3
    <2> QED BY <2>1
  <1> QED BY <1>3, <1>4

(* What holds at 0 and is passed on holds up to n.                         *)
LEMMA UpTo ==
    ASSUME NEW n \in Nat, NEW Good, 0 \in Good,
           \A m \in 0 .. n : m \in Good /\ m < n => m + 1 \in Good
    PROVE  \A m \in 0 .. n : m \in Good
  <1> DEFINE Bad == {m \in 0 .. n : m \notin Good}
  <1> SUFFICES ASSUME Bad # {} PROVE FALSE
    OBVIOUS
  <1>1. PICK m \in Bad : \A l \in Bad : m <= l
    <2>1. Bad \subseteq Nat
      OBVIOUS
    <2> HIDE DEF Bad
    <2> QED BY <2>1, LeastNumber
  <1>2. m \in 0 .. n /\ m \notin Good /\ m # 0
    BY <1>1
  <1>3. m - 1 \in 0 .. n /\ m - 1 < n /\ ~(m <= m - 1) /\ (m - 1) + 1 = m
    BY <1>2
  <1>4. m - 1 \in Good
    BY <1>1, <1>3
  <1> QED BY <1>2, <1>3, <1>4

(* The rounds of a cascade.                                                *)
Falls(fall, held, r, n) ==
    fall = [m \in 0 .. n |-> IF m = 0 THEN {r} ELSE fall[m - 1] \cup held[fall[m - 1]]]

(* The recursion of a cascade has a solution.                              *)
LEMMA CascadeRuns ==
    ASSUME NEW D, NEW r \in D, NEW held \in [SUBSET D -> SUBSET D], NEW n \in Nat
    PROVE  \E fall \in [0 .. n -> SUBSET D] : Falls(fall, held, r, n)
  <1> DEFINE Good == {m \in Nat : \E fall \in [0 .. m -> SUBSET D] : Falls(fall, held, r, m)}
  <1>1. 0 \in Good
    <2> DEFINE fall == [m \in 0 .. 0 |-> {r}]
    <2>1. fall \in [0 .. 0 -> SUBSET D]
      OBVIOUS
    <2>2. fall = [m \in 0 .. 0 |-> IF m = 0 THEN {r} ELSE fall[m - 1] \cup held[fall[m - 1]]]
      OBVIOUS
    <2> HIDE DEF fall
    <2>3. Falls(fall, held, r, 0)
      BY <2>2 DEF Falls
    <2> QED BY <2>1, <2>3
  <1>2. ASSUME NEW m \in 0 .. n, m \in Good, m < n PROVE m + 1 \in Good
    <2>1. PICK fall \in [0 .. m -> SUBSET D] : Falls(fall, held, r, m)
      BY <1>2
    <2> DEFINE more == [l \in 0 .. m + 1 |->
                          IF l <= m THEN fall[l] ELSE fall[m] \cup held[fall[m]]]
    <2>2. m \in Nat /\ m \in 0 .. m /\ fall[m] \in SUBSET D /\ held[fall[m]] \in SUBSET D
      BY <2>1
    <2>3. ASSUME NEW l \in 0 .. m + 1
          PROVE  /\ more[l] \in SUBSET D
                 /\ more[l] = IF l = 0 THEN {r} ELSE more[l - 1] \cup held[more[l - 1]]
      <3>1. CASE l = m + 1
        <4>1. ~(l <= m) /\ l # 0 /\ l - 1 = m /\ m \in 0 .. m + 1
          BY <2>2, <3>1
        <4>2. more[l] = fall[m] \cup held[fall[m]] /\ more[m] = fall[m]
          BY <2>2, <4>1
        <4> HIDE DEF more
        <4> QED BY <2>2, <4>1, <4>2
      <3>2. CASE l # m + 1
        <4>1. l \in 0 .. m /\ l <= m
          BY <2>2, <3>2
        <4>2. fall[l] = IF l = 0 THEN {r} ELSE fall[l - 1] \cup held[fall[l - 1]]
          BY <2>1, <4>1 DEF Falls
        <4>3. more[l] = fall[l] /\ fall[l] \in SUBSET D
          BY <4>1
        <4>4. CASE l = 0
          BY <4>2, <4>3, <4>4
        <4>5. CASE l # 0
          <5>1. l - 1 \in 0 .. m + 1 /\ l - 1 <= m
            BY <2>2, <4>1, <4>5
          <5>2. more[l - 1] = fall[l - 1]
            BY <5>1
          <5> HIDE DEF more
          <5> QED BY <4>2, <4>3, <4>5, <5>2
        <4> QED BY <4>4, <4>5
      <3> QED BY <3>1, <3>2
    <2>4. more = [l \in 0 .. m + 1 |-> more[l]]
      OBVIOUS
    <2> HIDE DEF more
    <2>5. more = [l \in 0 .. m + 1 |->
                    IF l = 0 THEN {r} ELSE more[l - 1] \cup held[more[l - 1]]]
      BY <2>3, <2>4
    <2>6. more \in [0 .. m + 1 -> SUBSET D]
      BY <2>3, <2>4
    <2>7. Falls(more, held, r, m + 1)
      BY <2>5 DEF Falls
    <2> QED BY <2>2, <2>6, <2>7
  <1> HIDE DEF Good
  <1>3. \A m \in 0 .. n : m \in Good
    BY <1>1, <1>2, UpTo
  <1>4. n \in Good
    BY <1>3
  <1> QED BY <1>4 DEF Good

(* What a cascade arrives at: closed, and the least such set.              *)
Reaches(gone, D, held, r) ==
    /\ gone \in SUBSET D
    /\ r \in gone
    /\ held[gone] \subseteq gone
    /\ \A S \in SUBSET D : r \in S /\ held[S] \subseteq S => gone \subseteq S

(* After as many rounds as there are rows a cascade is over, and it has    *)
(* taken no more than it had to.                                           *)
LEMMA CascadeEnds ==
    ASSUME NEW D, IsFiniteSet(D), NEW r \in D, NEW held \in [SUBSET D -> SUBSET D],
           \A S, T \in SUBSET D : S \subseteq T => held[S] \subseteq held[T],
           NEW fall \in [0 .. Cardinality(D) -> SUBSET D],
           Falls(fall, held, r, Cardinality(D))
    PROVE  Reaches(fall[Cardinality(D)], D, held, r)
  <1> DEFINE K == Cardinality(D)
  <1>0. K \in Nat
    BY FS_CardinalityType
  <1> HIDE DEF K
  <1>1. /\ fall \in [0 .. K -> SUBSET D]
        /\ \A m \in 0 .. K : fall[m] =
              IF m = 0 THEN {r} ELSE fall[m - 1] \cup held[fall[m - 1]]
    BY DEF Falls, K
  <1>2. ASSUME NEW m \in 0 .. K, m < K
        PROVE  /\ fall[m] \in SUBSET D /\ m + 1 \in 0 .. K
               /\ fall[m + 1] = fall[m] \cup held[fall[m]] /\ fall[m + 1] \in SUBSET D
    <2>1. m + 1 \in 0 .. K /\ m + 1 # 0 /\ (m + 1) - 1 = m
      BY <1>0, <1>2
    <2> QED BY <1>1, <2>1
  <1>3. fall[0] = {r} /\ 0 \in 0 .. K /\ K \in 0 .. K
    <2>1. 0 \in 0 .. K /\ K \in 0 .. K
      BY <1>0
    <2> QED BY <1>1, <2>1
  <1>4. \A m \in 0 .. K : r \in fall[m]
    <2> DEFINE Good == {m \in 0 .. K : r \in fall[m]}
    <2>1. 0 \in Good
      BY <1>3
    <2>2. ASSUME NEW m \in 0 .. K, m \in Good, m < K PROVE m + 1 \in Good
      BY <1>2, <2>2
    <2> HIDE DEF Good
    <2>3. \A m \in 0 .. K : m \in Good
      BY <1>0, <2>1, <2>2, UpTo
    <2> QED BY <2>3 DEF Good
  <1>5. ASSUME NEW S \in SUBSET D, r \in S, held[S] \subseteq S
        PROVE  \A m \in 0 .. K : fall[m] \subseteq S
    <2> DEFINE Good == {m \in 0 .. K : fall[m] \subseteq S}
    <2>1. 0 \in Good
      BY <1>3, <1>5
    <2>2. ASSUME NEW m \in 0 .. K, m \in Good, m < K PROVE m + 1 \in Good
      <3>1. fall[m] \in SUBSET D /\ fall[m] \subseteq S /\ m + 1 \in 0 .. K
            /\ fall[m + 1] = fall[m] \cup held[fall[m]]
        BY <1>2, <2>2
      <3>2. held[fall[m]] \subseteq held[S]
        BY <3>1
      <3> QED BY <1>5, <3>1, <3>2
    <2> HIDE DEF Good
    <2>3. \A m \in 0 .. K : m \in Good
      BY <1>0, <2>1, <2>2, UpTo
    <2> QED BY <2>3 DEF Good
  <1>6. \A m \in 0 .. K : held[fall[m]] \subseteq fall[m] \/ Cardinality(fall[m]) >= m + 1
    <2> DEFINE Good == {m \in 0 .. K :
                          held[fall[m]] \subseteq fall[m] \/ Cardinality(fall[m]) >= m + 1}
    <2>1. 0 \in Good
      <3>1. Cardinality({r}) = 1
        BY FS_Singleton
      <3>2. Cardinality(fall[0]) >= 0 + 1
        BY <1>3, <3>1
      <3> QED BY <1>3, <3>2
    <2>2. ASSUME NEW m \in 0 .. K, m \in Good, m < K PROVE m + 1 \in Good
      <3>0. /\ fall[m] \in SUBSET D /\ m + 1 \in 0 .. K
            /\ fall[m + 1] = fall[m] \cup held[fall[m]] /\ fall[m + 1] \in SUBSET D
        BY <1>2, <2>2
      <3>1. CASE held[fall[m]] \subseteq fall[m]
        <4>1. fall[m + 1] = fall[m]
          BY <3>0, <3>1
        <4> QED BY <3>0, <3>1, <4>1
      <3>2. CASE ~(held[fall[m]] \subseteq fall[m])
        <4>1. fall[m] # fall[m + 1] /\ fall[m] \in SUBSET fall[m + 1]
          BY <3>0, <3>2
        <4>2. IsFiniteSet(fall[m + 1])
          BY <3>0, FS_Subset
        <4>3. /\ Cardinality(fall[m]) <= Cardinality(fall[m + 1])
              /\ Cardinality(fall[m]) # Cardinality(fall[m + 1])
          BY <4>1, <4>2, FS_Subset
        <4>4. IsFiniteSet(fall[m])
          BY <4>1, <4>2, FS_Subset
        <4>5. Cardinality(fall[m]) \in Nat /\ Cardinality(fall[m + 1]) \in Nat
          BY <4>2, <4>4, FS_CardinalityType
        <4>6. Cardinality(fall[m]) >= m + 1
          BY <2>2, <3>2
        <4>7. Cardinality(fall[m + 1]) >= (m + 1) + 1
          BY <4>3, <4>5, <4>6
        <4> QED BY <3>0, <4>7
      <3> QED BY <3>1, <3>2
    <2> HIDE DEF Good
    <2>3. \A m \in 0 .. K : m \in Good
      BY <1>0, <2>1, <2>2, UpTo
    <2> QED BY <2>3 DEF Good
  <1>7. fall[K] \in SUBSET D
    BY <1>1, <1>3
  <1>8. held[fall[K]] \subseteq fall[K]
    <2> SUFFICES ASSUME Cardinality(fall[K]) >= K + 1 PROVE FALSE
      BY <1>3, <1>6
    <2>1. IsFiniteSet(fall[K]) /\ Cardinality(fall[K]) <= K
      BY <1>7, FS_Subset DEF K
    <2>2. Cardinality(fall[K]) \in Nat
      BY <2>1, FS_CardinalityType
    <2> QED BY <1>0, <2>1, <2>2
  <1>9. r \in fall[K]
    BY <1>3, <1>4
  <1>10. \A S \in SUBSET D : r \in S /\ held[S] \subseteq S => fall[K] \subseteq S
    BY <1>3, <1>5
  <1>11. Reaches(fall[K], D, held, r)
    BY <1>7, <1>8, <1>9, <1>10 DEF Reaches
  <1> QED BY <1>11 DEF K

(* The rows a delete of r takes: r, all that is held by one of them, and   *)
(* no more than that takes.                                                *)
Swept(gone, r) ==
    /\ gone \in SUBSET DOMAIN row
    /\ r \in gone
    /\ RowsHeldBy(gone, "CASCADE") \subseteq gone
    /\ \A S \in SUBSET DOMAIN row :
          r \in S /\ RowsHeldBy(S, "CASCADE") \subseteq S => gone \subseteq S

(* More rows hold more rows.                                               *)
LEMMA HeldByMore ==
    ASSUME NEW S, NEW T, S \subseteq T
    PROVE  RowsHeldBy(S, "CASCADE") \subseteq RowsHeldBy(T, "CASCADE")
  BY DEF RowsHeldBy

FallsHere(fall, r) ==
    fall = [n \in 0 .. Cardinality(DOMAIN row) |->
               IF n = 0 THEN {r}
               ELSE LET gone == fall[n - 1] IN gone \cup RowsHeldBy(gone, "CASCADE")]

(* Doomed(r) is the closure it stands for: everything a row of it holds,   *)
(* and nothing else.                                                       *)
LEMMA DoomedAreSwept ==
    ASSUME IsFiniteSet(DOMAIN row), NEW r \in DOMAIN row
    PROVE  Swept(Doomed(r), r)
  <1>1. PICK D : D = DOMAIN row
    OBVIOUS
  <1>2. PICK held : held = [S \in SUBSET D |-> RowsHeldBy(S, "CASCADE")]
    OBVIOUS
  <1>3. ASSUME NEW S \in SUBSET D
        PROVE  held[S] = RowsHeldBy(S, "CASCADE") /\ held[S] \in SUBSET D
    BY <1>1, <1>2 DEF RowsHeldBy
  <1>4. held \in [SUBSET D -> SUBSET D]
    BY <1>2, <1>3
  <1>5. \A S, T \in SUBSET D : S \subseteq T => held[S] \subseteq held[T]
    BY <1>3, HeldByMore
  <1>6. PICK K : K = Cardinality(D)
    OBVIOUS
  <1>7. K \in Nat /\ r \in D /\ IsFiniteSet(D)
    BY <1>1, <1>6, FS_CardinalityType
  <1>8. PICK fall \in [0 .. K -> SUBSET D] : Falls(fall, held, r, K)
    BY <1>4, <1>7, CascadeRuns
  <1>9. FallsHere(fall, r)
    <2>1. ASSUME NEW m \in 0 .. K
          PROVE  fall[m] = IF m = 0 THEN {r}
                           ELSE fall[m - 1] \cup RowsHeldBy(fall[m - 1], "CASCADE")
      <3>1. fall[m] = IF m = 0 THEN {r} ELSE fall[m - 1] \cup held[fall[m - 1]]
        BY <1>8 DEF Falls
      <3>2. m # 0 => m - 1 \in 0 .. K
        BY <1>7
      <3>3. m # 0 => fall[m - 1] \in SUBSET D
        BY <1>8, <3>2
      <3> QED BY <1>3, <3>1, <3>3
    <2>2. fall = [m \in 0 .. K |-> fall[m]]
      BY <1>8
    <2>3. fall = [m \in 0 .. K |->
                    IF m = 0 THEN {r}
                    ELSE fall[m - 1] \cup RowsHeldBy(fall[m - 1], "CASCADE")]
      BY <2>1, <2>2
    <2> QED BY <1>1, <1>6, <2>3 DEF FallsHere
  <1> DEFINE it == CHOOSE f : FallsHere(f, r)
  <1>10. FallsHere(it, r)
    BY <1>9, Zenon
  <1>11. Doomed(r) = it[Cardinality(DOMAIN row)]
    BY DEF Doomed, FallsHere
  <1> HIDE DEF it
  <1>12. PICK f : FallsHere(f, r) /\ Doomed(r) = f[K]
    BY <1>1, <1>6, <1>10, <1>11
  <1>13. /\ f = [m \in 0 .. K |-> f[m]]
         /\ \A m \in 0 .. K : f[m] =
               IF m = 0 THEN {r} ELSE f[m - 1] \cup RowsHeldBy(f[m - 1], "CASCADE")
    BY <1>1, <1>6, <1>12 DEF FallsHere
  <1>14. \A m \in 0 .. K : f[m] \in SUBSET D
    <2> DEFINE Good == {m \in 0 .. K : f[m] \in SUBSET D}
    <2>1. 0 \in Good
      <3>1. 0 \in 0 .. K
        BY <1>7
      <3> QED BY <1>7, <1>13, <3>1
    <2>2. ASSUME NEW m \in 0 .. K, m \in Good, m < K PROVE m + 1 \in Good
      <3>1. m + 1 \in 0 .. K /\ m + 1 # 0 /\ (m + 1) - 1 = m
        BY <1>7, <2>2
      <3>2. f[m + 1] = f[m] \cup RowsHeldBy(f[m], "CASCADE")
        BY <1>13, <3>1
      <3>3. f[m] \in SUBSET D
        BY <2>2
      <3>4. RowsHeldBy(f[m], "CASCADE") \in SUBSET D
        BY <1>3, <3>3
      <3> QED BY <3>1, <3>2, <3>3, <3>4
    <2> HIDE DEF Good
    <2>3. \A m \in 0 .. K : m \in Good
      BY <1>7, <2>1, <2>2, UpTo
    <2> QED BY <2>3 DEF Good
  <1>15. f \in [0 .. K -> SUBSET D]
    BY <1>13, <1>14
  <1>16. Falls(f, held, r, K)
    <2>1. ASSUME NEW m \in 0 .. K
          PROVE  f[m] = IF m = 0 THEN {r} ELSE f[m - 1] \cup held[f[m - 1]]
      <3>1. m # 0 => m - 1 \in 0 .. K
        BY <1>7
      <3>2. m # 0 => f[m - 1] \in SUBSET D
        BY <1>14, <3>1
      <3> QED BY <1>3, <1>13, <3>2
    <2>2. f = [m \in 0 .. K |-> IF m = 0 THEN {r} ELSE f[m - 1] \cup held[f[m - 1]]]
      BY <1>13, <2>1
    <2> QED BY <2>2 DEF Falls
  <1>17. Reaches(f[K], D, held, r)
    BY <1>4, <1>5, <1>6, <1>7, <1>15, <1>16, CascadeEnds
  <1>18. PICK gone : gone = f[K]
    OBVIOUS
  <1>19. /\ gone \in SUBSET D /\ r \in gone /\ held[gone] \subseteq gone
         /\ \A S \in SUBSET D : r \in S /\ held[S] \subseteq S => gone \subseteq S
    BY <1>17, <1>18 DEF Reaches
  <1>20. Swept(gone, r)
    BY <1>1, <1>3, <1>19 DEF Swept
  <1> QED BY <1>12, <1>18, <1>20

(* A row as it is now: the ids it was written with, or fewer; a job that   *)
(* waits or has failed, an artifact in some state.                         *)
IsEntry(entry, x) ==
    /\ entry = [refs |-> entry.refs, vals |-> entry.vals]
    /\ DOMAIN entry.refs \subseteq DOMAIN Rows[x].refs
    /\ \A column \in DOMAIN entry.refs : entry.refs[column] = Rows[x].refs[column]
    /\ Home(x) = "generation_job" =>
          "status" \in DOMAIN entry.vals /\ entry.vals.status \in {"QUEUED", "FAILED"}
    /\ Home(x) = "artifact" => "state" \in DOMAIN entry.vals

(* The rows a database has at revision n.                                  *)
WrittenAt(n, rows) ==
    /\ DOMAIN rows \subseteq DOMAIN Rows
    /\ \A x \in DOMAIN rows : Home(x) \in NamesAt(n) /\ IsEntry(rows[x], x)

(* What revision 6 establishes, and the program keeps true from then on.   *)
NoneParked(rows) == \A j \in Of("generation_job", rows) : ~Parked(rows, j)

NoneStranded(rows) ==
    \A a \in Of("artifact", rows) :
        rows[a].vals.state = "GENERATING" /\ JobsOf(rows, a) # {} =>
            \E j \in JobsOf(rows, a) : rows[j].vals.status = "QUEUED" /\ ~Parked(rows, j)

(* d is the entry e with another value in one column.                      *)
Revalued(d, e, column, to) ==
    /\ d = [refs |-> d.refs, vals |-> d.vals]
    /\ d.refs = e.refs
    /\ DOMAIN d.vals = DOMAIN e.vals
    /\ \A y \in DOMAIN e.vals : d.vals[y] = IF y = column THEN to ELSE e.vals[y]

(* An UPDATE of a value leaves the row's references alone.                 *)
LEMMA Revaluing ==
    ASSUME NEW e, e = [refs |-> e.refs, vals |-> e.vals], NEW column, NEW to
    PROVE  Revalued([e EXCEPT !.vals[column] = to], e, column, to)
  <1>1. DOMAIN e = {"refs", "vals"}
    OBVIOUS
  <1> DEFINE d == [e EXCEPT !.vals[column] = to]
  <1>2. d.refs = e.refs /\ d.vals = [e.vals EXCEPT ![column] = to]
    BY <1>1
  <1>3. d = [refs |-> d.refs, vals |-> d.vals]
    BY <1>1
  <1>4. DOMAIN d.vals = DOMAIN e.vals
    BY <1>2
  <1>5. \A y \in DOMAIN e.vals : d.vals[y] = IF y = column THEN to ELSE e.vals[y]
    BY <1>2
  <1> HIDE DEF d
  <1>6. Revalued(d, e, column, to)
    BY <1>2, <1>3, <1>4, <1>5 DEF Revalued
  <1> QED BY <1>6 DEF d

LEMMA RevaluedIsEntry ==
    ASSUME NEW x, NEW e, IsEntry(e, x), NEW column, NEW to, NEW d, Revalued(d, e, column, to),
           Home(x) = "generation_job" /\ column = "status" => to \in {"QUEUED", "FAILED"}
    PROVE  IsEntry(d, x)
  BY DEF IsEntry, Revalued

(* Rows with the same references have the same jobs.                       *)
SameRefs(rows, others) ==
    /\ DOMAIN rows = DOMAIN others
    /\ \A x \in DOMAIN rows : rows[x].refs = others[x].refs

LEMMA SameJobs ==
    ASSUME NEW rows, NEW others, SameRefs(rows, others), NEW a
    PROVE  JobsOf(rows, a) = JobsOf(others, a)
  BY DEF SameRefs, JobsOf, Of

(* The data migration of revision 6.                                       *)
Released(rows) ==
    [r \in DOMAIN rows |->
        IF Home(r) = "generation_job" /\ Parked(rows, r)
        THEN [rows[r] EXCEPT !.vals.status = "FAILED"] ELSE rows[r]]

StrandedIn(rows, a) ==
    /\ rows[a].vals.state = "GENERATING"
    /\ \E j \in JobsOf(Released(rows), a) : Released(rows)[j].vals.status \in Dead
    /\ \A j \in JobsOf(Released(rows), a) :
          Released(rows)[j].vals.status \notin {"QUEUED", "RUNNING"}

LEMMA RepairedIs ==
    ASSUME NEW rows
    PROVE  Repaired(rows) =
             [r \in DOMAIN rows |->
                 IF Home(r) = "artifact" /\ StrandedIn(rows, r)
                 THEN [Released(rows)[r] EXCEPT !.vals.state = "FAILED"]
                 ELSE Released(rows)[r]]
  BY Zenon DEF Repaired, Released, StrandedIn

(* 82d7b9b94a67 leaves no job parked and no artifact stranded: with the    *)
(* jobs released, an artifact whose jobs are all dead is FAILED, and any   *)
(* other has one QUEUED.                                                   *)
LEMMA RepairedRows ==
    ASSUME NEW n, NEW rows, WrittenAt(n, rows)
    PROVE  /\ WrittenAt(n, Repaired(rows))
           /\ DOMAIN Repaired(rows) = DOMAIN rows
           /\ NoneParked(Repaired(rows))
           /\ NoneStranded(Repaired(rows))
  <1> DEFINE after == Released(rows)
             end == Repaired(rows)
  <1>1. DOMAIN after = DOMAIN rows /\ DOMAIN end = DOMAIN rows
    BY RepairedIs DEF Released
  <1>2. ASSUME NEW x \in DOMAIN rows
        PROVE  /\ IsEntry(after[x], x) /\ after[x].refs = rows[x].refs
               /\ Home(x) # "generation_job" => after[x] = rows[x]
               /\ Home(x) = "generation_job" =>
                     /\ "status" \in DOMAIN after[x].vals
                     /\ after[x].vals.status \in {"QUEUED", "FAILED"}
                     /\ after[x].vals.status = "QUEUED" => "error" \notin DOMAIN after[x].vals
    <2>0. IsEntry(rows[x], x) /\ rows[x] = [refs |-> rows[x].refs, vals |-> rows[x].vals]
      BY DEF WrittenAt, IsEntry
    <2>1. CASE Home(x) = "generation_job" /\ Parked(rows, x)
      <3>1. after[x] = [rows[x] EXCEPT !.vals["status"] = "FAILED"]
        BY <2>1 DEF Released
      <3>2. Revalued(after[x], rows[x], "status", "FAILED")
        BY <2>0, <3>1, Revaluing
      <3>3. IsEntry(after[x], x)
        BY <2>0, <3>2, RevaluedIsEntry
      <3>4. "status" \in DOMAIN rows[x].vals
        BY <2>0, <2>1 DEF IsEntry
      <3> HIDE DEF after
      <3>5. after[x].vals.status = "FAILED"
        BY <3>2, <3>4 DEF Revalued
      <3> QED BY <2>1, <3>2, <3>3, <3>4, <3>5 DEF Revalued
    <2>2. CASE ~(Home(x) = "generation_job" /\ Parked(rows, x))
      <3>1. after[x] = rows[x]
        BY <2>2 DEF Released
      <3> HIDE DEF after
      <3> QED BY <2>0, <2>2, <3>1 DEF IsEntry, Parked
    <2> QED BY <2>1, <2>2
  <1> HIDE DEF after
  <1>3. ASSUME NEW x \in DOMAIN rows
        PROVE  /\ IsEntry(end[x], x) /\ end[x].refs = rows[x].refs
               /\ Home(x) # "artifact" => end[x] = after[x]
               /\ Home(x) = "artifact" /\ end[x].vals.state = "GENERATING" =>
                     ~StrandedIn(rows, x) /\ rows[x].vals.state = "GENERATING"
    <2>0. IsEntry(after[x], x) /\ after[x] = [refs |-> after[x].refs, vals |-> after[x].vals]
      BY <1>2 DEF IsEntry
    <2>1. CASE Home(x) = "artifact" /\ StrandedIn(rows, x)
      <3>1. end[x] = [after[x] EXCEPT !.vals["state"] = "FAILED"]
        BY <2>1, RepairedIs DEF after
      <3> HIDE DEF end
      <3>2. Revalued(end[x], after[x], "state", "FAILED")
        BY <2>0, <3>1, Revaluing
      <3>3. IsEntry(end[x], x)
        BY <2>0, <2>1, <3>2, RevaluedIsEntry
      <3>4. "state" \in DOMAIN after[x].vals
        BY <2>0, <2>1 DEF IsEntry
      <3>5. end[x].vals.state = "FAILED"
        BY <3>2, <3>4 DEF Revalued
      <3> QED BY <1>2, <2>1, <3>2, <3>3, <3>5 DEF Revalued
    <2>2. CASE ~(Home(x) = "artifact" /\ StrandedIn(rows, x))
      <3>1. end[x] = after[x]
        BY <2>2, RepairedIs DEF after
      <3> HIDE DEF end
      <3> QED BY <1>2, <2>0, <2>2, <3>1
    <2> QED BY <2>1, <2>2
  <1> HIDE DEF end
  <1>4. WrittenAt(n, end)
    BY <1>1, <1>3 DEF WrittenAt
  <1>5. NoneParked(end)
    BY <1>1, <1>2, <1>3 DEF NoneParked, Parked, Of
  <1>6. NoneStranded(end)
    <2> SUFFICES ASSUME NEW a \in Of("artifact", end), end[a].vals.state = "GENERATING",
                        JobsOf(end, a) # {}
                 PROVE  \E j \in JobsOf(end, a) :
                            end[j].vals.status = "QUEUED" /\ ~Parked(end, j)
      BY DEF NoneStranded
    <2>1. a \in DOMAIN rows /\ Home(a) = "artifact"
      BY <1>1 DEF Of
    <2>2. ~StrandedIn(rows, a) /\ rows[a].vals.state = "GENERATING"
      BY <1>3, <2>1
    <2>3. JobsOf(end, a) = JobsOf(after, a)
      <3>1. SameRefs(end, after)
        BY <1>1, <1>2, <1>3 DEF SameRefs
      <3> QED BY <3>1, SameJobs
    <2>4. ASSUME NEW j \in JobsOf(after, a)
          PROVE  /\ j \in Of("generation_job", end) /\ end[j] = after[j]
                 /\ after[j].vals.status \in {"QUEUED", "FAILED"}
      <3>1. j \in DOMAIN rows /\ Home(j) = "generation_job"
        BY <1>1 DEF JobsOf, Of
      <3> QED BY <1>1, <1>2, <1>3, <3>1 DEF Of
    <2>5. \E j \in JobsOf(after, a) : after[j].vals.status = "QUEUED"
      <3> SUFFICES ASSUME \A j \in JobsOf(after, a) : after[j].vals.status # "QUEUED"
                   PROVE  FALSE
        OBVIOUS
      <3>1. \A j \in JobsOf(after, a) : after[j].vals.status = "FAILED"
        BY <2>4
      <3>2. PICK j \in JobsOf(after, a) : TRUE
        BY <2>3
      <3>3. StrandedIn(rows, a)
        BY <2>2, <3>1, <3>2 DEF StrandedIn, Dead, after
      <3> QED BY <2>2, <3>3
    <2>6. PICK j \in JobsOf(after, a) : after[j].vals.status = "QUEUED"
      BY <2>5
    <2> QED BY <1>5, <2>3, <2>4, <2>6 DEF NoneParked
  <1> QED BY <1>1, <1>4, <1>5, <1>6 DEF end

(* What a downgrade to revision m leaves of the rows.                      *)
LEMMA FittedRows ==
    ASSUME NEW n, NEW m \in 0 .. 13, NEW rows, WrittenAt(n, rows), NEW c, NEW types,
           IsAt(c, m, types)
    PROVE  /\ DOMAIN Fit(c, rows) \subseteq DOMAIN rows
           /\ WrittenAt(m, Fit(c, rows))
           /\ NoneParked(rows) => NoneParked(Fit(c, rows))
           /\ m >= 1 /\ NoneStranded(rows) => NoneStranded(Fit(c, rows))
  <1> DEFINE fit == Fit(c, rows)
  <1>1. /\ DOMAIN c.table = NamesAt(m)
        /\ \A t \in NamesAt(m) : c.table[t].columns = ColumnsAt(m, t)
    <2>1. ASSUME NEW t \in NamesAt(m) PROVE c.table[t].columns = ColumnsAt(m, t)
      <3>1. c.table[t] = TableAt(m, t)
        BY DEF IsAt
      <3> QED BY <3>1 DEF TableAt, Table
    <2> QED BY <2>1 DEF IsAt
  <1>2. DOMAIN fit = {x \in DOMAIN rows : Home(x) \in NamesAt(m)}
    BY <1>1 DEF Fit
  <1>3. ASSUME NEW x \in DOMAIN rows, Home(x) \in NamesAt(m)
        PROVE  /\ fit[x] = [refs |-> fit[x].refs, vals |-> fit[x].vals]
               /\ DOMAIN fit[x].refs = DOMAIN rows[x].refs \cap ColumnsAt(m, Home(x))
               /\ \A y \in DOMAIN fit[x].refs : fit[x].refs[y] = rows[x].refs[y]
               /\ DOMAIN fit[x].vals = DOMAIN rows[x].vals \cap ColumnsAt(m, Home(x))
               /\ \A y \in DOMAIN fit[x].vals : fit[x].vals[y] = rows[x].vals[y]
    <2> DEFINE columns == ColumnsAt(m, Home(x))
               refs == Restrict(rows[x].refs, DOMAIN rows[x].refs \cap columns)
               vals == Restrict(rows[x].vals, DOMAIN rows[x].vals \cap columns)
    <2>1. fit[x] = [refs |-> refs, vals |-> vals]
      BY <1>1, <1>3 DEF Fit
    <2>2. /\ DOMAIN refs = DOMAIN rows[x].refs \cap columns
          /\ \A y \in DOMAIN rows[x].refs \cap columns : refs[y] = rows[x].refs[y]
      BY Restricted
    <2>3. /\ DOMAIN vals = DOMAIN rows[x].vals \cap columns
          /\ \A y \in DOMAIN rows[x].vals \cap columns : vals[y] = rows[x].vals[y]
      BY Restricted
    <2> HIDE DEF fit, refs, vals
    <2>4. fit[x].refs = refs /\ fit[x].vals = vals
      BY <2>1
    <2> QED BY <2>1, <2>2, <2>3, <2>4
  <1> HIDE DEF fit
  <1>4. {"status", "error", "artifact_id"} \subseteq ColumnsAt(m, "generation_job")
        /\ "state" \in ColumnsAt(m, "artifact")
    BY JobsAndArtifacts
  <1>5. ASSUME NEW x \in DOMAIN fit PROVE IsEntry(fit[x], x)
    <2>1. x \in DOMAIN rows /\ Home(x) \in NamesAt(m) /\ IsEntry(rows[x], x)
      BY <1>2 DEF WrittenAt
    <2>2. /\ DOMAIN fit[x].refs \subseteq DOMAIN Rows[x].refs
          /\ \A y \in DOMAIN fit[x].refs : fit[x].refs[y] = Rows[x].refs[y]
      BY <1>3, <2>1 DEF IsEntry
    <2>3. Home(x) = "generation_job" =>
              "status" \in DOMAIN fit[x].vals /\ fit[x].vals.status \in {"QUEUED", "FAILED"}
      BY <1>3, <1>4, <2>1 DEF IsEntry
    <2>4. Home(x) = "artifact" => "state" \in DOMAIN fit[x].vals
      BY <1>3, <1>4, <2>1 DEF IsEntry
    <2> QED BY <1>3, <2>1, <2>2, <2>3, <2>4 DEF IsEntry
  <1>6. WrittenAt(m, fit)
    BY <1>2, <1>5 DEF WrittenAt
  <1>7. ASSUME NEW j \in Of("generation_job", fit)
        PROVE  /\ j \in Of("generation_job", rows)
               /\ fit[j].vals.status = rows[j].vals.status
               /\ Parked(fit, j) => Parked(rows, j)
    <2>1. j \in DOMAIN rows /\ Home(j) \in NamesAt(m) /\ Home(j) = "generation_job"
      BY <1>2 DEF Of
    <2>2. "status" \in DOMAIN rows[j].vals
      BY <2>1 DEF WrittenAt, IsEntry
    <2>3. fit[j].vals.status = rows[j].vals.status
      BY <1>3, <1>4, <2>1, <2>2
    <2>4. "error" \in DOMAIN fit[j].vals => "error" \in DOMAIN rows[j].vals
      BY <1>3, <2>1
    <2> QED BY <2>1, <2>3, <2>4 DEF Of, Parked
  <1>8. NoneParked(rows) => NoneParked(fit)
    BY <1>7 DEF NoneParked
  <1>9. ASSUME m >= 1, NoneStranded(rows) PROVE NoneStranded(fit)
    <2> SUFFICES ASSUME NEW a \in Of("artifact", fit), fit[a].vals.state = "GENERATING",
                        JobsOf(fit, a) # {}
                 PROVE  \E j \in JobsOf(fit, a) :
                            fit[j].vals.status = "QUEUED" /\ ~Parked(fit, j)
      BY DEF NoneStranded
    <2>1. a \in DOMAIN rows /\ Home(a) \in NamesAt(m) /\ Home(a) = "artifact"
      BY <1>2 DEF Of
    <2>2. "state" \in DOMAIN rows[a].vals
      BY <2>1 DEF WrittenAt, IsEntry
    <2>3. rows[a].vals.state = "GENERATING"
      BY <1>3, <1>4, <2>1, <2>2
    <2>4. ASSUME NEW j PROVE j \in JobsOf(fit, a) <=> j \in JobsOf(rows, a)
      <3>1. "generation_job" \in NamesAt(m)
        BY <1>9, JobsAndArtifacts
      <3>2. j \in Of("generation_job", fit) <=> j \in Of("generation_job", rows)
        BY <1>2, <3>1 DEF Of
      <3>3. ASSUME j \in Of("generation_job", rows)
            PROVE  /\ "artifact_id" \in DOMAIN fit[j].refs <=> "artifact_id" \in DOMAIN rows[j].refs
                   /\ "artifact_id" \in DOMAIN fit[j].refs =>
                         fit[j].refs.artifact_id = rows[j].refs.artifact_id
        <4>1. j \in DOMAIN rows /\ Home(j) = "generation_job"
          BY <3>3 DEF Of
        <4> QED BY <1>3, <1>4, <3>1, <4>1
      <3> QED BY <3>2, <3>3 DEF JobsOf
    <2>5. PICK j \in JobsOf(rows, a) : rows[j].vals.status = "QUEUED" /\ ~Parked(rows, j)
      <3>1. a \in Of("artifact", rows) /\ JobsOf(rows, a) # {}
        BY <2>1, <2>4 DEF Of
      <3> QED BY <1>9, <2>3, <3>1 DEF NoneStranded
    <2>6. j \in JobsOf(fit, a) /\ j \in Of("generation_job", fit)
      BY <2>4 DEF JobsOf
    <2> QED BY <1>7, <2>5, <2>6
  <1>10. DOMAIN fit \subseteq DOMAIN rows
    BY <1>2
  <1>11. DOMAIN fit \subseteq DOMAIN rows /\ WrittenAt(m, fit)
         /\ (NoneParked(rows) => NoneParked(fit))
         /\ (m >= 1 /\ NoneStranded(rows) => NoneStranded(fit))
    BY <1>6, <1>8, <1>9, <1>10
  <1> QED BY <1>11 DEF fit

(* A row that is inserted.                                                 *)
Grown(more, r, rows) ==
    /\ DOMAIN more = {r} \cup DOMAIN rows
    /\ more[r] = [refs |-> Rows[r].refs, vals |-> Rows[r].vals]
    /\ \A x \in DOMAIN rows : x # r => more[x] = rows[x]

(* What Written returns.                                                   *)
LEMMA WrittenIs ==
    ASSUME NEW r, NEW rows
    PROVE  Grown(Written(r, rows), r, rows)
  <1> DEFINE one == [x \in {r} |-> [refs |-> Rows[r].refs, vals |-> Rows[r].vals]]
  <1>1. DOMAIN one = {r} /\ one[r] = [refs |-> Rows[r].refs, vals |-> Rows[r].vals]
    OBVIOUS
  <1>2. Written(r, rows) = Over(one, rows)
    BY DEF Written
  <1> HIDE DEF one
  <1>3. Extended(Over(one, rows), one, rows)
    BY OfMerged
  <1>4. PICK more : more = Written(r, rows)
    OBVIOUS
  <1>5. Grown(more, r, rows)
    BY <1>1, <1>2, <1>3, <1>4 DEF Extended, Grown
  <1> QED BY <1>4, <1>5

(* Inserting keeps what was established, whatever the row is.              *)
LEMMA InsertedRows ==
    ASSUME NEW n, NEW rows, WrittenAt(n, rows), NEW r \in DOMAIN Rows, r \notin DOMAIN rows,
           Home(r) \in NamesAt(n)
    PROVE  /\ WrittenAt(n, Written(r, rows))
           /\ NoneParked(rows) => NoneParked(Written(r, rows))
           /\ \A a : JobsOf(Written(r, rows), a) =
                JobsOf(rows, a) \cup
                {x \in {r} : /\ Home(x) = "generation_job" /\ "artifact_id" \in DOMAIN Rows[x].refs
                             /\ Rows[x].refs.artifact_id = a}
  <1> DEFINE more == Written(r, rows)
  <1>1. /\ DOMAIN more = {r} \cup DOMAIN rows
        /\ more[r] = [refs |-> Rows[r].refs, vals |-> Rows[r].vals]
        /\ \A x \in DOMAIN rows : more[x] = rows[x]
    <2>1. Grown(more, r, rows)
      BY WrittenIs
    <2> HIDE DEF more
    <2> QED BY <2>1 DEF Grown
  <1> HIDE DEF more
  <1>2. more[r].refs = Rows[r].refs /\ more[r].vals = Rows[r].vals
    BY <1>1
  <1>3. Home(r) = "generation_job" =>
            /\ "status" \in DOMAIN Rows[r].vals /\ Rows[r].vals.status = "QUEUED"
            /\ "error" \notin DOMAIN Rows[r].vals
    BY JobsAssumption
  <1>4. Home(r) = "artifact" => "state" \in DOMAIN Rows[r].vals
    BY ArtifactsAssumption
  <1>5. IsEntry(more[r], r)
    BY <1>1, <1>2, <1>3, <1>4 DEF IsEntry
  <1>6. WrittenAt(n, more)
    BY <1>1, <1>5 DEF WrittenAt
  <1>7. NoneParked(rows) => NoneParked(more)
    BY <1>1, <1>2, <1>3 DEF NoneParked, Parked, Of
  <1>8. ASSUME NEW a
        PROVE  JobsOf(more, a) = JobsOf(rows, a) \cup
                {x \in {r} : /\ Home(x) = "generation_job" /\ "artifact_id" \in DOMAIN Rows[x].refs
                             /\ Rows[x].refs.artifact_id = a}
    BY <1>1, <1>2 DEF JobsOf, Of
  <1>9. /\ WrittenAt(n, more) /\ (NoneParked(rows) => NoneParked(more))
        /\ \A a : JobsOf(more, a) = JobsOf(rows, a) \cup
                {x \in {r} : /\ Home(x) = "generation_job" /\ "artifact_id" \in DOMAIN Rows[x].refs
                             /\ Rows[x].refs.artifact_id = a}
    BY <1>6, <1>7, <1>8
  <1> QED BY <1>9 DEF more

(* One column of one row is updated.                                       *)
LEMMA UpdatedRows ==
    ASSUME NEW n, NEW rows, WrittenAt(n, rows), NEW x \in DOMAIN rows, NEW column, NEW to,
           Home(x) = "generation_job" /\ column = "status" => to \in {"QUEUED", "FAILED"},
           NEW others, others = [rows EXCEPT ![x].vals[column] = to]
    PROVE  /\ WrittenAt(n, others) /\ SameRefs(others, rows)
           /\ \A y \in DOMAIN rows : y # x => others[y] = rows[y]
           /\ Revalued(others[x], rows[x], column, to)
  <1>1. /\ DOMAIN others = DOMAIN rows
        /\ \A y \in DOMAIN rows : y # x => others[y] = rows[y]
        /\ others[x] = [rows[x] EXCEPT !.vals[column] = to]
    OBVIOUS
  <1>2. IsEntry(rows[x], x)
    BY DEF WrittenAt
  <1>3. Revalued(others[x], rows[x], column, to)
    BY <1>1, <1>2, Revaluing DEF IsEntry
  <1>4. IsEntry(others[x], x)
    BY <1>2, <1>3, RevaluedIsEntry
  <1>5. WrittenAt(n, others)
    BY <1>1, <1>4 DEF WrittenAt
  <1>6. SameRefs(others, rows)
    BY <1>1, <1>3 DEF SameRefs, Revalued
  <1> QED BY <1>1, <1>3, <1>5, <1>6

(* The catalogue is the one of the revision, but for labels that stayed.   *)
SchemaIsBuilt ==
    /\ revision \in 0 .. 13
    /\ IsAt(catalog, revision, catalog.type)
    /\ IsTyped(catalog.type, revision)

(* The inductive invariant: the schema is the revision's, the rows are     *)
(* rows of the world as they were written but for what deletes and         *)
(* failures changed, the constraints hold, and from revision 6 on no job   *)
(* is parked and no artifact stranded.                                     *)
DatabaseInv ==
    /\ SchemaIsBuilt
    /\ world \in Worlds
    /\ DOMAIN row \subseteq world
    /\ WrittenAt(revision, row)
    /\ Sound(catalog, row)
    /\ revision >= 6 => NoneParked(row)
    /\ revision >= 6 => NoneStranded(row)

(* The schema of revision n, as the proofs of the rows read it.            *)
PartsAt(c, n) ==
    /\ DOMAIN c.table = NamesAt(n)
    /\ c.trigger = GuardedAt(n)
    /\ \A t \in NamesAt(n) :
          /\ c.table[t].columns = ColumnsAt(n, t)
          /\ c.table[t].nullable = NullableAt(n, t)
          /\ c.table[t].fks = FksAt(n, t)
          /\ c.table[t].uniques = UniquesAt(n, t)
          /\ c.table[t].checks = ChecksAt(n, t)

LEMMA Parts ==
    ASSUME NEW c, NEW n, NEW types, IsAt(c, n, types)
    PROVE  PartsAt(c, n)
  <1>1. ASSUME NEW t \in NamesAt(n)
        PROVE  /\ c.table[t].columns = ColumnsAt(n, t)
               /\ c.table[t].nullable = NullableAt(n, t)
               /\ c.table[t].fks = FksAt(n, t)
               /\ c.table[t].uniques = UniquesAt(n, t)
               /\ c.table[t].checks = ChecksAt(n, t)
    <2>1. c.table[t] = TableAt(n, t)
      BY DEF IsAt
    <2> QED BY <2>1 DEF TableAt, Table
  <1> QED BY <1>1 DEF IsAt, PartsAt

(* A revision keeps the tables of the one before.                          *)
LEMMA NamesGrow ==
    ASSUME NEW n \in 1 .. 13
    PROVE  NamesAt(n - 1) \subseteq NamesAt(n)
  <1>1. /\ n - 1 >= 1 => n >= 1
        /\ n - 1 >= 4 => n >= 4
        /\ n - 1 >= 7 => n >= 7
        /\ n - 1 >= 13 => n >= 13
    OBVIOUS
  <1> QED BY <1>1 DEF NamesAt

(* An empty database.                                                      *)
LEMMA InitDatabase == SchemaInit => DatabaseInv
  <1> SUFFICES ASSUME SchemaInit PROVE DatabaseInv
    OBVIOUS
  <1>1. revision = 0 /\ catalog = Empty /\ row = << >> /\ world \in Worlds
    BY DEF SchemaInit
  <1>2. SchemaIsBuilt
    <2>1. IsBuilt(0) /\ Built[0] = Empty
      BY BuiltFirst, ChainIsBuilt DEF BuildsAll, HeadRevision
    <2>2. IsAt(Empty, 0, Empty.type) /\ IsPlain(Empty.type, 0)
      BY <2>1 DEF IsBuilt
    <2>3. IsTyped(Empty.type, 0)
      BY <2>2, NewTypes DEF IsPlain, IsTyped
    <2> QED BY <1>1, <2>2, <2>3 DEF SchemaIsBuilt
  <1>3. DOMAIN row = {}
    BY <1>1
  <1>4. WrittenAt(revision, row)
    BY <1>3 DEF WrittenAt
  <1>5. Sound(catalog, row)
    <2>1. DOMAIN catalog.table = {}
      BY <1>1 DEF Empty
    <2> QED BY <1>3, <2>1 DEF Sound, References, Keys
  <1> QED BY <1>1, <1>2, <1>3, <1>4, <1>5 DEF DatabaseInv

(* Upgrading to revision 6 repairs the rows; any other leaves them as they *)
(* are.                                                                    *)
LEMMA UpgradeStep == DatabaseInv /\ Upgrade => DatabaseInv'
  <1> SUFFICES ASSUME DatabaseInv, Upgrade PROVE DatabaseInv'
    OBVIOUS
  <1>1. PICK n : n = revision + 1
    OBVIOUS
  <1>2. PICK c : c = Up(n, catalog)
    OBVIOUS
  <1>3. n \in 1 .. 13 /\ revision = n - 1
    BY <1>1 DEF DatabaseInv, SchemaIsBuilt, Upgrade, HeadRevision
  <1>4. /\ revision' = n /\ catalog' = c /\ Sound(c, row') /\ world' = world
        /\ row' = IF n = 6 THEN Repaired(row) ELSE row
    BY <1>1, <1>2 DEF Upgrade, MigrateTo
  <1>5. PICK types : types = catalog.type
    OBVIOUS
  <1>6. IsAt(catalog, n - 1, types) /\ IsTyped(types, n - 1)
    BY <1>3, <1>5 DEF DatabaseInv, SchemaIsBuilt
  <1>7. IsAt(c, n, UpTypes(n, types))
    BY <1>2, <1>3, <1>6, UpStep
  <1>8. IsTyped(UpTypes(n, types), n)
    BY <1>3, <1>6, TypedUp
  <1>9. c.type = UpTypes(n, types)
    BY <1>7 DEF IsAt
  <1>10. SchemaIsBuilt'
    BY <1>3, <1>4, <1>7, <1>8, <1>9 DEF SchemaIsBuilt
  <1>11. WrittenAt(n - 1, row) /\ DOMAIN row \subseteq world
    BY <1>3 DEF DatabaseInv
  <1>12. WrittenAt(n, row)
    BY <1>3, <1>11, NamesGrow DEF WrittenAt
  <1>13. CASE n = 6
    <2>1. row' = Repaired(row)
      BY <1>4, <1>13
    <2>2. WrittenAt(n, row') /\ DOMAIN row' = DOMAIN row /\ NoneParked(row') /\ NoneStranded(row')
      BY <1>12, <2>1, RepairedRows
    <2> QED BY <1>4, <1>10, <1>11, <2>2 DEF DatabaseInv
  <1>14. CASE n # 6
    <2>1. row' = row
      BY <1>4, <1>14
    <2>2. n >= 6 => revision >= 6
      BY <1>3, <1>14
    <2>3. n >= 6 => NoneParked(row') /\ NoneStranded(row')
      BY <2>1, <2>2 DEF DatabaseInv
    <2> QED BY <1>4, <1>10, <1>11, <1>12, <2>1, <2>3 DEF DatabaseInv
  <1> QED BY <1>13, <1>14

(* Downgrading drops columns and rows, never a job's status or what it is  *)
(* for.                                                                    *)
LEMMA DowngradeStep == DatabaseInv /\ Downgrade => DatabaseInv'
  <1> SUFFICES ASSUME DatabaseInv, Downgrade PROVE DatabaseInv'
    OBVIOUS
  <1>1. PICK n : n = revision
    OBVIOUS
  <1>2. PICK c : c = Down(n, catalog)
    OBVIOUS
  <1>3. n \in 1 .. 13
    BY <1>1 DEF DatabaseInv, SchemaIsBuilt, Downgrade
  <1>4. /\ revision' = n - 1 /\ catalog' = c /\ Sound(c, row') /\ world' = world
        /\ row' = Fit(c, row)
    BY <1>1, <1>2 DEF Downgrade, MigrateTo
  <1>5. PICK types : types = catalog.type
    OBVIOUS
  <1>6. IsAt(catalog, n, types) /\ IsTyped(types, n) /\ WrittenAt(n, row)
    BY <1>1, <1>5 DEF DatabaseInv, SchemaIsBuilt
  <1>7. IsAt(c, n - 1, DownTypes(n, types))
    BY <1>2, <1>3, <1>6, DownStep
  <1>8. IsTyped(DownTypes(n, types), n - 1)
    BY <1>3, <1>6, TypedDown
  <1>9. c.type = DownTypes(n, types)
    BY <1>7 DEF IsAt
  <1>10. SchemaIsBuilt'
    <2>1. n - 1 \in 0 .. 13
      BY <1>3
    <2> QED BY <2>1, <1>4, <1>7, <1>8, <1>9 DEF SchemaIsBuilt
  <1>11. PICK m \in 0 .. 13 : m = n - 1
    BY <1>3
  <1>12. /\ DOMAIN row' \subseteq DOMAIN row
         /\ WrittenAt(m, row')
         /\ NoneParked(row) => NoneParked(row')
         /\ m >= 1 /\ NoneStranded(row) => NoneStranded(row')
    BY <1>4, <1>6, <1>7, <1>11, FittedRows
  <1>13. m >= 6 => revision >= 6 /\ m >= 1
    BY <1>1, <1>3, <1>11
  <1> QED BY <1>4, <1>10, <1>11, <1>12, <1>13 DEF DatabaseInv

(* r is a job for the artifact a.                                          *)
ServedBy(r, a) ==
    /\ Home(r) = "generation_job"
    /\ "artifact_id" \in DOMAIN Rows[r].refs /\ Rows[r].refs.artifact_id = a

(* None is stranded but those the new job r is for.                        *)
NoneStrandedBut(rows, r) ==
    \A a \in Of("artifact", rows) :
        rows[a].vals.state = "GENERATING" /\ JobsOf(rows, a) # {} /\ ~ServedBy(r, a) =>
            \E j \in JobsOf(rows, a) : rows[j].vals.status = "QUEUED" /\ ~Parked(rows, j)

(* A new job is QUEUED, so it strands nothing, and rescues what it is for. *)
LEMMA InsertedServes ==
    ASSUME NEW n, NEW rows, WrittenAt(n, rows), NEW r \in DOMAIN Rows, r \notin DOMAIN rows,
           Home(r) \in NamesAt(n), JobsOf(rows, r) = {}, NoneStrandedBut(rows, r)
    PROVE  NoneStranded(Written(r, rows))
  <1>1. PICK more : more = Written(r, rows)
    OBVIOUS
  <1>2. Grown(more, r, rows)
    BY <1>1, WrittenIs
  <1>3. \A a : JobsOf(more, a) = JobsOf(rows, a) \cup {x \in {r} : ServedBy(x, a)}
    BY <1>1, InsertedRows DEF ServedBy
  <1>4. ASSUME NEW a \in Of("artifact", more), more[a].vals.state = "GENERATING",
               JobsOf(more, a) # {}
        PROVE  \E j \in JobsOf(more, a) : more[j].vals.status = "QUEUED" /\ ~Parked(more, j)
    <2>1. CASE ServedBy(r, a)
      <3>1. r \in JobsOf(more, a)
        BY <1>3, <2>1
      <3>2. Rows[r].vals.status = "QUEUED" /\ "error" \notin DOMAIN Rows[r].vals
        BY <2>1, JobsAssumption DEF ServedBy
      <3>3. more[r].vals = Rows[r].vals
        BY <1>2 DEF Grown
      <3> QED BY <3>1, <3>2, <3>3 DEF Parked
    <2>2. CASE ~ServedBy(r, a)
      <3>1. JobsOf(more, a) = JobsOf(rows, a)
        BY <1>3, <2>2
      <3>2. a # r
        BY <1>4, <3>1
      <3>3. a \in Of("artifact", rows) /\ more[a] = rows[a]
        BY <1>2, <3>2 DEF Of, Grown
      <3>4. PICK j \in JobsOf(rows, a) : rows[j].vals.status = "QUEUED" /\ ~Parked(rows, j)
        BY <1>4, <2>2, <3>1, <3>3 DEF NoneStrandedBut
      <3>5. more[j] = rows[j]
        BY <1>2 DEF Grown, JobsOf, Of
      <3> QED BY <3>1, <3>4, <3>5 DEF Parked
    <2> QED BY <2>1, <2>2
  <1>5. NoneStranded(more)
    BY <1>4 DEF NoneStranded
  <1> QED BY <1>1, <1>5

(* A job is for an artifact that is there.                                 *)
LEMMA JobsAreHeld ==
    ASSUME NEW n \in 0 .. 13, NEW c, PartsAt(c, n), NEW rows, WrittenAt(n, rows), Sound(c, rows),
           NEW a, JobsOf(rows, a) # {}
    PROVE  a \in DOMAIN rows
  <1>1. PICK j \in JobsOf(rows, a) : TRUE
    OBVIOUS
  <1>2. j \in DOMAIN rows /\ Home(j) = "generation_job"
        /\ "artifact_id" \in DOMAIN rows[j].refs /\ rows[j].refs.artifact_id = a
    BY <1>1 DEF JobsOf, Of
  <1>3. PICK f \in FksAt(n, "generation_job") : f.column = "artifact_id"
    BY JobsAndArtifacts DEF Fk
  <1>4. f \in c.table[Home(j)].fks
    BY <1>2, <1>3 DEF PartsAt, WrittenAt
  <1>5. rows[j].refs[f.column] \in DOMAIN rows
    BY <1>2, <1>3, <1>4 DEF Sound, References
  <1> QED BY <1>2, <1>3, <1>5

(* A world is a finite set of rows.                                        *)
LEMMA WorldIsRows == DatabaseInv => world \subseteq DOMAIN Rows /\ IsFiniteSet(DOMAIN row)
  BY WorldsAssumption, FS_Subset DEF DatabaseInv

(* What the program's statements leave alone.                              *)
LEMMA SameSchema ==
    DatabaseInv /\ UNCHANGED <<world, revision, catalog>> =>
        SchemaIsBuilt' /\ world' \in Worlds /\ world' = world /\ PartsAt(catalog, revision)
  BY Parts DEF DatabaseInv, SchemaIsBuilt

(* A row that is written: a new artifact has no jobs yet, since a job      *)
(* refers to one that is there.                                            *)
LEMMA InsertStep == ASSUME NEW r \in world, DatabaseInv, Insert(r) PROVE DatabaseInv'
  <1>1. PICK n \in 0 .. 13 : n = revision
    BY DEF DatabaseInv, SchemaIsBuilt
  <1>2. /\ r \in DOMAIN Rows /\ r \notin DOMAIN row /\ row' = Written(r, row)
        /\ Sound(catalog', row') /\ UNCHANGED <<world, revision, catalog>>
    BY WorldIsRows DEF Insert
  <1>3. SchemaIsBuilt' /\ world' \in Worlds /\ world' = world /\ PartsAt(catalog, n)
    BY <1>1, <1>2, SameSchema
  <1>4. Home(r) \in NamesAt(n)
    BY <1>3 DEF Insert, PartsAt
  <1>5. WrittenAt(n, row) /\ DOMAIN row \subseteq world /\ Sound(catalog, row)
    BY <1>1 DEF DatabaseInv
  <1>6. WrittenAt(n, row')
    BY <1>2, <1>4, <1>5, InsertedRows
  <1>7. DOMAIN row' \subseteq world
    <2>1. Grown(row', r, row)
      BY <1>2, WrittenIs
    <2> QED BY <1>5, <2>1 DEF Grown
  <1>8. n >= 6 => NoneParked(row')
    <2>1. n >= 6 => NoneParked(row)
      BY <1>1 DEF DatabaseInv
    <2> QED BY <1>2, <1>4, <1>5, <2>1, InsertedRows
  <1>9. n >= 6 => NoneStranded(row')
    <2>1. n >= 6 => NoneStrandedBut(row, r)
      BY <1>1 DEF DatabaseInv, NoneStranded, NoneStrandedBut
    <2>2. JobsOf(row, r) = {}
      BY <1>2, <1>3, <1>5, JobsAreHeld
    <2> QED BY <1>2, <1>4, <1>5, <2>1, <2>2, InsertedServes
  <1> QED BY <1>1, <1>2, <1>3, <1>6, <1>7, <1>8, <1>9 DEF DatabaseInv

(* An UPDATE touches neither jobs nor artifacts.                           *)
LEMMA UpdateStep == ASSUME NEW u \in Updates, DatabaseInv, Update(u) PROVE DatabaseInv'
  <1>1. PICK n \in 0 .. 13 : n = revision
    BY DEF DatabaseInv, SchemaIsBuilt
  <1>2. PICK x, column, to : x = u.row /\ column = u.column /\ to = u.to
    OBVIOUS
  <1>3. /\ x \in DOMAIN row /\ row' = [row EXCEPT ![x].vals[column] = to]
        /\ Sound(catalog', row') /\ UNCHANGED <<world, revision, catalog>>
    BY <1>2 DEF Update
  <1>4. Home(x) \notin {"generation_job", "artifact"}
    BY <1>2, UpdatesAssumption
  <1>5. SchemaIsBuilt' /\ world' \in Worlds /\ world' = world
    BY <1>3, SameSchema
  <1>6. WrittenAt(n, row) /\ DOMAIN row \subseteq world
    BY <1>1 DEF DatabaseInv
  <1>7. /\ WrittenAt(n, row') /\ SameRefs(row', row)
        /\ \A y \in DOMAIN row : y # x => row'[y] = row[y]
    BY <1>3, <1>4, <1>6, UpdatedRows
  <1>8. DOMAIN row' = DOMAIN row
    BY <1>7 DEF SameRefs
  <1>9. ASSUME NEW t \in {"generation_job", "artifact"}
        PROVE  Of(t, row') = Of(t, row) /\ \A y \in Of(t, row) : row'[y] = row[y]
    BY <1>4, <1>7, <1>8 DEF Of
  <1>10. n >= 6 => NoneParked(row')
    BY <1>1, <1>9 DEF DatabaseInv, NoneParked, Parked
  <1>11. ASSUME n >= 6 PROVE NoneStranded(row')
    <2>1. NoneStranded(row)
      BY <1>1, <1>11 DEF DatabaseInv
    <2>2. ASSUME NEW a \in Of("artifact", row'), row'[a].vals.state = "GENERATING",
                 JobsOf(row', a) # {}
          PROVE  \E j \in JobsOf(row', a) : row'[j].vals.status = "QUEUED" /\ ~Parked(row', j)
      <3>1. a \in Of("artifact", row) /\ row'[a] = row[a] /\ JobsOf(row', a) = JobsOf(row, a)
        BY <1>7, <1>9, SameJobs
      <3>2. PICK j \in JobsOf(row, a) : row[j].vals.status = "QUEUED" /\ ~Parked(row, j)
        BY <2>1, <2>2, <3>1 DEF NoneStranded
      <3>3. j \in Of("generation_job", row)
        BY DEF JobsOf
      <3>4. row'[j] = row[j]
        BY <1>9, <3>3
      <3> QED BY <3>1, <3>2, <3>4 DEF Parked
    <2> QED BY <2>2 DEF NoneStranded
  <1> QED BY <1>1, <1>3, <1>5, <1>6, <1>7, <1>8, <1>10, <1>11 DEF DatabaseInv

(* A retry sets an artifact GENERATING, and adds the QUEUED job that will  *)
(* serve it.                                                               *)
LEMMA RetryStep ==
    ASSUME NEW a \in DOMAIN row, NEW j \in world, DatabaseInv, Retry(a, j)
    PROVE  DatabaseInv'
  <1>1. PICK n \in 0 .. 13 : n = revision
    BY DEF DatabaseInv, SchemaIsBuilt
  <1>2. PICK rows : rows = [row EXCEPT ![a].vals["state"] = "GENERATING"]
    OBVIOUS
  <1>3. /\ j \in DOMAIN Rows /\ j \notin DOMAIN row /\ row' = Written(j, rows)
        /\ ServedBy(j, a) /\ Home(a) = "artifact"
        /\ Sound(catalog', row') /\ UNCHANGED <<world, revision, catalog>>
    BY <1>2, WorldIsRows DEF Retry, ServedBy
  <1>4. SchemaIsBuilt' /\ world' \in Worlds /\ world' = world /\ PartsAt(catalog, n)
    BY <1>1, <1>3, SameSchema
  <1>5. WrittenAt(n, row) /\ DOMAIN row \subseteq world /\ Sound(catalog, row)
    BY <1>1 DEF DatabaseInv
  <1>6. /\ WrittenAt(n, rows) /\ SameRefs(rows, row)
        /\ \A y \in DOMAIN row : y # a => rows[y] = row[y]
    BY <1>2, <1>3, <1>5, UpdatedRows
  <1>7. DOMAIN rows = DOMAIN row
    BY <1>6 DEF SameRefs
  <1>8. Home(j) \in NamesAt(n)
    <2>1. Home(a) \in NamesAt(n) /\ Home(a) = "artifact"
      BY <1>3, <1>5 DEF WrittenAt
    <2>2. n >= 1
      BY <2>1 DEF NamesAt, BrandingTables
    <2> QED BY <1>3, <2>2, JobsAndArtifacts DEF ServedBy
  <1>9. WrittenAt(n, row')
    BY <1>3, <1>6, <1>7, <1>8, InsertedRows
  <1>10. DOMAIN row' \subseteq world
    <2>1. Grown(row', j, rows)
      BY <1>3, WrittenIs
    <2> QED BY <1>5, <1>7, <2>1 DEF Grown
  <1>11. \A y \in Of("generation_job", row) : rows[y] = row[y]
    BY <1>3, <1>6 DEF Of
  <1>12. n >= 6 => NoneParked(row')
    <2>1. n >= 6 => NoneParked(row)
      BY <1>1 DEF DatabaseInv
    <2>2. n >= 6 => NoneParked(rows)
      BY <1>7, <1>11, <2>1 DEF NoneParked, Parked, Of
    <2> QED BY <1>3, <1>6, <1>7, <1>8, <2>2, InsertedRows
  <1>13. ASSUME n >= 6 PROVE NoneStranded(row')
    <2>1. NoneStranded(row)
      BY <1>1, <1>13 DEF DatabaseInv
    <2>2. ASSUME NEW b \in Of("artifact", rows), rows[b].vals.state = "GENERATING",
                 JobsOf(rows, b) # {}, ~ServedBy(j, b)
          PROVE  \E k \in JobsOf(rows, b) : rows[k].vals.status = "QUEUED" /\ ~Parked(rows, k)
      <3>1. b # a
        BY <1>3, <2>2
      <3>2. b \in Of("artifact", row) /\ rows[b] = row[b]
        BY <1>6, <1>7, <3>1 DEF Of
      <3>3. JobsOf(rows, b) = JobsOf(row, b)
        BY <1>6, SameJobs
      <3>4. PICK k \in JobsOf(row, b) : row[k].vals.status = "QUEUED" /\ ~Parked(row, k)
        BY <2>1, <2>2, <3>2, <3>3 DEF NoneStranded
      <3>5. rows[k] = row[k]
        BY <1>11 DEF JobsOf
      <3> QED BY <3>3, <3>4, <3>5 DEF Parked
    <2>3. NoneStrandedBut(rows, j)
      BY <2>2 DEF NoneStrandedBut
    <2>4. JobsOf(rows, j) = {}
      <3>1. JobsOf(rows, j) = JobsOf(row, j)
        BY <1>6, SameJobs
      <3>2. JobsOf(row, j) = {}
        BY <1>3, <1>4, <1>5, JobsAreHeld
      <3> QED BY <3>1, <3>2
    <2> QED BY <1>3, <1>6, <1>7, <1>8, <2>3, <2>4, InsertedServes
  <1> QED BY <1>1, <1>3, <1>4, <1>9, <1>10, <1>12, <1>13 DEF DatabaseInv

(* Before revision 6 a job that fails may be parked.                       *)
LEMMA ParkedRows ==
    ASSUME NEW n, NEW rows, WrittenAt(n, rows), NEW j \in DOMAIN rows,
           NEW others, others = [rows EXCEPT ![j].vals = Over([error |-> "raised"], @)]
    PROVE  WrittenAt(n, others) /\ DOMAIN others = DOMAIN rows
  <1>1. PICK vals : vals = Over([error |-> "raised"], rows[j].vals)
    OBVIOUS
  <1>2. IsEntry(rows[j], j) /\ rows[j] = [refs |-> rows[j].refs, vals |-> rows[j].vals]
    BY DEF WrittenAt, IsEntry
  <1>3. /\ DOMAIN others = DOMAIN rows
        /\ \A y \in DOMAIN rows : y # j => others[y] = rows[y]
        /\ others[j] = [rows[j] EXCEPT !.vals = vals]
    BY <1>1
  <1>4. PICK one : one = [error |-> "raised"]
    OBVIOUS
  <1>5. DOMAIN one = {"error"}
    BY <1>4
  <1>6. Extended(Over(one, rows[j].vals), one, rows[j].vals)
    BY OfMerged
  <1>7. Extended(vals, one, rows[j].vals)
    BY <1>1, <1>4, <1>6
  <1>8. /\ DOMAIN rows[j].vals \subseteq DOMAIN vals
        /\ \A y \in DOMAIN rows[j].vals : y # "error" => vals[y] = rows[j].vals[y]
    BY <1>5, <1>7 DEF Extended
  <1>9. /\ others[j] = [refs |-> others[j].refs, vals |-> others[j].vals]
        /\ others[j].refs = rows[j].refs /\ others[j].vals = vals
    <2>1. PICK e : e = rows[j]
      OBVIOUS
    <2>2. DOMAIN e = {"refs", "vals"}
      BY <1>2, <2>1
    <2> QED BY <1>3, <2>1, <2>2
  <1>10. IsEntry(others[j], j)
    BY <1>2, <1>8, <1>9 DEF IsEntry
  <1> QED BY <1>3, <1>10 DEF WrittenAt

(* From revision 6 on, the job fails, and with it the artifact it is for.  *)
FailedIn(rows, j) ==
    [r \in DOMAIN rows |->
        IF r = j THEN [rows[r] EXCEPT !.vals.status = "FAILED"]
        ELSE IF j \in JobsOf(rows, r) /\ rows[r].vals.state = "GENERATING"
             THEN [rows[r] EXCEPT !.vals.state = "FAILED"]
             ELSE rows[r]]

(* Nothing is stranded by a failing job: a GENERATING artifact it was for  *)
(* fails with it.                                                          *)
LEMMA FailedRows ==
    ASSUME NEW n, NEW rows, WrittenAt(n, rows), NEW j \in Of("generation_job", rows),
           NEW others, others = FailedIn(rows, j)
    PROVE  /\ WrittenAt(n, others) /\ SameRefs(others, rows)
           /\ NoneParked(rows) => NoneParked(others)
           /\ NoneStranded(rows) => NoneStranded(others)
  <1>1. j \in DOMAIN rows /\ Home(j) = "generation_job"
    BY DEF Of
  <1>2. DOMAIN others = DOMAIN rows
    BY DEF FailedIn
  <1>3. ASSUME NEW x \in DOMAIN rows, j \in JobsOf(rows, x)
        PROVE  Home(x) = "artifact" /\ x # j
    <2>1. /\ "artifact_id" \in DOMAIN rows[j].refs /\ rows[j].refs.artifact_id = x
          /\ IsEntry(rows[j], j) /\ j \in DOMAIN Rows
      BY <1>1, <1>3 DEF JobsOf, WrittenAt
    <2>2. "artifact_id" \in DOMAIN Rows[j].refs /\ Rows[j].refs.artifact_id = x
      BY <2>1 DEF IsEntry
    <2> QED BY <1>1, <2>1, <2>2, JobsAssumption
  <1>4. ASSUME NEW x \in DOMAIN rows
        PROVE  /\ IsEntry(others[x], x) /\ others[x].refs = rows[x].refs
               /\ x = j => others[x].vals.status = "FAILED"
               /\ Home(x) = "generation_job" /\ x # j => others[x] = rows[x]
               /\ Home(x) = "artifact" /\ others[x].vals.state = "GENERATING" =>
                     j \notin JobsOf(rows, x) /\ rows[x].vals.state = "GENERATING"
    <2>0. IsEntry(rows[x], x) /\ rows[x] = [refs |-> rows[x].refs, vals |-> rows[x].vals]
      BY DEF WrittenAt, IsEntry
    <2>1. CASE x = j
      <3>1. others[x] = [rows[x] EXCEPT !.vals["status"] = "FAILED"]
        BY <2>1 DEF FailedIn
      <3>2. Revalued(others[x], rows[x], "status", "FAILED")
        BY <2>0, <3>1, Revaluing
      <3>3. IsEntry(others[x], x)
        BY <2>0, <3>2, RevaluedIsEntry
      <3>4. "status" \in DOMAIN rows[x].vals
        BY <1>1, <2>0, <2>1 DEF IsEntry
      <3>5. others[x].vals.status = "FAILED"
        BY <3>2, <3>4 DEF Revalued
      <3> QED BY <1>1, <2>1, <3>2, <3>3, <3>5 DEF Revalued
    <2>2. CASE x # j /\ j \in JobsOf(rows, x) /\ rows[x].vals.state = "GENERATING"
      <3>1. others[x] = [rows[x] EXCEPT !.vals["state"] = "FAILED"]
        BY <2>2 DEF FailedIn
      <3>2. Revalued(others[x], rows[x], "state", "FAILED")
        BY <2>0, <3>1, Revaluing
      <3>3. IsEntry(others[x], x) /\ Home(x) = "artifact"
        BY <1>3, <2>0, <2>2, <3>2, RevaluedIsEntry
      <3>4. "state" \in DOMAIN rows[x].vals
        BY <2>0, <3>3 DEF IsEntry
      <3>5. others[x].vals.state = "FAILED"
        BY <3>2, <3>4 DEF Revalued
      <3> QED BY <2>2, <3>2, <3>3, <3>5 DEF Revalued
    <2>3. CASE x # j /\ ~(j \in JobsOf(rows, x) /\ rows[x].vals.state = "GENERATING")
      <3>1. others[x] = rows[x]
        BY <2>3 DEF FailedIn
      <3> QED BY <2>0, <2>3, <3>1
    <2> QED BY <2>1, <2>2, <2>3
  <1>5. WrittenAt(n, others)
    BY <1>2, <1>4 DEF WrittenAt
  <1>6. SameRefs(others, rows)
    BY <1>2, <1>4 DEF SameRefs
  <1>7. NoneParked(rows) => NoneParked(others)
    <2> SUFFICES ASSUME NoneParked(rows), NEW i \in Of("generation_job", others)
                 PROVE  ~Parked(others, i)
      BY DEF NoneParked
    <2>1. i \in Of("generation_job", rows) /\ i \in DOMAIN rows /\ Home(i) = "generation_job"
      BY <1>2 DEF Of
    <2>2. CASE i = j
      BY <1>4, <2>1, <2>2 DEF Parked
    <2>3. CASE i # j
      <3>1. others[i] = rows[i]
        BY <1>4, <2>1, <2>3
      <3> QED BY <2>1, <3>1 DEF NoneParked, Parked
    <2> QED BY <2>2, <2>3
  <1>8. ASSUME NoneStranded(rows) PROVE NoneStranded(others)
    <2> SUFFICES ASSUME NEW a \in Of("artifact", others), others[a].vals.state = "GENERATING",
                        JobsOf(others, a) # {}
                 PROVE  \E i \in JobsOf(others, a) :
                            others[i].vals.status = "QUEUED" /\ ~Parked(others, i)
      BY DEF NoneStranded
    <2>1. a \in DOMAIN rows /\ Home(a) = "artifact" /\ a \in Of("artifact", rows)
      BY <1>2 DEF Of
    <2>2. j \notin JobsOf(rows, a) /\ rows[a].vals.state = "GENERATING"
      BY <1>4, <2>1
    <2>3. JobsOf(others, a) = JobsOf(rows, a)
      BY <1>6, SameJobs
    <2>4. PICK i \in JobsOf(rows, a) : rows[i].vals.status = "QUEUED" /\ ~Parked(rows, i)
      BY <1>8, <2>1, <2>2, <2>3 DEF NoneStranded
    <2>5. i \in DOMAIN rows /\ Home(i) = "generation_job" /\ i # j
      BY <2>2, <2>4 DEF JobsOf, Of
    <2>6. others[i] = rows[i]
      BY <1>4, <2>5
    <2> QED BY <2>3, <2>4, <2>6 DEF Parked
  <1> QED BY <1>5, <1>6, <1>7, <1>8

(* A failing job, before revision 6 and since.                             *)
LEMMA JobFailsStep == ASSUME NEW j \in DOMAIN row, DatabaseInv, JobFails(j) PROVE DatabaseInv'
  <1>1. PICK n \in 0 .. 13 : n = revision
    BY DEF DatabaseInv, SchemaIsBuilt
  <1>2. /\ Home(j) = "generation_job" /\ j \in Of("generation_job", row)
        /\ Sound(catalog', row') /\ UNCHANGED <<world, revision, catalog>>
    BY DEF JobFails, Of
  <1>3. SchemaIsBuilt' /\ world' \in Worlds /\ world' = world
    BY <1>2, SameSchema
  <1>4. WrittenAt(n, row) /\ DOMAIN row \subseteq world
    BY <1>1 DEF DatabaseInv
  <1>5. CASE n < 6 /\ row' = [row EXCEPT ![j].vals = Over([error |-> "raised"], @)]
    <2>1. WrittenAt(n, row') /\ DOMAIN row' = DOMAIN row
      BY <1>4, <1>5, ParkedRows
    <2>2. ~(n >= 6)
      BY <1>5
    <2> QED BY <1>1, <1>2, <1>3, <1>4, <2>1, <2>2 DEF DatabaseInv
  <1>6. CASE n < 6 /\ row' = [row EXCEPT ![j].vals.status = "FAILED"]
    <2>1. row' = [row EXCEPT ![j].vals["status"] = "FAILED"]
      BY <1>6
    <2>2. WrittenAt(n, row') /\ SameRefs(row', row)
      BY <1>4, <2>1, UpdatedRows
    <2>3. DOMAIN row' = DOMAIN row
      BY <2>2 DEF SameRefs
    <2>4. ~(n >= 6)
      BY <1>6
    <2> QED BY <1>1, <1>2, <1>3, <1>4, <2>2, <2>3, <2>4 DEF DatabaseInv
  <1>7. CASE n >= 6 /\ row' = FailedIn(row, j)
    <2>1. NoneParked(row) /\ NoneStranded(row)
      BY <1>1, <1>7 DEF DatabaseInv
    <2>2. WrittenAt(n, row') /\ SameRefs(row', row) /\ NoneParked(row') /\ NoneStranded(row')
      BY <1>2, <1>4, <1>7, <2>1, FailedRows
    <2>3. DOMAIN row' = DOMAIN row
      BY <2>2 DEF SameRefs
    <2> QED BY <1>1, <1>2, <1>3, <1>4, <2>2, <2>3 DEF DatabaseInv
  <1> QED BY <1>1, <1>5, <1>6, <1>7 DEF JobFails, FailedIn

(* What a delete leaves: the other rows, with fewer references.            *)
Thinned(rows, gone) ==
    /\ DOMAIN rows = DOMAIN row \ gone
    /\ \A x \in DOMAIN rows :
          /\ rows[x] = [refs |-> rows[x].refs, vals |-> rows[x].vals]
          /\ rows[x].vals = row[x].vals
          /\ DOMAIN rows[x].refs = DOMAIN row[x].refs \ Lost(x, gone)
          /\ \A column \in DOMAIN rows[x].refs : rows[x].refs[column] = row[x].refs[column]

(* What Left returns.                                                      *)
LEMMA LeftRows ==
    ASSUME NEW n, WrittenAt(n, row), NEW gone, NEW rows, rows = Left(gone)
    PROVE  Thinned(rows, gone) /\ WrittenAt(n, rows)
  <1>1. DOMAIN rows = DOMAIN row \ gone
    BY DEF Left
  <1>2. ASSUME NEW x \in DOMAIN row \ gone
        PROVE  /\ rows[x] = [refs |-> rows[x].refs, vals |-> rows[x].vals]
               /\ rows[x].vals = row[x].vals
               /\ DOMAIN rows[x].refs = DOMAIN row[x].refs \ Lost(x, gone)
               /\ \A column \in DOMAIN rows[x].refs :
                     rows[x].refs[column] = row[x].refs[column]
    <2>1. PICK e : e = row[x]
      OBVIOUS
    <2>2. PICK names : names = DOMAIN e.refs \ Lost(x, gone)
      OBVIOUS
    <2>3. PICK refs : refs = Restrict(e.refs, names)
      OBVIOUS
    <2>4. rows[x] = [e EXCEPT !.refs = refs]
      BY <2>1, <2>2, <2>3 DEF Left
    <2>5. DOMAIN refs = names /\ \A column \in names : refs[column] = e.refs[column]
      BY <2>3, Restricted
    <2>6. DOMAIN e = {"refs", "vals"}
      <3>1. e = [refs |-> e.refs, vals |-> e.vals]
        BY <2>1 DEF WrittenAt, IsEntry
      <3> QED BY <3>1
    <2>7. /\ rows[x] = [refs |-> rows[x].refs, vals |-> rows[x].vals]
          /\ rows[x].refs = refs /\ rows[x].vals = e.vals
      BY <2>4, <2>6
    <2> QED BY <2>1, <2>2, <2>5, <2>7
  <1>3. Thinned(rows, gone)
    BY <1>1, <1>2 DEF Thinned
  <1>4. ASSUME NEW x \in DOMAIN rows PROVE Home(x) \in NamesAt(n) /\ IsEntry(rows[x], x)
    <2>1. x \in DOMAIN row /\ Home(x) \in NamesAt(n) /\ IsEntry(row[x], x)
      BY <1>1 DEF WrittenAt
    <2>2. rows[x].vals = row[x].vals /\ rows[x] = [refs |-> rows[x].refs, vals |-> rows[x].vals]
      BY <1>3 DEF Thinned
    <2>3. /\ DOMAIN rows[x].refs \subseteq DOMAIN Rows[x].refs
          /\ \A column \in DOMAIN rows[x].refs : rows[x].refs[column] = Rows[x].refs[column]
      BY <1>3, <2>1 DEF Thinned, IsEntry
    <2> QED BY <2>1, <2>2, <2>3 DEF IsEntry
  <1> QED BY <1>1, <1>3, <1>4 DEF WrittenAt

(* What is let go of, and what is not.                                     *)
LEMMA LostIsLetGo ==
    ASSUME NEW n \in 0 .. 13, n >= 2, PartsAt(catalog, n), WrittenAt(n, row),
           NEW x \in DOMAIN row, NEW gone, NEW column \in Lost(x, gone)
    PROVE  LetGo(Home(x), column)
  <1>1. Home(x) \in NamesAt(n)
    BY DEF WrittenAt
  <1>2. PICK f \in catalog.table[Home(x)].fks : f.action = "SET_NULL" /\ f.column = column
    BY DEF Lost
  <1>3. f \in FksAt(n, Home(x))
    BY <1>1, <1>2 DEF PartsAt
  <1>4. Lawful(n, Home(x), f)
    BY <1>1, <1>3, FksAreLawful
  <1> QED BY <1>2, <1>4 DEF Lawful

(* No job loses a reference: all of a job's references cascade.            *)
LEMMA JobsKeepRefs ==
    ASSUME NEW n \in 0 .. 13, n >= 2, PartsAt(catalog, n), WrittenAt(n, row),
           NEW x \in DOMAIN row, Home(x) = "generation_job", NEW gone
    PROVE  Lost(x, gone) = {}
  <1> SUFFICES ASSUME NEW column \in Lost(x, gone) PROVE FALSE
    OBVIOUS
  <1>1. Home(x) \in NamesAt(n)
    BY DEF WrittenAt
  <1>2. LetGo(Home(x), column)
    BY LostIsLetGo
  <1> QED BY <1>1, <1>2, LetGoSafely

(* Whatever falls, falls with something that falls.                        *)
LEMMA SweptIsSupported ==
    ASSUME NEW gone, NEW r, Swept(gone, r), NEW q \in gone, q # r
    PROVE  q \in RowsHeldBy(gone, "CASCADE")
  <1> DEFINE S == {x \in gone : x = r \/ x \in RowsHeldBy(gone, "CASCADE")}
  <1>1. S \subseteq gone /\ r \in S /\ S \in SUBSET DOMAIN row
    BY DEF Swept
  <1>2. RowsHeldBy(S, "CASCADE") \subseteq RowsHeldBy(gone, "CASCADE")
    <2> HIDE DEF S
    <2> QED BY <1>1, HeldByMore
  <1>3. RowsHeldBy(S, "CASCADE") \subseteq S
    BY <1>2 DEF Swept
  <1>4. gone \subseteq S
    <2> HIDE DEF S
    <2> QED BY <1>1, <1>3 DEF Swept
  <1> QED BY <1>4

(* A job outlives every delete its artifact outlives.                      *)
LEMMA JobsStay ==
    ASSUME NEW n \in 0 .. 13, PartsAt(catalog, n), WrittenAt(n, row), Sound(catalog, row),
           NEW gone, NEW r, Swept(gone, r), Home(r) # "generation_job",
           NEW a \in Of("artifact", row), a \notin gone, NEW q \in JobsOf(row, a)
    PROVE  q \notin gone
  <1> SUFFICES ASSUME q \in gone PROVE FALSE
    OBVIOUS
  <1>1. /\ q \in DOMAIN row /\ Home(q) = "generation_job"
        /\ "artifact_id" \in DOMAIN row[q].refs /\ row[q].refs.artifact_id = a
    BY DEF JobsOf, Of
  <1>2. q \in RowsHeldBy(gone, "CASCADE")
    BY <1>1, SweptIsSupported
  <1>3. PICK f \in catalog.table["generation_job"].fks :
            f.column \in DOMAIN row[q].refs /\ row[q].refs[f.column] \in gone
    BY <1>1, <1>2 DEF RowsHeldBy
  <1>4. /\ "generation_job" \in NamesAt(n) /\ IsEntry(row[q], q) /\ q \in DOMAIN Rows
        /\ a \in DOMAIN row /\ Home(a) = "artifact" /\ "artifact" \in NamesAt(n)
        /\ IsEntry(row[a], a)
    <2>1. a \in DOMAIN row /\ Home(a) = "artifact"
      BY DEF Of
    <2> QED BY <1>1, <2>1 DEF WrittenAt
  <1>5. f.column \in {"project_id", "artifact_id", "series_id"}
    <2>1. f \in FksAt(n, "generation_job")
      BY <1>3, <1>4 DEF PartsAt
    <2> QED BY <2>1, JobsAndArtifacts
  <1>6. "artifact_id" \in DOMAIN Rows[q].refs /\ Rows[q].refs.artifact_id = a
    BY <1>1, <1>4 DEF IsEntry
  <1>7. /\ "series_id" \notin DOMAIN Rows[q].refs
        /\ "project_id" \in DOMAIN Rows[q].refs /\ "project_id" \in DOMAIN Rows[a].refs
        /\ Rows[q].refs.project_id = Rows[a].refs.project_id
    BY <1>1, <1>4, <1>6, JobsAssumption
  <1>8. CASE f.column = "artifact_id"
    BY <1>1, <1>3, <1>8
  <1>9. CASE f.column = "series_id"
    BY <1>3, <1>4, <1>7, <1>9 DEF IsEntry
  <1>10. CASE f.column = "project_id"
    <2>1. PICK g \in FksAt(n, "artifact") : g.column = "project_id" /\ g.action = "CASCADE"
      <3>1. Fk("project_id", "video_project", "CASCADE") \in FksAt(n, "artifact")
        BY JobsAndArtifacts
      <3> QED BY <3>1 DEF Fk
    <2>2. g \in catalog.table[Home(a)].fks
      BY <1>4, <2>1 DEF PartsAt
    <2>3. "project_id" \notin catalog.table[Home(a)].nullable
      BY <1>4, JobsAndArtifacts DEF PartsAt
    <2>4. "project_id" \in DOMAIN row[a].refs
      BY <1>4, <2>1, <2>2, <2>3 DEF Sound, References
    <2>5. row[a].refs.project_id = Rows[a].refs.project_id
      BY <1>4, <2>4 DEF IsEntry
    <2>6. row[q].refs.project_id = Rows[q].refs.project_id
      BY <1>3, <1>4, <1>10 DEF IsEntry
    <2>7. row[a].refs[g.column] \in gone
      BY <1>3, <1>7, <1>10, <2>1, <2>5, <2>6
    <2>8. a \in RowsHeldBy(gone, "CASCADE")
      BY <1>4, <2>1, <2>2, <2>4, <2>7 DEF RowsHeldBy
    <2> QED BY <2>8 DEF Swept
  <1> QED BY <1>5, <1>8, <1>9, <1>10

(* A delete: the QUEUED job of an artifact that survives survives too.     *)
LEMMA DeleteStep == ASSUME NEW r \in DOMAIN row, DatabaseInv, Delete(r) PROVE DatabaseInv'
  <1>1. PICK n \in 0 .. 13 : n = revision
    BY DEF DatabaseInv, SchemaIsBuilt
  <1>2. PICK gone : gone = Doomed(r)
    OBVIOUS
  <1>3. /\ Home(r) \in Roots /\ row' = Left(gone)
        /\ Sound(catalog', row') /\ UNCHANGED <<world, revision, catalog>>
    BY <1>2 DEF Delete
  <1>4. SchemaIsBuilt' /\ world' \in Worlds /\ world' = world /\ PartsAt(catalog, n)
    BY <1>1, <1>3, SameSchema
  <1>5. WrittenAt(n, row) /\ DOMAIN row \subseteq world /\ Sound(catalog, row)
    BY <1>1 DEF DatabaseInv
  <1>6. Swept(gone, r)
    BY <1>2, WorldIsRows, DoomedAreSwept
  <1>7. PICK rows : rows = row'
    OBVIOUS
  <1>8. Thinned(rows, gone) /\ WrittenAt(n, rows)
    BY <1>3, <1>5, <1>7, LeftRows
  <1>9. DOMAIN rows = DOMAIN row \ gone /\ \A x \in DOMAIN rows : rows[x].vals = row[x].vals
    BY <1>8 DEF Thinned
  <1>10. n >= 6 => NoneParked(rows)
    BY <1>1, <1>9 DEF DatabaseInv, NoneParked, Parked, Of
  <1>11. ASSUME n >= 6 PROVE NoneStranded(rows)
    <2> SUFFICES ASSUME NEW a \in Of("artifact", rows), rows[a].vals.state = "GENERATING",
                        JobsOf(rows, a) # {}
                 PROVE  \E j \in JobsOf(rows, a) :
                            rows[j].vals.status = "QUEUED" /\ ~Parked(rows, j)
      BY DEF NoneStranded
    <2>1. a \in Of("artifact", row) /\ a \notin gone /\ row[a].vals.state = "GENERATING"
      BY <1>9 DEF Of
    <2>2. JobsOf(rows, a) \subseteq JobsOf(row, a)
      BY <1>8, <1>9 DEF Thinned, JobsOf, Of
    <2>3. PICK j \in JobsOf(row, a) : row[j].vals.status = "QUEUED" /\ ~Parked(row, j)
      <3>1. NoneStranded(row)
        BY <1>1, <1>11 DEF DatabaseInv
      <3> QED BY <2>1, <2>2, <3>1 DEF NoneStranded
    <2>4. j \notin gone
      <3>1. Home(r) # "generation_job"
        BY <1>3, RootsAssumption
      <3> QED BY <1>4, <1>5, <1>6, <2>1, <3>1, JobsStay
    <2>5. j \in DOMAIN row /\ Home(j) = "generation_job"
      BY DEF JobsOf, Of
    <2>6. n >= 2
      BY <1>11
    <2>7. Lost(j, gone) = {}
      BY <1>4, <1>5, <2>5, <2>6, JobsKeepRefs
    <2>8. j \in JobsOf(rows, a)
      <3>1. j \in Of("generation_job", rows)
        BY <1>9, <2>4, <2>5 DEF Of
      <3>2. /\ DOMAIN rows[j].refs = DOMAIN row[j].refs
            /\ \A column \in DOMAIN rows[j].refs : rows[j].refs[column] = row[j].refs[column]
        BY <1>8, <1>9, <2>4, <2>5, <2>7 DEF Thinned
      <3> QED BY <3>1, <3>2 DEF JobsOf
    <2>9. rows[j].vals = row[j].vals
      BY <1>9, <2>4, <2>5
    <2> QED BY <2>3, <2>8, <2>9 DEF Parked
  <1> QED BY <1>1, <1>3, <1>4, <1>5, <1>7, <1>8, <1>9, <1>10, <1>11 DEF DatabaseInv

(* Which rows a unique constraint is over, by what it reads of them.       *)
AmongVals(which, vals) ==
    CASE which = "all" -> TRUE
      [] which = "live" -> vals.status \notin Dead
      [] which = "approved" -> vals.status = "APPROVED"

(* Whether a constraint is over a row depends on its values alone.         *)
LEMMA SameAmong ==
    ASSUME NEW which, NEW rows, NEW others, NEW x, rows[x].vals = others[x].vals
    PROVE  Among(which, rows, x) = Among(which, others, x)
  <1>1. Among(which, rows, x) = AmongVals(which, rows[x].vals)
    BY DEF Among, AmongVals
  <1>2. Among(which, others, x) = AmongVals(which, others[x].vals)
    BY DEF Among, AmongVals
  <1> QED BY <1>1, <1>2

(* From revision 2 on a delete meets no refusal: no append-only table      *)
(* refers with SET NULL, what still refers to a row that goes goes too or  *)
(* lets go of a nullable column, and no key or check reads a column that   *)
(* is let go of.                                                           *)
LEMMA StillErasable ==
    ASSUME NEW n \in 0 .. 13, n >= 2, PartsAt(catalog, n), WrittenAt(n, row),
           Sound(catalog, row), NEW r, NEW gone, Swept(gone, r)
    PROVE  ~Refused(gone) /\ Sound(catalog, Left(gone))
  <1>1. ~Refused(gone)
    <2> SUFFICES ASSUME NEW t \in catalog.trigger, NEW f \in catalog.table[t].fks,
                        f.action = "SET_NULL"
                 PROVE  FALSE
      BY DEF Refused
    <2>1. t \in GuardedAt(n) /\ t \in NamesAt(n)
      BY GuardedTables DEF PartsAt
    <2>2. f \in FksAt(n, t)
      BY <2>1 DEF PartsAt
    <2>3. LetGo(t, f.column)
      BY <2>1, <2>2, FksAreLawful DEF Lawful
    <2> QED BY <2>1, <2>3, LetGoSafely
  <1>2. PICK rows : rows = Left(gone)
    OBVIOUS
  <1>3. Thinned(rows, gone)
    BY <1>2, LeftRows
  <1>4. ASSUME NEW x \in DOMAIN rows
        PROVE  /\ x \in DOMAIN row /\ x \notin gone /\ Home(x) \in NamesAt(n)
               /\ rows[x].vals = row[x].vals
               /\ DOMAIN rows[x].refs = DOMAIN row[x].refs \ Lost(x, gone)
               /\ \A column \in DOMAIN rows[x].refs : rows[x].refs[column] = row[x].refs[column]
    BY <1>3 DEF Thinned, WrittenAt
  <1>5. ASSUME NEW x \in DOMAIN rows, NEW column \in Lost(x, gone)
        PROVE  /\ column \in catalog.table[Home(x)].nullable
               /\ \A u \in catalog.table[Home(x)].uniques : column \notin u.columns
    <2>1. LetGo(Home(x), column)
      BY <1>4, <1>5, LostIsLetGo
    <2>2. /\ column \in NullableAt(n, Home(x))
          /\ \A u \in UniquesAt(n, Home(x)) : column \notin u.columns
      BY <1>4, <2>1, LetGoSafely
    <2> QED BY <1>4, <2>2 DEF PartsAt
  <1>6. References(catalog, rows)
    <2> SUFFICES ASSUME NEW x \in DOMAIN rows, NEW f \in catalog.table[Home(x)].fks
                 PROVE  /\ f.column \in DOMAIN rows[x].refs =>
                              rows[x].refs[f.column] \in DOMAIN rows
                        /\ f.column \in DOMAIN rows[x].refs \cup catalog.table[Home(x)].nullable
      BY DEF References
    <2>1. /\ f.column \in DOMAIN row[x].refs => row[x].refs[f.column] \in DOMAIN row
          /\ f.column \in DOMAIN row[x].refs \cup catalog.table[Home(x)].nullable
      BY <1>4 DEF Sound, References
    <2>2. ASSUME f.column \in DOMAIN rows[x].refs
          PROVE  rows[x].refs[f.column] \in DOMAIN rows
      <3>1. f.column \in DOMAIN row[x].refs /\ f.column \notin Lost(x, gone)
        BY <1>4, <2>2
      <3>2. rows[x].refs[f.column] = row[x].refs[f.column]
        BY <1>4, <2>2
      <3>3. row[x].refs[f.column] \notin gone
        <4> SUFFICES ASSUME row[x].refs[f.column] \in gone PROVE FALSE
          OBVIOUS
        <4>1. f.action # "SET_NULL"
          BY <3>1 DEF Lost
        <4>2. Lawful(n, Home(x), f)
          <5>1. f \in FksAt(n, Home(x))
            BY <1>4 DEF PartsAt
          <5> QED BY <1>4, <5>1, FksAreLawful
        <4>3. f.action = "CASCADE"
          BY <4>1, <4>2 DEF Lawful
        <4>4. x \in RowsHeldBy(gone, "CASCADE")
          BY <1>4, <3>1, <4>3 DEF RowsHeldBy
        <4> QED BY <1>4, <4>4 DEF Swept
      <3> QED BY <1>3, <2>1, <3>1, <3>2, <3>3 DEF Thinned
    <2>3. f.column \in DOMAIN rows[x].refs \cup catalog.table[Home(x)].nullable
      BY <1>4, <1>5, <2>1
    <2> QED BY <2>2, <2>3
  <1>7. Keys(catalog, rows)
    <2> SUFFICES ASSUME NEW x \in DOMAIN rows, NEW y \in DOMAIN rows, x # y, Home(x) = Home(y),
                        NEW u \in catalog.table[Home(x)].uniques, Clash(u, rows, x, y)
                 PROVE  FALSE
      BY DEF Keys
    <2>1. ASSUME NEW z \in {x, y}, NEW column \in u.columns
          PROVE  Value(rows, z, column) = Value(row, z, column)
      <3>1. z \in DOMAIN rows /\ Home(z) = Home(x)
        OBVIOUS
      <3>2. column \notin Lost(z, gone)
        BY <1>5, <2>1, <3>1
      <3>3. /\ column \in DOMAIN rows[z].refs <=> column \in DOMAIN row[z].refs
            /\ column \in DOMAIN rows[z].refs => rows[z].refs[column] = row[z].refs[column]
            /\ rows[z].vals = row[z].vals
        BY <1>4, <3>1, <3>2
      <3> QED BY <3>3 DEF Value
    <2>2. ASSUME NEW z \in {x, y}
          PROVE  Among(u.among, rows, z) = Among(u.among, row, z)
      <3>1. rows[z].vals = row[z].vals
        BY <1>4
      <3> QED BY <3>1, SameAmong
    <2>3. Among(u.among, row, x) /\ Among(u.among, row, y)
      <3>1. Among(u.among, rows, x) /\ Among(u.among, rows, y)
        BY DEF Clash
      <3>2. /\ Among(u.among, rows, x) = Among(u.among, row, x)
            /\ Among(u.among, rows, y) = Among(u.among, row, y)
        BY <2>2
      <3> QED BY <3>1, <3>2
    <2>4. ASSUME NEW column \in u.columns
          PROVE  /\ Value(row, x, column) = Value(row, y, column)
                 /\ u.nulls = "equal" \/ Value(row, x, column) # Null
      <3>1. /\ Value(rows, x, column) = Value(rows, y, column)
            /\ u.nulls = "equal" \/ Value(rows, x, column) # Null
        BY <2>4 DEF Clash
      <3>2. /\ Value(rows, x, column) = Value(row, x, column)
            /\ Value(rows, y, column) = Value(row, y, column)
        BY <2>1, <2>4
      <3> QED BY <3>1, <3>2
    <2>5. Clash(u, row, x, y)
      BY <2>3, <2>4 DEF Clash
    <2> QED BY <1>4, <2>5 DEF Sound, Keys
  <1>8. "generation_job" \in DOMAIN catalog.table => Scope(catalog, rows)
    <2> SUFFICES ASSUME "generation_job" \in DOMAIN catalog.table,
                        "scope" \in catalog.table["generation_job"].checks,
                        NEW j \in Of("generation_job", rows)
                 PROVE  ("project_id" \in DOMAIN rows[j].refs) #
                        ("series_id" \in DOMAIN rows[j].refs)
      BY DEF Scope
    <2>1. j \in DOMAIN rows /\ Home(j) = "generation_job"
      BY DEF Of
    <2>2. Lost(j, gone) = {}
      BY <1>4, <2>1, JobsKeepRefs
    <2>3. DOMAIN rows[j].refs = DOMAIN row[j].refs
      BY <1>4, <2>1, <2>2
    <2>4. j \in Of("generation_job", row)
      BY <1>4, <2>1 DEF Of
    <2>5. ("project_id" \in DOMAIN row[j].refs) # ("series_id" \in DOMAIN row[j].refs)
      BY <2>4 DEF Sound, Scope
    <2> QED BY <2>3, <2>5
  <1> QED BY <1>1, <1>2, <1>6, <1>7, <1>8 DEF Sound

(* What a delete takes belongs to the root it started from.                *)
Belongs(x, r) == x = r \/ r \in Rows[x].under

(* The rows under r are closed under the cascade, so the cascade from r    *)
(* stays within them.                                                      *)
LEMMA SweptBelong ==
    ASSUME NEW n \in 0 .. 13, PartsAt(catalog, n), WrittenAt(n, row),
           NEW r, Home(r) \in Roots, NEW gone, Swept(gone, r)
    PROVE  \A x \in gone : Belongs(x, r)
  <1> DEFINE S == {x \in DOMAIN row : Belongs(x, r)}
  <1>1. S \in SUBSET DOMAIN row /\ r \in S
    BY DEF Swept, Belongs
  <1>2. ASSUME NEW x \in RowsHeldBy(S, "CASCADE") PROVE x \in S
    <2>1. PICK f \in catalog.table[Home(x)].fks :
              /\ f.action = "CASCADE" /\ f.column \in DOMAIN row[x].refs
              /\ row[x].refs[f.column] \in S
      BY <1>2 DEF RowsHeldBy
    <2>2. /\ x \in DOMAIN row /\ x \in DOMAIN Rows /\ Home(x) \in NamesAt(n)
          /\ IsEntry(row[x], x)
      BY <1>2 DEF RowsHeldBy, WrittenAt
    <2>3. Lawful(n, Home(x), f)
      <3>1. f \in FksAt(n, Home(x))
        BY <2>1, <2>2 DEF PartsAt
      <3> QED BY <2>2, <3>1, FksAreLawful
    <2>4. PICK y : y = row[x].refs[f.column]
      OBVIOUS
    <2>5. f.column \in DOMAIN Rows[x].refs /\ Rows[x].refs[f.column] = y
      BY <2>1, <2>2, <2>4 DEF IsEntry
    <2>6. f.column \in Owning[Home(x)]
      BY <2>1, <2>3 DEF Lawful
    <2>7. y \in Owners(x)
      BY <2>5, <2>6 DEF Owners
    <2>8. y \in DOMAIN row /\ Belongs(y, r)
      BY <2>1, <2>4
    <2>9. Rows[x].under =
              {z \in Owners(x) : Home(z) \in Roots} \cup UNION {Rows[z].under : z \in Owners(x)}
      BY <2>2, RowsAssumption
    <2>10. r \in Rows[x].under
      <3>1. CASE y = r
        BY <2>7, <2>9, <3>1
      <3>2. CASE r \in Rows[y].under
        BY <2>7, <2>9, <3>2
      <3> QED BY <2>8, <3>1, <3>2 DEF Belongs
    <2> QED BY <2>2, <2>10 DEF Belongs
  <1>3. gone \subseteq S
    <2>1. RowsHeldBy(S, "CASCADE") \subseteq S
      BY <1>2
    <2> HIDE DEF S
    <2> QED BY <1>1, <2>1 DEF Swept
  <1> QED BY <1>3

(* Every step of the database keeps the invariant.                         *)
LEMMA NextDatabase == DatabaseInv /\ [SchemaNext]_database => DatabaseInv'
  <1> SUFFICES ASSUME DatabaseInv, [SchemaNext]_database PROVE DatabaseInv'
    OBVIOUS
  <1>1. CASE Upgrade
    BY <1>1, UpgradeStep
  <1>2. CASE Downgrade
    BY <1>2, DowngradeStep
  <1>3. ASSUME NEW r \in world, Insert(r) PROVE DatabaseInv'
    BY <1>3, InsertStep
  <1>4. ASSUME NEW u \in Updates, Update(u) PROVE DatabaseInv'
    BY <1>4, UpdateStep
  <1>5. ASSUME NEW r \in DOMAIN row, JobFails(r) PROVE DatabaseInv'
    BY <1>5, JobFailsStep
  <1>6. ASSUME NEW r \in DOMAIN row, Delete(r) PROVE DatabaseInv'
    BY <1>6, DeleteStep
  <1>7. ASSUME NEW a \in DOMAIN row, NEW j \in world, Retry(a, j) PROVE DatabaseInv'
    BY <1>7, RetryStep
  <1>8. CASE UNCHANGED database
    BY <1>8 DEF database, DatabaseInv, SchemaIsBuilt
  <1> QED BY <1>1, <1>2, <1>3, <1>4, <1>5, <1>6, <1>7, <1>8 DEF SchemaNext

(* However the database is migrated, written, failed, retried and erased,  *)
(* in any order and any number of times, the invariant holds.              *)
THEOREM DatabaseInvariant == SchemaSpec => []DatabaseInv
  <1> QED BY InitDatabase, NextDatabase, PTL DEF SchemaSpec

(* What the invariant says of the properties.                              *)
LEMMA InvRoundTrip == DatabaseInv => RoundTrip
  <1> SUFFICES ASSUME DatabaseInv PROVE RoundTrip
    OBVIOUS
  <1>1. PICK n \in 0 .. 13 : n = revision
    BY DEF DatabaseInv, SchemaIsBuilt
  <1>2. PICK c : c = catalog
    OBVIOUS
  <1>3. PICK types : types = c.type
    OBVIOUS
  <1>4. IsAt(c, n, types) /\ IsTyped(types, n)
    BY <1>1, <1>2, <1>3 DEF DatabaseInv, SchemaIsBuilt
  <1> QED BY <1>1, <1>2, <1>4, AsBuilt DEF RoundTrip

LEMMA InvModels == DatabaseInv => ModelsMatchSchema
  <1> SUFFICES ASSUME DatabaseInv, revision = 13
               PROVE  /\ catalog.table = M!Tables
                      /\ catalog.trigger = M!IMMUTABLE_TABLES
                      /\ catalog.type = M!EnumTypes
    BY DEF ModelsMatchSchema, HeadRevision
  <1>1. PICK c : c = catalog
    OBVIOUS
  <1>2. PICK types : types = c.type
    OBVIOUS
  <1>3. IsAt(c, 13, types) /\ IsTyped(types, 13)
    BY <1>1, <1>2 DEF DatabaseInv, SchemaIsBuilt
  <1> QED BY <1>1, <1>3, HeadIsTheModels

LEMMA InvErasable == DatabaseInv => AlwaysErasable
  <1> SUFFICES ASSUME DatabaseInv, revision >= 2, NEW r \in DOMAIN row, Home(r) \in Roots
               PROVE  ~Refused(Doomed(r)) /\ Sound(catalog, Left(Doomed(r)))
    BY DEF AlwaysErasable
  <1>1. PICK n \in 0 .. 13 : n = revision
    BY DEF DatabaseInv, SchemaIsBuilt
  <1>2. n >= 2 /\ PartsAt(catalog, n) /\ WrittenAt(n, row) /\ Sound(catalog, row)
    BY <1>1, Parts DEF DatabaseInv, SchemaIsBuilt
  <1>3. PICK gone : gone = Doomed(r)
    OBVIOUS
  <1>4. Swept(gone, r)
    BY <1>3, WorldIsRows, DoomedAreSwept
  <1> QED BY <1>2, <1>3, <1>4, StillErasable

LEMMA InvNothingIsStranded == DatabaseInv => NothingIsStranded
  BY DEF DatabaseInv, NothingIsStranded, NoneStranded

(* What DeletesAreContained says of one step.                              *)
Contained ==
    revision' = revision =>
        LET gone == DOMAIN row \ DOMAIN row' IN
        \A x \in gone : \E root \in gone :
            Home(root) \in Roots /\ (x = root \/ root \in Rows[x].under)

(* No step but a migration and a delete takes a row, and a delete takes    *)
(* what is under its root.                                                 *)
LEMMA NextContained == DatabaseInv /\ [SchemaNext]_database => Contained
  <1> SUFFICES ASSUME DatabaseInv, [SchemaNext]_database PROVE Contained
    OBVIOUS
  <1>0. revision \in 0 .. 13
    BY DEF DatabaseInv, SchemaIsBuilt
  <1>1. ASSUME DOMAIN row \subseteq DOMAIN row' PROVE Contained
    BY <1>1 DEF Contained
  <1>2. CASE Upgrade
    <2>1. revision' = revision + 1
      BY <1>2 DEF Upgrade, MigrateTo
    <2> QED BY <1>0, <2>1 DEF Contained
  <1>3. CASE Downgrade
    <2>1. revision' = revision - 1
      BY <1>3 DEF Downgrade, MigrateTo
    <2> QED BY <1>0, <2>1 DEF Contained
  <1>4. ASSUME NEW r \in world, Insert(r) PROVE Contained
    <2>1. Grown(row', r, row)
      BY <1>4, WrittenIs DEF Insert
    <2> QED BY <1>1, <2>1 DEF Grown
  <1>5. ASSUME NEW u \in Updates, Update(u) PROVE Contained
    <2>1. DOMAIN row' = DOMAIN row
      BY <1>5 DEF Update
    <2> QED BY <1>1, <2>1
  <1>6. ASSUME NEW r \in DOMAIN row, JobFails(r) PROVE Contained
    <2>1. DOMAIN row' = DOMAIN row
      BY <1>6 DEF JobFails
    <2> QED BY <1>1, <2>1
  <1>7. ASSUME NEW r \in DOMAIN row, Delete(r) PROVE Contained
    <2>1. PICK n \in 0 .. 13 : n = revision
      BY <1>0
    <2>2. PartsAt(catalog, n) /\ WrittenAt(n, row)
      BY <2>1, Parts DEF DatabaseInv, SchemaIsBuilt
    <2>3. PICK gone : gone = Doomed(r)
      OBVIOUS
    <2>4. Swept(gone, r)
      BY <2>3, WorldIsRows, DoomedAreSwept
    <2>5. Home(r) \in Roots /\ DOMAIN row' = DOMAIN row \ gone
      BY <1>7, <2>3 DEF Delete, Left
    <2>6. \A x \in gone : Belongs(x, r)
      BY <2>2, <2>4, <2>5, SweptBelong
    <2>7. DOMAIN row \ DOMAIN row' = gone /\ r \in gone
      BY <2>4, <2>5 DEF Swept
    <2> QED BY <2>5, <2>6, <2>7 DEF Contained, Belongs
  <1>8. ASSUME NEW a \in DOMAIN row, NEW j \in world, Retry(a, j) PROVE Contained
    <2>1. PICK rows : rows = [row EXCEPT ![a].vals.state = "GENERATING"]
      OBVIOUS
    <2>2. DOMAIN rows = DOMAIN row /\ row' = Written(j, rows)
      BY <1>8, <2>1 DEF Retry
    <2>3. Grown(row', j, rows)
      BY <2>2, WrittenIs
    <2> QED BY <1>1, <2>2, <2>3 DEF Grown
  <1>9. CASE UNCHANGED database
    BY <1>1, <1>9 DEF database
  <1> QED BY <1>2, <1>3, <1>4, <1>5, <1>6, <1>7, <1>8, <1>9 DEF SchemaNext

(* Every downgrade() of the chain undoes its upgrade(): after any history  *)
(* of migrations the tables, triggers, views and types at a revision are   *)
(* those a fresh database has there, and only enum labels are left behind. *)
THEOREM MigrationsRoundTrip == SchemaSpec => []RoundTrip
  BY DatabaseInvariant, InvRoundTrip, PTL

(* At the head of the chain the database is what the SQLAlchemy models     *)
(* declare, after every history of migrations                              *)
(* (test_models_match_migrations checks it after one upgrade of an empty   *)
(* database).                                                              *)
THEOREM HeadIsModels == SchemaSpec => []ModelsMatchSchema
  BY DatabaseInvariant, InvModels, PTL

(* From 83fa1410a747 on, every DELETE of a workspace, user, series or      *)
(* project goes through, whatever rows there are: no cascade is refused by *)
(* an append-only trigger, a reference, a key or a check.                  *)
THEOREM EverythingIsErasable == SchemaSpec => []AlwaysErasable
  BY DatabaseInvariant, InvErasable, PTL

(* From 82d7b9b94a67 on, an artifact in GENERATING that has jobs has one   *)
(* still to run: the worker fails job and artifact together, a retry       *)
(* brings its job along, and no delete or downgrade parts them.            *)
THEOREM NoArtifactIsStranded == SchemaSpec => []NothingIsStranded
  BY DatabaseInvariant, InvNothingIsStranded, PTL

(* A DELETE takes the row it names and what belongs to it along owning     *)
(* references, and nothing else; no other statement takes a row.           *)
THEOREM DeletesTakeTheirOwn == SchemaSpec => DeletesAreContained
  <1>1. DatabaseInv /\ [SchemaNext]_database => [Contained]_database
    BY NextContained
  <1>2. SchemaSpec => [][Contained]_database
    BY DatabaseInvariant, <1>1, PTL DEF SchemaSpec
  <1> QED BY <1>2 DEF DeletesAreContained, Contained
=============================================================================
