---------------------------- MODULE ReviewProofs ----------------------------
(***************************************************************************)
(* Theorems about Review, for every pipeline that loads, any artifacts and *)
(* policies, any number of transactions, versions and decisions.  The last *)
(* two are about operations that do not overlap: they are what admission   *)
(* and the dashboard rely on, and false without it (README, section 5).    *)
(***************************************************************************)
EXTENDS Review, WellFoundedInduction, TLAPS

(* What an open transaction still relies on when it commits.               *)
TxnOK(t) ==
    /\ t.op \in {"approve", "reject"} =>
          t.version \in 1..current_version_no[t.artifact] /\ t.seen = "AWAITING_APPROVAL"
    /\ t.op = "generate" => t.seen = "GENERATING"
    /\ t.refreshed => t.derived \in Phase
    /\ t.refreshed /\ t.op \in {"edit", "generate"} =>
          current_version_no[t.artifact] < MaxVersion[t.artifact]
    /\ t.refreshed /\ t.op = "approve" =>
          /\ t.cascade \subseteq Downstream(t.artifact)
          /\ Downstream(t.artifact) \cap DOMAIN approved_since \subseteq t.cascade

TransactionsAreGuarded == \A s \in Open : TxnOK(txn[s])

(* The locks of the first UPDATEs have one holder until it commits.        *)
LocksAreExclusive ==
    \A s, r \in Open :
        s # r /\ txn[s].refreshed /\ txn[r].refreshed =>
            EarlyLocks(txn[s]) \cap EarlyLocks(txn[r]) = {}

(* Nobody has decided on a version that does not exist yet. *)
UndecidedAhead ==
    \A a \in Artifact : \A n \in Versions(a) :
        n > current_version_no[a] => latest_decision[a][n].kind = "NONE"

(* An artifact that waits for a decision has a newest version without one. *)
AwaitingIsUndecided ==
    \A a \in Artifact : state[a] = "AWAITING_APPROVAL" =>
        /\ current_version_no[a] > 0
        /\ latest_decision[a][current_version_no[a]].kind = "NONE"

ApprovedArePresent == DOMAIN approved_since \subseteq Present

IInv ==
    /\ TypeOK
    /\ TransactionsAreGuarded
    /\ LocksAreExclusive
    /\ UndecidedAhead
    /\ AwaitingIsUndecided
    /\ ApprovedArePresent
    /\ StaleMeansOutdated

(* Operations that do not overlap. *)
OneAtATime == \A s, r \in Session : s = r

(* What an open transaction has read is still so, and its now() is later   *)
(* than every decision.                                                    *)
NothingMoved(t) ==
    /\ t.seen = state[t.artifact]
    /\ t.phase = phase \/ (t.phase = NoPhase /\ ~t.refreshed)
    /\ \A b \in DOMAIN t.rows : t.rows[b] = state[b]
    /\ t.refreshed => t.derived = PhaseOf(Held(t))
    /\ Deciding(t.op, t.artifact) =>
          \A a \in Artifact : \A n \in Versions(a) : latest_decision[a][n].at < t.at

SerialInv ==
    /\ OneAtATime
    /\ IInv
    /\ \A s \in Open : NothingMoved(txn[s])
    /\ PointerFollowsView
    /\ PhaseIsCurrent

-----------------------------------------------------------------------------
(* The lifecycle table, as this module needs it.                           *)

LEMMA ArtifactTargets ==
    /\ Target("APPROVED") = "APPROVED"
    /\ Target("REJECTED") = "REJECTED"
    /\ Target("HUMAN_EDITED") = "AWAITING_APPROVAL"
    /\ Target("REGENERATE_REQUESTED") = "GENERATING"
    /\ Target("GENERATION_SUCCEEDED") = "AWAITING_APPROVAL"
    /\ Target("GENERATION_FAILED") = "FAILED"
  BY DEF Target, ArtifactTable

LEMMA ArtifactSources ==
    ASSUME NEW x
    PROVE  /\ MayApply("APPROVED", x) => x = "AWAITING_APPROVAL"
           /\ MayApply("REJECTED", x) => x = "AWAITING_APPROVAL"
           /\ MayApply("GENERATION_SUCCEEDED", x) => x = "GENERATING"
           /\ MayApply("GENERATION_FAILED", x) => x = "GENERATING"
  BY DEF MayApply, ArtifactTable

(* Where an operation takes its artifact. *)
LEMMA Outcomes ==
    ASSUME NEW t, t.op \in Operation
    PROVE  /\ Outcome(t) \in ArtifactState
           /\ t.op = "approve" => Outcome(t) = "APPROVED"
           /\ t.op = "reject" => Outcome(t) = "REJECTED"
           /\ t.op = "edit" => Outcome(t) = "AWAITING_APPROVAL"
           /\ t.op = "request" => Outcome(t) = "GENERATING"
           /\ t.op = "fail" => Outcome(t) = "FAILED"
           /\ t.op = "generate" =>
                Outcome(t) = IF t.artifact \in AutoApproved THEN "APPROVED"
                             ELSE "AWAITING_APPROVAL"
<1>1. /\ Event["approve"] = "APPROVED" /\ Event["reject"] = "REJECTED"
      /\ Event["edit"] = "HUMAN_EDITED" /\ Event["request"] = "REGENERATE_REQUESTED"
      /\ Event["generate"] = "GENERATION_SUCCEEDED" /\ Event["fail"] = "GENERATION_FAILED"
  BY DEF Event
<1>2. CASE t.op = "generate"
  BY <1>1, <1>2, ArtifactTargets DEF Outcome, ArtifactState
<1>3. CASE t.op \in Operation \ {"generate"}
  BY <1>1, <1>3, ArtifactTargets DEF Outcome, ArtifactState, Operation
<1> QED
  BY <1>2, <1>3

-----------------------------------------------------------------------------
(* Instants, approvals and the view.                                       *)

(* A bounded set of numbers has a greatest one. *)
LEMMA Greatest ==
    ASSUME NEW m \in Nat, NEW S \in SUBSET (0..m), S # {}
    PROVE  \E x \in S : \A y \in S : y <= x
<1> DEFINE Left == {m - x : x \in S}
           Less == {pair \in Nat \X Nat : pair[1] < pair[2]}
<1>1. Left \subseteq Nat /\ Left # {}
  <2>1. \A x \in S : m - x \in Nat
    OBVIOUS
  <2> QED
    BY <2>1
<1>2. IsWellFoundedOn(Less, Nat)
  BY NatLessThanWellFounded, Zenon DEF OpToRel
<1> HIDE DEF Less
<1>3. \E n \in Left : \A k \in Left : ~(<<k, n>> \in Less)
  <2> HIDE DEF Left
  <2> QED
    BY <1>1, <1>2, WFMin, Zenon
<1>4. PICK n \in Left : \A k \in Left : ~(<<k, n>> \in Less)
  BY <1>3
<1>5. PICK x \in S : n = m - x
  BY <1>4
<1>6. ASSUME NEW y \in S PROVE y <= x
  <2>1. m - y \in Left /\ m - y \in Nat /\ n \in Nat
    BY <1>1, <1>4
  <2>2. ~(m - y < n)
    BY <1>4, <2>1 DEF Less
  <2> QED
    BY <1>5, <2>1, <2>2
<1> QED
  BY <1>6

(* now() is later than whatever happened or started before. *)
LEMMA NowIsLater ==
    ASSUME TypeOK
    PROVE  /\ Now \in Nat /\ Now > 0
           /\ \A a \in Artifact : \A n \in Versions(a) : latest_decision[a][n].at < Now
<1> DEFINE decided(a) == {latest_decision[a][n].at : n \in Versions(a)}
           started == {txn[s].at : s \in Open}
<1>1. \A a \in Artifact : decided(a) \subseteq 0..MaxDecision
  BY DEF TypeOK, Decision
<1>2. started \subseteq 0..MaxDecision
  BY DEF TypeOK, Open, Txn
<1>3. \A a \in Artifact : decided(a) \subseteq Instants
  BY DEF Instants
<1>4. Instants = {0} \cup (UNION {decided(a) : a \in Artifact}) \cup started
  BY DEF Instants
<1>5. \A a \in Artifact : \A n \in Versions(a) : latest_decision[a][n].at \in Instants
  BY <1>3
<1> HIDE DEF decided, started
<1>6. Instants \in SUBSET (0..MaxDecision) /\ Instants # {}
  <2>1. 0 \in 0..MaxDecision
    BY ReviewAssumption
  <2>2. 0 \in Instants
    BY <1>4, Zenon
  <2>3. ASSUME NEW u \in Instants PROVE u \in 0..MaxDecision
    <3>1. u = 0 \/ u \in started \/ \E a \in Artifact : u \in decided(a)
      BY <1>4, Zenon
    <3> QED
      BY <1>1, <1>2, <2>1, <3>1
  <2> QED
    BY <2>2, <2>3
<1>7. \E x \in Instants : \A y \in Instants : y <= x
  BY <1>6, Greatest, ReviewAssumption
<1> DEFINE last == CHOOSE t \in Instants : \A u \in Instants : u <= t
<1>8. last \in Instants /\ \A u \in Instants : u <= last
  BY <1>7
<1>9. Now = 1 + last
  BY DEF Now
<1> HIDE DEF last
<1>10. Now \in Nat /\ Now > 0 /\ \A u \in Instants : u < Now
  BY <1>6, <1>8, <1>9
<1> QED
  BY <1>5, <1>10

(* The view's approved version is one that has been approved. *)
LEMMA ApprovedIsApproving ==
    ASSUME TypeOK, NEW a \in Artifact, Approving(a) # {}
    PROVE  /\ ApprovedVersion(a) \in Approving(a)
           /\ \A m \in Approving(a) :
                 latest_decision[a][m].at <= latest_decision[a][ApprovedVersion(a)].at
<1> DEFINE at(n) == latest_decision[a][n].at
           Times == {at(n) : n \in Approving(a)}
<1>1. \A n \in Approving(a) : n \in Versions(a)
  BY ReviewAssumption DEF TypeOK, Approving, Versions
<1>2. \A n \in Approving(a) : at(n) \in 0..MaxDecision
  BY <1>1 DEF TypeOK, Decision
<1> HIDE DEF at
<1>3. Times \in SUBSET (0..MaxDecision) /\ Times # {}
  BY <1>2
<1>4. PICK x \in Times : \A y \in Times : y <= x
  BY <1>3, Greatest, ReviewAssumption
<1>5. PICK n \in Approving(a) : x = at(n)
  BY <1>4
<1>6. \A m \in Approving(a) : at(m) <= at(n)
  BY <1>4, <1>5
<1> QED
  BY <1>5, <1>6 DEF ApprovedVersion, at

(* A version nobody has decided on, with none after it, awaits a decision. *)
LEMMA UndecidedAwaits ==
    ASSUME TypeOK, NEW a \in Artifact, current_version_no[a] > 0,
           latest_decision[a][current_version_no[a]].kind = "NONE"
    PROVE  VersionStatus(a, current_version_no[a]) = "AWAITING_APPROVAL"
<1> DEFINE n == current_version_no[a]
           approved == ApprovedVersion(a)
<1>1. n \in Nat /\ n > 0 /\ n \notin Approving(a)
  BY DEF TypeOK, Approving
<1>2. approved \in Nat /\ approved < n
  <2>1. CASE Approving(a) = {}
    BY <1>1, <2>1 DEF ApprovedVersion
  <2>2. CASE Approving(a) # {}
    <3>1. approved \in Approving(a)
      BY <2>2, ApprovedIsApproving
    <3> QED
      BY <1>1, <3>1 DEF Approving
  <2> QED
    BY <2>1, <2>2
<1> HIDE DEF approved
<1> QED
  BY <1>1, <1>2 DEF VersionStatus, approved

-----------------------------------------------------------------------------
(* The pipeline and the phase.                                             *)

(* An approval does not make its own artifact stale: the stages behind k   *)
(* come after it in the order, so they are closed without it.              *)
LEMMA NothingDescendsFromItself ==
    ASSUME NEW k \in Kind
    PROVE  k \notin Descendants(Requires, k)
<1>1. PICK i \in DOMAIN Order : k = Order[i]
  BY ReviewAssumption
<1> DEFINE behind == {Order[j] : j \in {n \in DOMAIN Order : n > i}}
<1>2. behind \in SUBSET DOMAIN Requires
  BY ReviewAssumption
<1>3. ASSUME NEW n \in DOMAIN Order, n >= i, NEW c \in Dependents(Requires, Order[n])
      PROVE  c \in behind
  <2>1. c \in Kind /\ Order[n] \in Requires[c]
    BY <1>3, ReviewAssumption DEF Dependents
  <2>2. PICK m \in DOMAIN Order : c = Order[m]
    BY <2>1, ReviewAssumption
  <2>3. Order[n] \in {Order[j] : j \in 1..(m - 1)}
    BY <2>1, <2>2, ReviewAssumption
  <2>4. PICK j \in 1..(m - 1) : Order[n] = Order[j]
    BY <2>3
  <2>5. m \in Nat /\ n \in Nat /\ i \in Nat /\ j \in DOMAIN Order
    BY <2>4, ReviewAssumption
  <2>6. n = j
    BY <2>4, <2>5, ReviewAssumption
  <2>7. m > i
    BY <1>3, <2>4, <2>5, <2>6
  <2> QED
    BY <2>2, <2>7
<1>4. IsClosed(Requires, behind)
  <2>1. ASSUME NEW d \in behind PROVE Dependents(Requires, d) \subseteq behind
    <3>1. PICK n \in DOMAIN Order : n > i /\ d = Order[n]
      OBVIOUS
    <3>2. n >= i
      BY <3>1, ReviewAssumption
    <3> QED
      BY <1>3, <3>1, <3>2
  <2> QED
    BY <2>1 DEF IsClosed
<1>5. Dependents(Requires, k) \subseteq behind
  <2>1. i >= i
    BY ReviewAssumption
  <2> QED
    BY <1>1, <1>3, <2>1
<1>6. k \notin behind
  <2>1. ASSUME NEW n \in DOMAIN Order, n > i PROVE k # Order[n]
    BY <1>1, <2>1, ReviewAssumption
  <2> QED
    BY <2>1
<1> HIDE DEF behind
<1> QED
  BY <1>2, <1>4, <1>5, <1>6 DEF Descendants

LEMMA NotDownstreamOfItself ==
    ASSUME NEW a \in Artifact
    PROVE  a \notin Downstream(a)
  BY NothingDescendsFromItself, ReviewAssumption DEF Downstream

(* The first stage of a set of stages is one of them. *)
LEMMA FirstIsIn ==
    ASSUME NEW S \in SUBSET Kind, S # {}
    PROVE  FirstIn(Order, S) \in S
<1> DEFINE Less == {pair \in Nat \X Nat : pair[1] < pair[2]}
           places == {i \in DOMAIN Order : Order[i] \in S}
<1>1. places \subseteq Nat /\ places # {}
  BY ReviewAssumption
<1>2. IsWellFoundedOn(Less, Nat)
  BY NatLessThanWellFounded, Zenon DEF OpToRel
<1> HIDE DEF Less
<1>3. \E i \in places : \A j \in places : ~(<<j, i>> \in Less)
  <2> HIDE DEF places
  <2> QED
    BY <1>1, <1>2, WFMin, Zenon
<1>4. PICK i \in places : \A j \in places : ~(<<j, i>> \in Less)
  BY <1>3
<1>5. \A j \in 1..(i - 1) : Order[j] \notin S
  <2>1. ASSUME NEW j \in 1..(i - 1) PROVE Order[j] \notin S
    <3>1. j \in DOMAIN Order /\ j < i /\ j \in Nat /\ i \in Nat
      BY <1>1, ReviewAssumption
    <3> QED
      BY <1>4, <3>1 DEF Less
  <2> QED
    BY <2>1
<1>6. i \in DOMAIN Order /\ Order[i] \in S
  OBVIOUS
<1> HIDE DEF places
<1> QED
  BY <1>5, <1>6 DEF FirstIn

(* What recompute_phase derives is a phase of the project. *)
LEMMA PhaseIsOne ==
    ASSUME NEW read, DOMAIN read \subseteq Artifact
    PROVE  PhaseOf(read) \in Phase
<1> DEFINE states == Collapse(read)
           generating == {k \in Kind \cap DOMAIN states : states[k] = "GENERATING"}
           unfinished == {k \in Kind : k \in DOMAIN states => states[k] # "APPROVED"}
           derived == DerivePhase(Order, states)
<1>0. DOMAIN states \subseteq Kind
  BY ReviewAssumption DEF Collapse
<1>1. {Order[i] : i \in DOMAIN Order} = Kind
  BY ReviewAssumption
<1>2. derived = Draft \/ \E k \in Kind : \E which \in {"generating", "review"} :
                             derived = <<k, which>>
  <2> HIDE DEF states
  <2>1. CASE DOMAIN states = {}
    BY <2>1 DEF DerivePhase
  <2>2. CASE DOMAIN states # {} /\ generating # {}
    <3>1. FirstIn(Order, generating) \in Kind
      BY <2>2, FirstIsIn
    <3>2. derived = <<FirstIn(Order, generating), "generating">>
      BY <1>1, <2>2 DEF DerivePhase
    <3> QED
      BY <3>1, <3>2
  <2>3. CASE DOMAIN states # {} /\ generating = {} /\ unfinished = {}
    <3>1. derived = <<Order[Len(Order)], "review">>
      BY <1>1, <2>3 DEF DerivePhase
    <3>2. Order # <<>>
      BY <1>0, <1>1, <2>3
    <3>3. Order[Len(Order)] \in Kind
      BY <3>2, ReviewAssumption
    <3> QED
      BY <3>1, <3>3
  <2>4. CASE DOMAIN states # {} /\ generating = {} /\ unfinished # {}
    <3>1. FirstIn(Order, unfinished) \in Kind
      BY <2>4, FirstIsIn
    <3> QED
      BY <1>1, <2>4, <3>1 DEF DerivePhase
  <2> QED
    BY <2>1, <2>2, <2>3, <2>4
<1>3. PhaseOf(read) = IF derived = Draft THEN "DRAFT" ELSE Phases[derived[1]][derived[2]]
  BY DEF PhaseOf
<1> HIDE DEF derived
<1> QED
  BY <1>2, <1>3 DEF Phase

-----------------------------------------------------------------------------
(* What the steps have in common.                                          *)

Others == <<artifactRows, projectRow, jobs, latest_decision, approved_since>>

(* A transaction begins: it has read what is there and holds nothing. *)
Opens(s, t) ==
    /\ s \notin Open /\ t \in Txn /\ ~t.refreshed
    /\ t.seen = state[t.artifact]
    /\ t.op = "request" \/ MayApply(Event[t.op], t.seen)
    /\ t.op \in {"approve", "reject"} => t.version \in 1..current_version_no[t.artifact]
    /\ t.phase \in {NoPhase, phase}
    /\ \A b \in DOMAIN t.rows : t.rows[b] = state[b]
    /\ Deciding(t.op, t.artifact) => t.at = Now
    /\ txn' = [txn EXCEPT ![s] = t]
    /\ UNCHANGED Others

Begins(s) ==
    \/ \E a \in Artifact :
         \/ BeginEdit(s, a)
         \/ BeginRequest(s, a)
         \/ \E op \in {"approve", "reject"}, n \in Versions(a) : BeginReview(s, op, a, n)
    \/ \E key \in queued : BeginGenerate(s, key) \/ BeginFail(s, key)

LEMMA OpenIsTxn ==
    ASSUME TypeOK, NEW s \in Session
    PROVE  /\ s \in Open <=> txn[s] \in Txn
           /\ s \in Open <=> txn[s] # Closed
           /\ s \notin Open => txn[s] = Closed
<1>1. Closed \notin Txn
  <2>1. Closed.op = "none"
    BY DEF Closed
  <2>2. \A t \in Txn : t.op \in Operation
    BY DEF Txn
  <2> QED
    BY <2>1, <2>2 DEF Operation
<1> QED
  BY <1>1 DEF TypeOK, Open

(* The sessions that are open after one has opened, refreshed or closed. *)
LEMMA OpenAfter ==
    ASSUME TypeOK, NEW s \in Session, NEW t \in Txn \cup {Closed},
           txn' = [txn EXCEPT ![s] = t]
    PROVE  /\ txn'[s] = t
           /\ \A r \in Session \ {s} : txn'[r] = txn[r] /\ (r \in Open' <=> r \in Open)
           /\ s \in Open' <=> t # Closed
           /\ Open' \subseteq Session
           /\ txn' \in [Session -> Txn \cup {Closed}]
  BY DEF TypeOK, Open

LEMMA BeginOpens ==
    ASSUME TypeOK, NEW s \in Session, NEW op \in Operation, NEW a \in Artifact,
           NEW version \in Nat, NEW from \in Nat, NEW S \in SUBSET Artifact,
           NEW read \in {NoPhase, phase},
           Begin(s, op, a, version, from, [b \in S |-> state[b]], read),
           op = "request" \/ MayApply(Event[op], state[a]),
           op \in {"approve", "reject"} => version \in 1..current_version_no[a]
    PROVE  \E t : Opens(s, t)
<1> DEFINE read_rows == [b \in S |-> state[b]]
           at == IF Deciding(op, a) THEN Now ELSE 0
           t == [op |-> op, artifact |-> a, version |-> version, from |-> from,
                 seen |-> state[a], rows |-> read_rows, phase |-> read,
                 at |-> at, refreshed |-> FALSE, derived |-> NoPhase, cascade |-> {}]
<1>1. read_rows \in StatesRead
  BY DEF StatesRead, TypeOK
<1>2. at \in 0..MaxDecision
  <2>1. CASE Deciding(op, a)
    <3>1. Now \in Nat /\ Now <= MaxDecision
      BY <2>1, NowIsLater DEF Begin
    <3> QED
      BY <2>1, <3>1, ReviewAssumption
  <2>2. CASE ~Deciding(op, a)
    BY <2>2, ReviewAssumption
  <2> QED
    BY <2>1, <2>2
<1>3. txn' = [txn EXCEPT ![s] = t] /\ s \notin Open /\ UNCHANGED Others
  BY DEF Begin, Others
<1>4. \A b \in DOMAIN read_rows : read_rows[b] = state[b]
  OBVIOUS
<1>5. Deciding(op, a) => at = Now
  OBVIOUS
<1> HIDE DEF read_rows, at
<1>6. t \in Txn
  BY <1>1, <1>2 DEF Txn, TypeOK
<1>7. /\ t.op = op /\ t.artifact = a /\ t.version = version /\ t.seen = state[a]
      /\ t.rows = read_rows /\ t.phase = read /\ t.at = at /\ t.refreshed = FALSE
  OBVIOUS
<1> HIDE DEF t
<1> QED
  BY <1>3, <1>4, <1>5, <1>6, <1>7 DEF Opens

LEMMA BeginsOpens ==
    ASSUME TypeOK, NEW s \in Session, Begins(s)
    PROVE  \E t : Opens(s, t)
<1>0. current_version_no \in [Artifact -> Nat] /\ queued \subseteq Key /\ 0 \in Nat
  BY DEF TypeOK
<1>1. ASSUME NEW a \in Artifact, BeginEdit(s, a) PROVE \E t : Opens(s, t)
  <2>1. "edit" \in Operation /\ "edit" \notin {"approve", "reject"} /\ {a} \in SUBSET Artifact
    BY DEF Operation
  <2>2. /\ MayApply(Event["edit"], state[a])
        /\ Begin(s, "edit", a, 0, 0, [b \in {a} |-> state[b]], NoPhase)
    BY <1>1 DEF BeginEdit, Row
  <2> QED
    BY <1>0, <2>1, <2>2, BeginOpens
<1>2. ASSUME NEW a \in Artifact, BeginRequest(s, a) PROVE \E t : Opens(s, t)
  <2>1. "request" \in Operation /\ "request" \notin {"approve", "reject"}
        /\ Present \in SUBSET Artifact
    BY DEF Operation, Present
  <2>2. Begin(s, "request", a, 0, current_version_no[a], [b \in Present |-> state[b]], phase)
    BY <1>2 DEF BeginRequest
  <2>3. current_version_no[a] \in Nat
    BY <1>0
  <2> QED
    BY <1>0, <2>1, <2>2, <2>3, BeginOpens
<1>3. ASSUME NEW a \in Artifact, NEW op \in {"approve", "reject"}, NEW n \in Versions(a),
             BeginReview(s, op, a, n)
      PROVE  \E t : Opens(s, t)
  <2>1. op \in Operation /\ {a} \in SUBSET Artifact
    BY DEF Operation
  <2>2. /\ MayApply(Event[op], state[a]) /\ n \in 1..current_version_no[a]
        /\ Begin(s, op, a, n, 0, [b \in {a} |-> state[b]], NoPhase)
    BY <1>3 DEF BeginReview, Row
  <2>3. n \in Nat
    BY <1>0, <2>2
  <2> QED
    BY <1>0, <2>1, <2>2, <2>3, BeginOpens
<1>4. ASSUME NEW key \in queued, BeginGenerate(s, key) PROVE \E t : Opens(s, t)
  <2> DEFINE a == key.artifact
             S == {a} \cup Inputs(a)
  <2>1. a \in Artifact /\ key.from \in Nat
    BY <1>0 DEF Key
  <2>2. "generate" \in Operation /\ "generate" \notin {"approve", "reject"}
        /\ S \in SUBSET Artifact
    BY <2>1 DEF Operation, Inputs
  <2>3. /\ MayApply(Event["generate"], state[a])
        /\ Begin(s, "generate", a, 0, key.from, [b \in S |-> state[b]], phase)
    BY <1>4 DEF BeginGenerate
  <2> HIDE DEF a, S
  <2> QED
    BY <1>0, <2>1, <2>2, <2>3, BeginOpens
<1>5. ASSUME NEW key \in queued, BeginFail(s, key) PROVE \E t : Opens(s, t)
  <2> DEFINE a == key.artifact
  <2>1. a \in Artifact /\ key.from \in Nat
    BY <1>0 DEF Key
  <2>2. "fail" \in Operation /\ "fail" \notin {"approve", "reject"} /\ {a} \in SUBSET Artifact
    BY <2>1 DEF Operation
  <2>3. /\ MayApply(Event["fail"], state[a])
        /\ Begin(s, "fail", a, 0, key.from, [b \in {a} |-> state[b]], NoPhase)
    BY <1>5 DEF BeginFail, Row
  <2> HIDE DEF a
  <2> QED
    BY <1>0, <2>1, <2>2, <2>3, BeginOpens
<1> QED
  BY <1>1, <1>2, <1>3, <1>4, <1>5 DEF Begins

(* Between its reads and its commit: u has become t.                       *)
Refreshes(s, u, t) ==
    /\ s \in Open /\ u = txn[s] /\ u \in Txn /\ ~u.refreshed
    /\ MayLock(s, EarlyLocks(u))
    /\ u.op \in {"edit", "generate"} =>
          current_version_no[u.artifact] < MaxVersion[u.artifact]
    /\ t \in Txn /\ t.refreshed
    /\ t.op = u.op /\ t.artifact = u.artifact /\ t.version = u.version
    /\ t.seen = u.seen /\ t.at = u.at
    /\ t.phase = IF u.phase = NoPhase THEN phase ELSE u.phase
    /\ DOMAIN t.rows = {}
    /\ t.derived = PhaseOf(Held(u)) /\ t.derived \in Phase
    /\ t.cascade = Cascade(u)
    /\ txn' = [txn EXCEPT ![s] = t]
    /\ UNCHANGED Others

LEMMA RefreshRefreshes ==
    ASSUME TypeOK, NEW s \in Session, Refresh(s)
    PROVE  \E t : Refreshes(s, txn[s], t)
<1> DEFINE u == txn[s]
           seen_phase == IF u.phase = NoPhase THEN phase ELSE u.phase
           nothing == [b \in {} |-> Absent]
           derived == PhaseOf(Held(u))
           cascade == Cascade(u)
           t == [u EXCEPT !.refreshed = TRUE, !.phase = seen_phase, !.rows = nothing,
                          !.derived = derived, !.cascade = cascade]
<1>1. s \in Open /\ u = txn[s] /\ u \in Txn /\ ~u.refreshed /\ UNCHANGED Others
  BY OpenIsTxn DEF Refresh, Others
<1>2. /\ MayLock(s, EarlyLocks(u))
      /\ u.op \in {"edit", "generate"} =>
            current_version_no[u.artifact] < MaxVersion[u.artifact]
      /\ txn' = [txn EXCEPT ![s] = t]
  BY DEF Refresh
<1>3. seen_phase \in Phase \cup {NoPhase}
  BY <1>1 DEF Txn, TypeOK
<1>4. nothing \in StatesRead /\ DOMAIN nothing = {}
  <2>1. nothing \in [{} -> ArtifactState \cup {Absent}] /\ {} \in SUBSET Artifact
    OBVIOUS
  <2> QED
    BY <2>1 DEF StatesRead
<1>5. derived \in Phase
  <2>1. DOMAIN Held(u) \subseteq Artifact
    BY <1>1 DEF Held, Present, Txn
  <2> QED
    BY <2>1, PhaseIsOne
<1>6. cascade \in SUBSET Artifact
  BY DEF Cascade, Downstream
<1> HIDE DEF seen_phase, nothing, derived, cascade, u
<1>7. /\ t \in Txn /\ t.refreshed = TRUE /\ t.op = u.op /\ t.artifact = u.artifact
      /\ t.version = u.version /\ t.seen = u.seen /\ t.at = u.at
      /\ t.phase = seen_phase /\ t.rows = nothing /\ t.derived = derived
      /\ t.cascade = cascade
  BY <1>1, <1>3, <1>4, <1>5, <1>6 DEF Txn
<1> HIDE DEF t
<1>8. Refreshes(s, u, t)
  BY <1>1, <1>2, <1>4, <1>5, <1>7 DEF Refreshes, seen_phase, derived, cascade
<1> QED
  BY <1>8 DEF u

(* The version a transaction decides on, and how. *)
DecidedVersion(t) ==
    IF t.op = "generate" THEN current_version_no[t.artifact] + 1 ELSE t.version
DecidedKind(t) == IF t.op = "reject" THEN "REJECT" ELSE "APPROVE"

(* Everything a commit writes.                                             *)
Commits(s, t) ==
    /\ s \in Open /\ t = txn[s] /\ t \in Txn /\ t.refreshed
    /\ txn' = [txn EXCEPT ![s] = Closed]
    /\ state' = IF Outcome(t) # t.seen THEN [state EXCEPT ![t.artifact] = Outcome(t)] ELSE state
    /\ phase' = IF t.derived # t.phase THEN t.derived ELSE phase
    /\ current_version_no' = IF t.op \in {"edit", "generate"}
                             THEN [current_version_no EXCEPT ![t.artifact] = @ + 1]
                             ELSE current_version_no
    /\ IF Deciding(t.op, t.artifact)
       THEN Record(t.artifact, DecidedVersion(t), DecidedKind(t), t.at)
       ELSE UNCHANGED latest_decision
    /\ IF t.op = "approve"
       THEN /\ MarkApproved(t.artifact)
            /\ stale' = [b \in Artifact |-> (stale[b] /\ b # t.artifact)
                                              \/ b \in {d \in t.cascade : ~stale[d]}]
       ELSE UNCHANGED <<approved_since, stale>>
    /\ IF SetsPointer(t) THEN SetPointer(t.artifact, DecidedVersion(t))
                         ELSE UNCHANGED active_pointers
    /\ live' \subseteq Key /\ queued' \subseteq live'

LEMMA CommitCommits ==
    ASSUME TypeOK, NEW s \in Session, Commit(s)
    PROVE  Commits(s, txn[s])
<1> DEFINE t == txn[s]
<1>0. live \subseteq Key /\ queued \subseteq live /\ current_version_no \in [Artifact -> Nat]
  BY DEF TypeOK
<1>1. t.op \in Operation
  BY DEF Commit, Approve, Reject, Edit, Request, Generate, Fail, Operation
<1>2. t \in Txn /\ s \in Open
  BY <1>1, OpenIsTxn DEF Operation, Closed
<1>3. t.artifact \in Artifact /\ [artifact |-> t.artifact, from |-> t.from] \in Key
  BY <1>2 DEF Txn, Key
<1>4. ASSUME NEW alsoLocks, Flush(s, alsoLocks)
      PROVE  /\ t.refreshed /\ txn' = [txn EXCEPT ![s] = Closed]
             /\ state' = IF Outcome(t) # t.seen
                         THEN [state EXCEPT ![t.artifact] = Outcome(t)] ELSE state
             /\ phase' = IF t.derived # t.phase THEN t.derived ELSE phase
  BY <1>4 DEF Flush
<1>5. CASE Approve(s)
  <2>1. t.op = "approve" /\ Deciding(t.op, t.artifact) /\ SetsPointer(t)
    BY <1>5 DEF Approve, Deciding, SetsPointer
  <2>2. Record(t.artifact, DecidedVersion(t), DecidedKind(t), t.at)
    BY <1>5, <2>1 DEF Approve, DecidedVersion, DecidedKind
  <2>3. SetPointer(t.artifact, DecidedVersion(t))
    BY <1>5, <2>1 DEF Approve, DecidedVersion
  <2>4. /\ UNCHANGED <<current_version_no, live, queued>> /\ MarkApproved(t.artifact)
        /\ stale' = [b \in Artifact |-> (stale[b] /\ b # t.artifact)
                                              \/ b \in {d \in t.cascade : ~stale[d]}]
    BY <1>5 DEF Approve, jobs
  <2>5. \E locks : Flush(s, locks)
    BY <1>5 DEF Approve
  <2> QED
    BY <1>0, <1>2, <1>4, <2>1, <2>2, <2>3, <2>4, <2>5 DEF Commits
<1>6. CASE Reject(s)
  <2>1. t.op = "reject" /\ Deciding(t.op, t.artifact) /\ ~SetsPointer(t)
    BY <1>6 DEF Reject, Deciding, SetsPointer
  <2>2. Record(t.artifact, DecidedVersion(t), DecidedKind(t), t.at)
    BY <1>6, <2>1 DEF Reject, DecidedVersion, DecidedKind
  <2>3. UNCHANGED <<current_version_no, live, queued, active_pointers, approved_since, stale>>
    BY <1>6 DEF Reject, jobs
  <2>4. \E locks : Flush(s, locks)
    BY <1>6 DEF Reject
  <2> QED
    BY <1>0, <1>2, <1>4, <2>1, <2>2, <2>3, <2>4 DEF Commits
<1>7. CASE Edit(s)
  <2>1. t.op = "edit" /\ ~Deciding(t.op, t.artifact) /\ ~SetsPointer(t)
    BY <1>7 DEF Edit, Deciding, SetsPointer
  <2>2. /\ UNCHANGED <<live, queued, active_pointers, approved_since, stale, latest_decision>>
        /\ AddVersion(t.artifact)
    BY <1>7 DEF Edit, jobs
  <2>3. \E locks : Flush(s, locks)
    BY <1>7 DEF Edit
  <2> QED
    BY <1>0, <1>2, <1>4, <2>1, <2>2, <2>3 DEF Commits, AddVersion
<1>8. CASE Request(s)
  <2>1. t.op = "request" /\ ~Deciding(t.op, t.artifact) /\ ~SetsPointer(t)
    BY <1>8 DEF Request, Deciding, SetsPointer
  <2>2. /\ UNCHANGED <<current_version_no, active_pointers, approved_since, stale,
                       latest_decision>>
        /\ live' \subseteq Key /\ queued' \subseteq live'
    BY <1>0, <1>3, <1>8 DEF Request
  <2>3. \E locks : Flush(s, locks)
    BY <1>8 DEF Request
  <2> QED
    BY <1>2, <1>4, <2>1, <2>2, <2>3 DEF Commits
<1>9. CASE Generate(s)
  <2>1. t.op = "generate" /\ (Deciding(t.op, t.artifact) <=> t.artifact \in AutoApproved)
    BY <1>9 DEF Generate, Deciding
  <2>2. /\ UNCHANGED <<approved_since, stale>> /\ AddVersion(t.artifact)
        /\ live' \subseteq Key /\ queued' \subseteq live'
    BY <1>0, <1>9 DEF Generate
  <2>3. DecidedVersion(t) = current_version_no[t.artifact] + 1 /\ DecidedKind(t) = "APPROVE"
    BY <2>1 DEF DecidedVersion, DecidedKind
  <2>4. IF Deciding(t.op, t.artifact)
        THEN Record(t.artifact, DecidedVersion(t), DecidedKind(t), t.at)
        ELSE UNCHANGED latest_decision
    BY <1>9, <2>1, <2>3 DEF Generate
  <2>5. IF SetsPointer(t) THEN SetPointer(t.artifact, DecidedVersion(t))
                          ELSE UNCHANGED active_pointers
    BY <1>9, <2>3 DEF Generate
  <2>6. \E locks : Flush(s, locks)
    BY <1>9 DEF Generate
  <2> QED
    BY <1>2, <1>4, <2>1, <2>2, <2>4, <2>5, <2>6 DEF Commits, AddVersion
<1>10. CASE Fail(s)
  <2>1. t.op = "fail" /\ ~Deciding(t.op, t.artifact) /\ ~SetsPointer(t)
    BY <1>10 DEF Fail, Deciding, SetsPointer
  <2>2. /\ UNCHANGED <<current_version_no, active_pointers, approved_since, stale,
                       latest_decision>>
        /\ live' \subseteq Key /\ queued' \subseteq live'
    BY <1>0, <1>10 DEF Fail
  <2>3. \E locks : Flush(s, locks)
    BY <1>10 DEF Fail
  <2> QED
    BY <1>2, <1>4, <2>1, <2>2, <2>3 DEF Commits
<1> QED
  BY <1>5, <1>6, <1>7, <1>8, <1>9, <1>10 DEF Commit

(* Every step opens, refreshes, commits or abandons one transaction, or    *)
(* fails a job and nothing else.                                           *)
Drops(s) == s \in Open /\ txn' = [txn EXCEPT ![s] = Closed] /\ UNCHANGED Others
JobsOnly ==
    /\ UNCHANGED <<artifactRows, projectRow, latest_decision, approved_since, txn>>
    /\ live' \subseteq Key /\ queued' \subseteq live'

LEMMA Steps ==
    ASSUME TypeOK, [Next]_vars
    PROVE  \/ \E s \in Session : \E t : Opens(s, t)
           \/ \E s \in Session : \E u, t : Refreshes(s, u, t)
           \/ \E s \in Session : \E t : Commits(s, t)
           \/ \E s \in Session : Drops(s)
           \/ JobsOnly
<1>1. CASE \E s \in Session : Begins(s)
  BY <1>1, BeginsOpens
<1>2. CASE \E s \in Session : Refresh(s)
  BY <1>2, RefreshRefreshes
<1>3. CASE \E s \in Session : Commit(s)
  BY <1>3, CommitCommits
<1>4. CASE \E s \in Session : Abort(s)
  BY <1>4 DEF Abort, Drops, Others
<1>5. CASE \E key \in queued : FailJobOnly(key)
  BY <1>5 DEF FailJobOnly, JobsOnly, TypeOK
<1>6. CASE UNCHANGED vars
  BY <1>6 DEF vars, JobsOnly, TypeOK, artifactRows, projectRow
<1> QED
  BY <1>1, <1>2, <1>3, <1>4, <1>5, <1>6 DEF Next, Begins

-----------------------------------------------------------------------------
(* Types.                                                                  *)

(* A transaction decides on a version there is or that it adds. *)
LEMMA DecidesOnVersion ==
    ASSUME TypeOK, NEW t \in Txn, TxnOK(t), t.refreshed, Deciding(t.op, t.artifact)
    PROVE  /\ DecidedVersion(t) \in Versions(t.artifact)
           /\ DecidedVersion(t) \in Nat
           /\ t.op # "generate" => DecidedVersion(t) <= current_version_no[t.artifact]
<1>1. /\ t.artifact \in Artifact
      /\ current_version_no[t.artifact] \in Nat /\ MaxVersion[t.artifact] \in Nat
      /\ current_version_no[t.artifact] <= MaxVersion[t.artifact]
  BY ReviewAssumption DEF TypeOK, Txn
<1>2. CASE t.op = "generate"
  BY <1>1, <1>2 DEF TxnOK, DecidedVersion, Versions
<1>3. CASE t.op # "generate"
  BY <1>1, <1>3 DEF TxnOK, DecidedVersion, Versions, Deciding
<1> QED
  BY <1>2, <1>3

LEMMA PointerIsDecided ==
    ASSUME NEW t, SetsPointer(t)
    PROVE  Deciding(t.op, t.artifact)
  BY DEF SetsPointer, Deciding

(* What Record does to the log the view reads. *)
LEMMA Recorded ==
    ASSUME TypeOK, NEW a \in Artifact, NEW n \in Versions(a), NEW kind \in DecisionKind,
           NEW at \in 0..MaxDecision, Record(a, n, kind, at)
    PROVE  /\ DOMAIN latest_decision' = Artifact
           /\ \A b \in Artifact : latest_decision'[b] \in [Versions(b) -> Decision]
           /\ latest_decision[a][n].at <= at =>
                 latest_decision'[a][n] = [kind |-> kind, at |-> at]
<1>1. CASE latest_decision[a][n].at > at
  <2>1. latest_decision[a][n].at \in Nat /\ at \in Nat
    BY DEF TypeOK, Decision
  <2>2. latest_decision' = latest_decision /\ ~(latest_decision[a][n].at <= at)
    BY <1>1, <2>1 DEF Record
  <2> QED
    BY <2>2 DEF TypeOK
<1>2. CASE ~(latest_decision[a][n].at > at)
  <2> DEFINE d == [kind |-> kind, at |-> at]
  <2>1. d \in Decision
    BY DEF Decision
  <2> HIDE DEF d
  <2>2. latest_decision' = [latest_decision EXCEPT ![a][n] = d]
    BY <1>2 DEF Record, d
  <2>3. \A b \in Artifact \ {a} : latest_decision'[b] = latest_decision[b]
    BY <2>2 DEF TypeOK
  <2>4. latest_decision'[a] = [latest_decision[a] EXCEPT ![n] = d]
    BY <2>2 DEF TypeOK
  <2>5. /\ latest_decision'[a] \in [Versions(a) -> Decision]
        /\ latest_decision'[a][n] = d
        /\ \A m \in Versions(a) \ {n} : latest_decision'[a][m] = latest_decision[a][m]
    BY <2>1, <2>4 DEF TypeOK
  <2>6. DOMAIN latest_decision' = Artifact
    BY <2>2 DEF TypeOK
  <2> QED
    BY <2>3, <2>5, <2>6 DEF TypeOK, d
<1> QED
  BY <1>1, <1>2

LEMMA RecordedHereOnly ==
    ASSUME TypeOK, NEW a \in Artifact, NEW n, NEW kind, NEW at, Record(a, n, kind, at),
           NEW b \in Artifact, NEW m \in Versions(b), b # a \/ m # n
    PROVE  latest_decision'[b][m] = latest_decision[b][m]
<1>1. CASE latest_decision' = latest_decision
  BY <1>1
<1>2. CASE latest_decision' = [latest_decision EXCEPT ![a][n] = [kind |-> kind, at |-> at]]
  <2> DEFINE d == [kind |-> kind, at |-> at]
  <2> HIDE DEF d
  <2>1. latest_decision' = [latest_decision EXCEPT ![a][n] = d]
    BY <1>2 DEF d
  <2>2. CASE b # a
    BY <2>1, <2>2 DEF TypeOK
  <2>3. CASE b = a
    <3>1. latest_decision'[a] = [latest_decision[a] EXCEPT ![n] = d]
      BY <2>1 DEF TypeOK
    <3> QED
      BY <2>3, <3>1 DEF TypeOK
  <2> QED
    BY <2>2, <2>3
<1> QED
  BY <1>1, <1>2 DEF Record

LEMMA Unmoved ==
    ASSUME TypeOK, UNCHANGED Others, txn' \in [Session -> Txn \cup {Closed}]
    PROVE  TypeOK'
  BY DEF TypeOK, Others, artifactRows, projectRow, jobs, Versions

LEMMA TypeStep ==
    ASSUME IInv, [Next]_vars
    PROVE  TypeOK'
<1>0. TypeOK
  BY DEF IInv
<1>1. ASSUME NEW s \in Session, NEW t, Opens(s, t) PROVE TypeOK'
  BY <1>0, <1>1, OpenAfter, Unmoved DEF Opens
<1>2. ASSUME NEW s \in Session, NEW u, NEW t, Refreshes(s, u, t) PROVE TypeOK'
  BY <1>0, <1>2, OpenAfter, Unmoved DEF Refreshes
<1>3. ASSUME NEW s \in Session, Drops(s) PROVE TypeOK'
  BY <1>0, <1>3, OpenAfter, Unmoved DEF Drops
<1>4. CASE JobsOnly
  BY <1>0, <1>4 DEF JobsOnly, TypeOK, artifactRows, projectRow, Versions
<1>5. ASSUME NEW s \in Session, NEW t, Commits(s, t) PROVE TypeOK'
  <2> DEFINE a == t.artifact
             n == DecidedVersion(t)
  <2>1. t \in Txn /\ TxnOK(t) /\ t.refreshed /\ a \in Artifact /\ t.op \in Operation
    BY <1>5 DEF Commits, IInv, TransactionsAreGuarded, Txn
  <2>2. state' \in [Artifact -> ArtifactState \cup {Absent}]
    BY <1>0, <1>5, <2>1, Outcomes DEF Commits, TypeOK
  <2>3. phase' \in Phase
    BY <1>0, <1>5, <2>1 DEF Commits, TypeOK, TxnOK
  <2>4. /\ current_version_no' \in [Artifact -> Nat]
        /\ \A b \in Artifact : current_version_no'[b] <= MaxVersion[b]
    <3>1. CASE t.op \in {"edit", "generate"}
      <4>1. current_version_no' = [current_version_no EXCEPT ![a] = @ + 1]
        BY <1>5, <3>1 DEF Commits
      <4>2. current_version_no[a] < MaxVersion[a] /\ MaxVersion[a] \in Nat
        BY <2>1, <3>1, ReviewAssumption DEF TxnOK
      <4> HIDE DEF a
      <4> QED
        BY <1>0, <2>1, <4>1, <4>2 DEF TypeOK
    <3>2. CASE t.op \notin {"edit", "generate"}
      BY <1>0, <1>5, <3>2 DEF Commits, TypeOK
    <3> QED
      BY <3>1, <3>2
  <2>5. /\ DOMAIN latest_decision' = Artifact
        /\ \A b \in Artifact : latest_decision'[b] \in [Versions(b) -> Decision]
    <3>1. CASE Deciding(t.op, a)
      <4>1. n \in Versions(a) /\ DecidedKind(t) \in DecisionKind /\ t.at \in 0..MaxDecision
        BY <1>0, <2>1, <3>1, DecidesOnVersion DEF DecidedKind, DecisionKind, Txn
      <4>2. Record(a, n, DecidedKind(t), t.at)
        BY <1>5, <3>1 DEF Commits
      <4> HIDE DEF a, n
      <4> QED
        BY <1>0, <2>1, <4>1, <4>2, Recorded
    <3>2. CASE ~Deciding(t.op, a)
      BY <1>0, <1>5, <3>2 DEF Commits, TypeOK
    <3> QED
      BY <3>1, <3>2
  <2>6. active_pointers' \in [Kind -> Pointer]
    <3>1. CASE SetsPointer(t)
      <4>1. n \in Nat
        BY <1>0, <2>1, <3>1, DecidesOnVersion, PointerIsDecided
      <4>2. [artifact |-> a, version |-> n] \in Pointer
        BY <2>1, <4>1 DEF Pointer
      <4>3. active_pointers' =
                [active_pointers EXCEPT ![KindOf[a]] = [artifact |-> a, version |-> n]]
        BY <1>5, <3>1 DEF Commits, SetPointer
      <4> HIDE DEF a, n
      <4> QED
        BY <1>0, <4>2, <4>3 DEF TypeOK
    <3>2. CASE ~SetsPointer(t)
      BY <1>0, <1>5, <3>2 DEF Commits, TypeOK
    <3> QED
      BY <3>1, <3>2
  <2>7. /\ stale' \in [Artifact -> BOOLEAN]
        /\ DOMAIN approved_since' \subseteq Artifact
        /\ \A b \in DOMAIN approved_since' : approved_since'[b] \subseteq Artifact
    <3>1. CASE t.op = "approve"
      <4>1. stale' \in [Artifact -> BOOLEAN]
        BY <1>5, <3>1, Zenon DEF Commits
      <4>2. approved_since' = [b \in DOMAIN approved_since \cup {a} |->
                                  IF b = a THEN {} ELSE approved_since[b] \cup {a}]
        BY <1>5, <3>1 DEF Commits, MarkApproved
      <4> HIDE DEF a
      <4> QED
        BY <1>0, <2>1, <4>1, <4>2 DEF TypeOK
    <3>2. CASE t.op # "approve"
      BY <1>0, <1>5, <3>2 DEF Commits, TypeOK
    <3> QED
      BY <3>1, <3>2
  <2>8. txn' \in [Session -> Txn \cup {Closed}] /\ live' \subseteq Key /\ queued' \subseteq live'
    BY <1>0, <1>5, OpenAfter DEF Commits
  <2> QED
    BY <2>2, <2>3, <2>4, <2>5, <2>6, <2>7, <2>8 DEF TypeOK, Versions
<1> QED
  BY <1>0, <1>1, <1>2, <1>3, <1>4, <1>5, Steps

-----------------------------------------------------------------------------
(* Locks, and what open transactions rely on.                              *)

LEMMA LocksStep ==
    ASSUME TypeOK, LocksAreExclusive, [Next]_vars
    PROVE  LocksAreExclusive'
<1>1. ASSUME NEW s \in Session, NEW t \in Txn \cup {Closed}, txn' = [txn EXCEPT ![s] = t],
             \A r \in Open \ {s} :
                t # Closed /\ t.refreshed /\ txn[r].refreshed =>
                    EarlyLocks(t) \cap EarlyLocks(txn[r]) = {}
      PROVE  LocksAreExclusive'
  <2> SUFFICES ASSUME NEW p \in Open', NEW r \in Open', p # r,
                      txn'[p].refreshed, txn'[r].refreshed
               PROVE  EarlyLocks(txn'[p]) \cap EarlyLocks(txn'[r]) = {}
    BY DEF LocksAreExclusive
  <2>1. p \in Session /\ r \in Session
    BY DEF Open
  <2>2. CASE p = s
    BY <1>1, <2>1, <2>2, OpenAfter
  <2>3. CASE r = s
    BY <1>1, <2>1, <2>3, OpenAfter
  <2>4. CASE p # s /\ r # s
    BY <1>1, <2>1, <2>4, OpenAfter DEF LocksAreExclusive
  <2> QED
    BY <2>2, <2>3, <2>4
<1>2. ASSUME NEW s \in Session, NEW t, Opens(s, t) PROVE LocksAreExclusive'
  BY <1>1, <1>2 DEF Opens
<1>3. ASSUME NEW s \in Session, NEW u, NEW t, Refreshes(s, u, t) PROVE LocksAreExclusive'
  <2>1. EarlyLocks(t) = EarlyLocks(u)
    BY <1>3 DEF Refreshes, EarlyLocks, SetsPointer
  <2>2. ASSUME NEW r \in Open \ {s}, txn[r].refreshed
        PROVE  EarlyLocks(t) \cap EarlyLocks(txn[r]) = {}
    <3>1. EarlyLocks(txn[r]) \subseteq LockedBy(Open \ {s})
      BY <2>2 DEF LockedBy
    <3>2. EarlyLocks(u) \cap LockedBy(Open \ {s}) = {}
      BY <1>3 DEF Refreshes, MayLock
    <3> QED
      BY <2>1, <3>1, <3>2
  <2>3. t \in Txn /\ txn' = [txn EXCEPT ![s] = t]
    BY <1>3 DEF Refreshes
  <2> QED
    BY <1>1, <2>2, <2>3
<1>4. ASSUME NEW s \in Session, txn' = [txn EXCEPT ![s] = Closed] PROVE LocksAreExclusive'
  BY <1>1, <1>4
<1>5. CASE JobsOnly
  BY <1>5 DEF JobsOnly, LocksAreExclusive, Open
<1> QED
  BY <1>2, <1>3, <1>4, <1>5, Steps DEF Commits, Drops

(* What a transaction relies on, when others commit: the versions of its   *)
(* artifact only grow, and stand still while it holds the row.             *)
LEMMA TxnKept ==
    ASSUME TypeOK, NEW t \in Txn, TxnOK(t),
           current_version_no' \in [Artifact -> Nat],
           \A a \in Artifact : current_version_no[a] <= current_version_no'[a],
           t.refreshed /\ t.op \in {"edit", "generate"} =>
              current_version_no'[t.artifact] = current_version_no[t.artifact],
           t.refreshed /\ t.op = "approve" => approved_since' = approved_since
    PROVE  TxnOK(t)'
<1>1. t.artifact \in Artifact
  BY DEF Txn
<1>2. t.version \in 1..current_version_no[t.artifact] =>
          t.version \in 1..current_version_no'[t.artifact]
  BY <1>1 DEF TypeOK
<1> QED
  BY <1>2 DEF TxnOK

LEMMA VersionsGrow ==
    ASSUME TypeOK, NEW s \in Session, NEW t, Commits(s, t)
    PROVE  /\ \A a \in Artifact : current_version_no[a] <= current_version_no'[a]
           /\ \A a \in Artifact : a # t.artifact \/ t.op \notin {"edit", "generate"} =>
                 current_version_no'[a] = current_version_no[a]
           /\ t.op \in {"edit", "generate"} =>
                 current_version_no'[t.artifact] = current_version_no[t.artifact] + 1
<1>1. current_version_no \in [Artifact -> Nat] /\ t.artifact \in Artifact
  BY DEF TypeOK, Commits, Txn
<1>2. CASE t.op \in {"edit", "generate"}
  <2>1. current_version_no' = [current_version_no EXCEPT ![t.artifact] = @ + 1]
    BY <1>2 DEF Commits
  <2> QED
    BY <1>1, <1>2, <2>1
<1>3. CASE t.op \notin {"edit", "generate"}
  BY <1>1, <1>3 DEF Commits
<1> QED
  BY <1>2, <1>3

LEMMA GuardsStep ==
    ASSUME IInv, [Next]_vars
    PROVE  TransactionsAreGuarded'
<1>0. TypeOK /\ TransactionsAreGuarded /\ LocksAreExclusive /\ TypeOK'
  BY TypeStep DEF IInv
<1>1. ASSUME NEW s \in Session, NEW t \in Txn \cup {Closed}, txn' = [txn EXCEPT ![s] = t],
             t # Closed => TxnOK(t)',
             \A r \in Open \ {s} : \A v \in Txn : v = txn[r] => TxnOK(v)'
      PROVE  TransactionsAreGuarded'
  <2> SUFFICES ASSUME NEW r \in Open' PROVE TxnOK(txn[r])'
    BY DEF TransactionsAreGuarded
  <2>1. r \in Session
    BY DEF Open
  <2>2. CASE r = s
    <3>1. txn'[r] = t /\ t # Closed
      BY <1>0, <1>1, <2>2, OpenAfter
    <3>2. TxnOK(t)'
      BY <1>1, <3>1
    <3> QED
      BY <3>1, <3>2 DEF TxnOK
  <2>3. CASE r # s
    <3>1. txn'[r] = txn[r] /\ r \in Open \ {s}
      BY <1>0, <1>1, <2>1, <2>3, OpenAfter
    <3>2. PICK v \in Txn : v = txn[r]
      BY <1>0, <2>1, <3>1, OpenIsTxn
    <3>3. TxnOK(v)'
      BY <1>1, <3>1, <3>2
    <3> QED
      BY <3>1, <3>2, <3>3 DEF TxnOK
  <2> QED
    BY <2>2, <2>3
<1>2. ASSUME UNCHANGED <<current_version_no, approved_since>>
      PROVE  \A r \in Open : \A v \in Txn : v = txn[r] => TxnOK(v)'
  BY <1>0, <1>2 DEF TransactionsAreGuarded, TxnOK
<1>3. ASSUME NEW s \in Session, NEW t, Opens(s, t) PROVE TransactionsAreGuarded'
  <2>1. t \in Txn /\ UNCHANGED <<current_version_no, approved_since>>
    BY <1>3 DEF Opens, Others, artifactRows
  <2>2. /\ t.op \in {"approve", "reject"} => t.seen = "AWAITING_APPROVAL"
        /\ t.op = "generate" => t.seen = "GENERATING"
    BY <1>3, ArtifactSources DEF Opens, Event
  <2>3. TxnOK(t)
    BY <1>3, <2>2 DEF Opens, TxnOK
  <2>4. TxnOK(t)'
    BY <2>1, <2>3 DEF TxnOK
  <2> QED
    BY <1>1, <1>2, <1>3, <2>1, <2>4 DEF Opens
<1>4. ASSUME NEW s \in Session, NEW u, NEW t, Refreshes(s, u, t) PROVE TransactionsAreGuarded'
  <2>1. t \in Txn /\ UNCHANGED <<current_version_no, approved_since>>
    BY <1>4 DEF Refreshes, Others, artifactRows
  <2>2. u = txn[s] /\ TxnOK(u)
    BY <1>0, <1>4 DEF Refreshes, TransactionsAreGuarded
  <2>3. t.op = "approve" => /\ t.cascade \subseteq Downstream(t.artifact)
                            /\ Downstream(t.artifact) \cap DOMAIN approved_since
                                  \subseteq t.cascade
    BY <1>4 DEF Refreshes, Cascade, IInv, ApprovedArePresent
  <2>4. TxnOK(t)
    BY <1>4, <2>2, <2>3 DEF Refreshes, TxnOK
  <2>5. TxnOK(t)'
    BY <2>1, <2>4 DEF TxnOK
  <2> QED
    BY <1>1, <1>2, <1>4, <2>1, <2>5 DEF Refreshes
<1>5. ASSUME NEW s \in Session, NEW t, Commits(s, t) PROVE TransactionsAreGuarded'
  <2>1. t \in Txn /\ s \in Open /\ t = txn[s] /\ t.refreshed /\ t.artifact \in Artifact
    BY <1>5 DEF Commits, Txn
  <2>2. ASSUME NEW r \in Open \ {s}, NEW v \in Txn, v = txn[r] PROVE TxnOK(v)'
    <3>1. TxnOK(v) /\ v.artifact \in Artifact
      BY <1>0, <2>2 DEF TransactionsAreGuarded, Txn
    <3>2. v.refreshed => EarlyLocks(v) \cap EarlyLocks(t) = {}
      BY <1>0, <2>1, <2>2 DEF LocksAreExclusive
    <3>3. v.refreshed /\ v.op \in {"edit", "generate"} =>
              current_version_no'[v.artifact] = current_version_no[v.artifact]
      BY <1>0, <1>5, <3>1, <3>2, VersionsGrow DEF EarlyLocks
    <3>4. v.refreshed /\ v.op = "approve" => approved_since' = approved_since
      BY <1>5, <3>2 DEF EarlyLocks, SetsPointer, Commits
    <3>5. current_version_no' \in [Artifact -> Nat]
      BY <1>0 DEF TypeOK
    <3> QED
      BY <1>0, <1>5, <3>1, <3>3, <3>4, <3>5, VersionsGrow, TxnKept
  <2> QED
    BY <1>1, <1>5, <2>2 DEF Commits
<1>6. ASSUME NEW s \in Session, Drops(s) PROVE TransactionsAreGuarded'
  <2>1. UNCHANGED <<current_version_no, approved_since>>
    BY <1>6 DEF Drops, Others, artifactRows
  <2> QED
    BY <1>1, <1>2, <1>6, <2>1 DEF Drops
<1>7. CASE JobsOnly
  BY <1>0, <1>7 DEF JobsOnly, artifactRows, TransactionsAreGuarded, TxnOK, Open
<1> QED
  BY <1>0, <1>3, <1>4, <1>5, <1>6, <1>7, Steps

-----------------------------------------------------------------------------
(* Decisions and marks.                                                    *)

(* What a commit does to the decisions of a version. *)
LEMMA Decided ==
    ASSUME TypeOK, NEW s \in Session, NEW t, Commits(s, t), TxnOK(t),
           NEW b \in Artifact, NEW m \in Versions(b),
           b # t.artifact \/ ~Deciding(t.op, t.artifact) \/ m # DecidedVersion(t)
    PROVE  latest_decision'[b][m] = latest_decision[b][m]
<1> DEFINE a == t.artifact
           n == DecidedVersion(t)
<1>1. t \in Txn /\ t.refreshed /\ a \in Artifact
  BY DEF Commits, Txn
<1>2. CASE Deciding(t.op, a)
  <2>1. Record(a, n, DecidedKind(t), t.at)
    BY <1>2 DEF Commits
  <2>2. b # a \/ m # n
    BY <1>2
  <2> HIDE DEF a, n
  <2> QED
    BY <1>1, <2>1, <2>2, RecordedHereOnly
<1>3. CASE ~Deciding(t.op, a)
  BY <1>3 DEF Commits
<1> QED
  BY <1>2, <1>3

LEMMA UndecidedStep ==
    ASSUME IInv, [Next]_vars
    PROVE  UndecidedAhead'
<1>0. TypeOK /\ TransactionsAreGuarded /\ UndecidedAhead
  BY DEF IInv
<1>1. ASSUME UNCHANGED <<current_version_no, latest_decision>> PROVE UndecidedAhead'
  BY <1>0, <1>1 DEF UndecidedAhead, Versions
<1>2. ASSUME NEW s \in Session, NEW t, Commits(s, t) PROVE UndecidedAhead'
  <2> SUFFICES ASSUME NEW b \in Artifact, NEW m \in Versions(b), m > current_version_no'[b]
               PROVE  latest_decision'[b][m].kind = "NONE"
    BY DEF UndecidedAhead, Versions
  <2>1. t \in Txn /\ TxnOK(t) /\ t.refreshed /\ t.artifact \in Artifact
    BY <1>0, <1>2 DEF Commits, TransactionsAreGuarded, Txn
  <2>2. /\ current_version_no[b] \in Nat /\ current_version_no'[b] \in Nat /\ m \in Nat
        /\ current_version_no[t.artifact] \in Nat
    BY <1>0, <2>1, TypeStep DEF TypeOK, Versions
  <2>3. current_version_no[b] <= current_version_no'[b]
    BY <1>0, <1>2, VersionsGrow
  <2>4. m > current_version_no[b]
    BY <2>2, <2>3
  <2>5. ASSUME b = t.artifact, Deciding(t.op, t.artifact) PROVE m # DecidedVersion(t)
    <3>1. CASE t.op = "generate"
      <4>1. current_version_no'[b] = current_version_no[b] + 1
        BY <1>0, <1>2, <2>5, <3>1, VersionsGrow
      <4> QED
        BY <2>2, <2>5, <3>1, <4>1 DEF DecidedVersion
    <3>2. CASE t.op # "generate"
      BY <1>0, <2>1, <2>2, <2>4, <2>5, <3>2, DecidesOnVersion
    <3> QED
      BY <3>1, <3>2
  <2>6. latest_decision'[b][m] = latest_decision[b][m]
    BY <1>0, <1>2, <2>1, <2>5, Decided
  <2> QED
    BY <1>0, <2>4, <2>6 DEF UndecidedAhead
<1> QED
  BY <1>0, <1>1, <1>2, Steps DEF Opens, Refreshes, Drops, JobsOnly, Others, artifactRows

(* Whoever decides leaves an artifact that is not waiting any more, and    *)
(* whoever leaves one waiting has added a version.                         *)
LEMMA LeavesWaiting ==
    ASSUME TypeOK, NEW s \in Session, NEW t, Commits(s, t), TxnOK(t),
           state'[t.artifact] = "AWAITING_APPROVAL"
    PROVE  /\ ~Deciding(t.op, t.artifact)
           /\ t.op \notin {"edit", "generate"} => state[t.artifact] = "AWAITING_APPROVAL"
<1>1. t \in Txn /\ t.op \in Operation /\ t.artifact \in Artifact
  BY DEF Commits, Txn
<1>2. IF Outcome(t) # t.seen THEN state'[t.artifact] = Outcome(t)
                             ELSE state'[t.artifact] = state[t.artifact]
  BY <1>1 DEF Commits, TypeOK
<1>3. CASE t.op \in {"approve", "reject"}
  BY <1>1, <1>2, <1>3, Outcomes DEF TxnOK
<1>4. CASE t.op = "generate"
  BY <1>1, <1>2, <1>4, Outcomes DEF TxnOK, Deciding
<1>5. CASE t.op \in {"edit", "request", "fail"}
  BY <1>1, <1>2, <1>5, Outcomes DEF Deciding
<1> QED
  BY <1>1, <1>3, <1>4, <1>5 DEF Operation

LEMMA AwaitingStep ==
    ASSUME IInv, [Next]_vars
    PROVE  AwaitingIsUndecided'
<1>0. TypeOK /\ TransactionsAreGuarded /\ UndecidedAhead /\ AwaitingIsUndecided /\ TypeOK'
  BY TypeStep DEF IInv
<1>1. ASSUME UNCHANGED <<state, current_version_no, latest_decision>>
      PROVE  AwaitingIsUndecided'
  BY <1>0, <1>1 DEF AwaitingIsUndecided
<1>2. ASSUME NEW s \in Session, NEW t, Commits(s, t) PROVE AwaitingIsUndecided'
  <2> SUFFICES ASSUME NEW b \in Artifact, state'[b] = "AWAITING_APPROVAL"
               PROVE  /\ current_version_no'[b] > 0
                      /\ latest_decision'[b][current_version_no'[b]].kind = "NONE"
    BY DEF AwaitingIsUndecided
  <2>1. t \in Txn /\ TxnOK(t) /\ t.artifact \in Artifact
    BY <1>0, <1>2 DEF Commits, TransactionsAreGuarded, Txn
  <2>2. /\ current_version_no[b] \in Nat /\ current_version_no'[b] \in Nat
        /\ current_version_no'[b] <= MaxVersion[b] /\ current_version_no[b] <= MaxVersion[b]
        /\ MaxVersion[b] \in Nat
    BY <1>0, ReviewAssumption DEF TypeOK
  <2>3. CASE b # t.artifact
    <3>1. state[b] = "AWAITING_APPROVAL" /\ current_version_no'[b] = current_version_no[b]
      BY <1>0, <1>2, <2>1, <2>3, VersionsGrow DEF Commits, TypeOK
    <3>2. current_version_no[b] > 0 /\ latest_decision[b][current_version_no[b]].kind = "NONE"
      BY <1>0, <3>1 DEF AwaitingIsUndecided
    <3>3. current_version_no[b] \in Versions(b)
      BY <2>2, <3>2 DEF Versions
    <3> QED
      BY <1>0, <1>2, <2>1, <2>3, <3>1, <3>2, <3>3, Decided
  <2>4. CASE b = t.artifact /\ t.op \in {"edit", "generate"}
    <3>1. current_version_no'[b] = current_version_no[b] + 1
      BY <1>0, <1>2, <2>4, VersionsGrow
    <3> DEFINE n == current_version_no'[b]
    <3>2. n \in Versions(b) /\ n > current_version_no[b] /\ n > 0
      BY <2>2, <3>1 DEF Versions
    <3>3. PICK m \in Versions(b) : m = n
      BY <3>2
    <3>4. latest_decision[b][m].kind = "NONE"
      BY <1>0, <3>2, <3>3 DEF UndecidedAhead
    <3>5. latest_decision'[b][m] = latest_decision[b][m]
      BY <1>0, <1>2, <2>1, <2>4, Decided, LeavesWaiting
    <3> QED
      BY <3>2, <3>3, <3>4, <3>5
  <2>5. CASE b = t.artifact /\ t.op \notin {"edit", "generate"}
    <3>1. state[b] = "AWAITING_APPROVAL" /\ current_version_no'[b] = current_version_no[b]
          /\ ~Deciding(t.op, t.artifact)
      BY <1>0, <1>2, <2>1, <2>5, VersionsGrow, LeavesWaiting
    <3>2. current_version_no[b] > 0 /\ latest_decision[b][current_version_no[b]].kind = "NONE"
      BY <1>0, <3>1 DEF AwaitingIsUndecided
    <3>3. latest_decision' = latest_decision
      BY <1>2, <3>1 DEF Commits
    <3> QED
      BY <3>1, <3>2, <3>3
  <2> QED
    BY <2>3, <2>4, <2>5
<1> QED
  BY <1>0, <1>1, <1>2, Steps DEF Opens, Refreshes, Drops, JobsOnly, Others, artifactRows

LEMMA PresentStep ==
    ASSUME IInv, [Next]_vars
    PROVE  ApprovedArePresent'
<1>0. TypeOK /\ TransactionsAreGuarded /\ ApprovedArePresent
  BY DEF IInv
<1>1. ASSUME UNCHANGED <<state, approved_since>> PROVE ApprovedArePresent'
  BY <1>0, <1>1 DEF ApprovedArePresent, Present
<1>2. ASSUME NEW s \in Session, NEW t, Commits(s, t) PROVE ApprovedArePresent'
  <2>1. t \in Txn /\ TxnOK(t) /\ t.artifact \in Artifact /\ t.op \in Operation
    BY <1>0, <1>2 DEF Commits, TransactionsAreGuarded, Txn
  <2>2. Outcome(t) # Absent
    BY <2>1, Outcomes DEF ArtifactState, Absent
  <2>3. Present \subseteq Present'
    BY <1>0, <1>2, <2>2 DEF Commits, TypeOK, Present
  <2>4. CASE t.op = "approve"
    <3>1. state'[t.artifact] # Absent
      BY <1>0, <1>2, <2>1, <2>2, <2>4, Outcomes DEF Commits, TypeOK, TxnOK
    <3>2. DOMAIN approved_since' = DOMAIN approved_since \cup {t.artifact}
      BY <1>2, <2>4 DEF Commits, MarkApproved
    <3> QED
      BY <1>0, <2>1, <2>3, <3>1, <3>2 DEF ApprovedArePresent, Present
  <2>5. CASE t.op # "approve"
    BY <1>0, <1>2, <2>3, <2>5 DEF ApprovedArePresent, Commits
  <2> QED
    BY <2>4, <2>5
<1> QED
  BY <1>0, <1>1, <1>2, Steps DEF Opens, Refreshes, Drops, JobsOnly, Others, artifactRows

(* An approval of a: everything behind a that was ever approved is in its  *)
(* cascade, because no other approval has committed since it read.         *)
LEMMA StaleStep ==
    ASSUME IInv, [Next]_vars
    PROVE  StaleMeansOutdated'
<1>0. TypeOK /\ TransactionsAreGuarded /\ StaleMeansOutdated
  BY DEF IInv
<1>1. ASSUME UNCHANGED <<stale, approved_since>> PROVE StaleMeansOutdated'
  BY <1>0, <1>1 DEF StaleMeansOutdated
<1>2. ASSUME NEW s \in Session, NEW t, Commits(s, t), t.op = "approve"
      PROVE  StaleMeansOutdated'
  <2> DEFINE a == t.artifact
  <2>1. t \in Txn /\ TxnOK(t) /\ t.refreshed /\ a \in Artifact
    BY <1>0, <1>2 DEF Commits, TransactionsAreGuarded, Txn
  <2>2. /\ t.cascade \subseteq Downstream(a)
        /\ Downstream(a) \cap DOMAIN approved_since \subseteq t.cascade
    BY <1>2, <2>1 DEF TxnOK
  <2>3. \A b \in Artifact :
            stale'[b] <=> (stale[b] /\ b # a) \/ (b \in t.cascade /\ ~stale[b])
    BY <1>2 DEF Commits
  <2>4. approved_since' = [b \in DOMAIN approved_since \cup {a} |->
                              IF b = a THEN {} ELSE approved_since[b] \cup {a}]
    BY <1>2 DEF Commits, MarkApproved
  <2>5. a \notin Downstream(a)
    BY <2>1, NotDownstreamOfItself
  <2> HIDE DEF a
  <2>6. ASSUME NEW d \in DOMAIN approved_since'
        PROVE  stale'[d] <=> \E b \in approved_since'[d] : d \in Downstream(b)
    <3>1. d \in Artifact
      BY <1>0, <2>1, <2>4, <2>6 DEF TypeOK
    <3>2. CASE d = a
      BY <2>2, <2>3, <2>4, <2>5, <3>1, <3>2
    <3>3. CASE d # a
      <4>1. d \in DOMAIN approved_since /\ approved_since'[d] = approved_since[d] \cup {a}
        BY <2>4, <2>6, <3>3
      <4>2. stale[d] <=> \E b \in approved_since[d] : d \in Downstream(b)
        BY <1>0, <4>1 DEF StaleMeansOutdated
      <4>3. stale'[d] <=> stale[d] \/ d \in t.cascade
        BY <2>3, <3>1, <3>3
      <4>4. d \in t.cascade <=> d \in Downstream(a)
        BY <2>2, <4>1
      <4> QED
        BY <4>1, <4>2, <4>3, <4>4
    <3> QED
      BY <3>2, <3>3
  <2> QED
    BY <2>6 DEF StaleMeansOutdated
<1>3. ASSUME NEW s \in Session, NEW t, Commits(s, t), t.op # "approve"
      PROVE  StaleMeansOutdated'
  BY <1>1, <1>3 DEF Commits
<1> QED
  BY <1>0, <1>1, <1>2, <1>3, Steps DEF Opens, Refreshes, Drops, JobsOnly, Others, artifactRows

-----------------------------------------------------------------------------
(* The theorems.                                                           *)

LEMMA InvInit == Init => IInv
<1> SUFFICES ASSUME Init PROVE IInv
  OBVIOUS
<1>1. Open = {}
  BY DEF Init, Open
<1>2. NoDecision \in Decision
  BY ReviewAssumption DEF NoDecision, Decision, DecisionKind
<1>3. TypeOK
  <2>1. \A a \in Artifact : latest_decision[a] \in [Versions(a) -> Decision]
    BY <1>2 DEF Init
  <2>2. \A a \in Artifact : current_version_no[a] <= MaxVersion[a]
    BY ReviewAssumption DEF Init
  <2>3. active_pointers \in [Kind -> Pointer]
    BY DEF Init, Pointer
  <2>4. phase \in Phase
    BY DEF Init, Phase
  <2> QED
    BY <2>1, <2>2, <2>3, <2>4 DEF Init, TypeOK
<1>4. UndecidedAhead
  BY DEF Init, UndecidedAhead, NoDecision
<1>5. AwaitingIsUndecided
  BY DEF Init, AwaitingIsUndecided, Absent
<1>6. ApprovedArePresent /\ StaleMeansOutdated
  BY DEF Init, ApprovedArePresent, StaleMeansOutdated
<1> QED
  BY <1>1, <1>3, <1>4, <1>5, <1>6 DEF IInv, TransactionsAreGuarded, LocksAreExclusive

LEMMA InvStep == IInv /\ [Next]_vars => IInv'
  BY TypeStep, GuardsStep, LocksStep, UndecidedStep, AwaitingStep, PresentStep, StaleStep
     DEF IInv

(* The inductive invariant: an open transaction's guards still justify its *)
(* commit, row locks are exclusive, nobody decides on a version to come.   *)
THEOREM Invariance == Spec => []IInv
<1>1. IInv /\ [Next]_vars => IInv'
  BY InvStep
<1> QED
  BY <1>1, InvInit, PTL DEF Spec

(* The rows, the log, the caches and the open transactions keep their      *)
(* types; in particular the cached phase is one of the pipeline's.         *)
THEOREM TypeCorrect == Spec => []TypeOK
<1>1. IInv => TypeOK
  BY DEF IInv
<1> QED
  BY <1>1, Invariance, PTL

(* Whatever tabs, workers and failures overlap, an artifact that waits for *)
(* a decision has a newest version the view calls undecided (approve,      *)
(* reject, edit, complete_generation).                                     *)
THEOREM WaitingIsReviewable == Spec => []AwaitingIsReviewable
<1>1. IInv => AwaitingIsReviewable
  BY UndecidedAwaits DEF IInv, AwaitingIsReviewable, AwaitingIsUndecided
<1> QED
  BY <1>1, Invariance, PTL

(* Marks tell exactly which approved artifacts descend from something that *)
(* was approved after them (cascade_staleness, clear_stale).               *)
THEOREM MarksAreExact == Spec => []StaleMeansOutdated
<1>1. IInv => StaleMeansOutdated
  BY DEF IInv
<1> QED
  BY <1>1, Invariance, PTL

-----------------------------------------------------------------------------
(* Operations that do not overlap.                                         *)

LEMMA StillNothingMoved ==
    ASSUME NEW t, NothingMoved(t), UNCHANGED <<state, phase, latest_decision>>
    PROVE  NothingMoved(t)'
<1>1. Held(t)' = Held(t)
  BY DEF Held, Present
<1> QED
  BY <1>1 DEF NothingMoved, Versions

(* After a step of the only session, that session alone can be open. *)
LEMMA OnlyOpen ==
    ASSUME OneAtATime, TypeOK, NEW s \in Session, NEW t \in Txn \cup {Closed},
           txn' = [txn EXCEPT ![s] = t], t # Closed => NothingMoved(t)'
    PROVE  \A r \in Open' : NothingMoved(txn[r])'
<1> SUFFICES ASSUME NEW r \in Open' PROVE NothingMoved(txn[r])'
  OBVIOUS
<1>1. r = s
  BY DEF OneAtATime, Open
<1>2. txn'[r] = t /\ t # Closed
  BY <1>1, OpenAfter
<1>3. NothingMoved(t)'
  BY <1>2
<1> QED
  BY <1>2, <1>3 DEF NothingMoved, Held

LEMMA HeldByRefreshed ==
    ASSUME NEW s, NEW u, NEW t, Refreshes(s, u, t), NothingMoved(u)
    PROVE  Held(u) = Held(t)
<1>1. /\ t.op = u.op /\ t.artifact = u.artifact /\ DOMAIN t.rows = {}
      /\ \A b \in DOMAIN u.rows : u.rows[b] = state[b]
  BY DEF Refreshes, NothingMoved
<1>2. Outcome(t) = Outcome(u)
  BY <1>1 DEF Outcome
<1> QED
  BY <1>1, <1>2 DEF Held

LEMMA NothingMovedStep ==
    ASSUME SerialInv, [Next]_vars
    PROVE  \A s \in Open' : NothingMoved(txn[s])'
<1>0. TypeOK /\ OneAtATime /\ \A s \in Open : NothingMoved(txn[s])
  BY DEF SerialInv, IInv
<1>1. ASSUME NEW s \in Session, NEW t, Opens(s, t)
      PROVE  \A r \in Open' : NothingMoved(txn[r])'
  <2>1. NothingMoved(t)
    <3>1. Deciding(t.op, t.artifact) =>
              \A a \in Artifact : \A n \in Versions(a) : latest_decision[a][n].at < t.at
      BY <1>0, <1>1, NowIsLater DEF Opens
    <3> QED
      BY <1>1, <3>1 DEF Opens, NothingMoved
  <2>2. NothingMoved(t)'
    BY <1>1, <2>1, StillNothingMoved DEF Opens, Others, artifactRows, projectRow
  <2>3. t \in Txn /\ txn' = [txn EXCEPT ![s] = t]
    BY <1>1 DEF Opens
  <2> QED
    BY <1>0, <2>2, <2>3, OnlyOpen
<1>2. ASSUME NEW s \in Session, NEW u, NEW t, Refreshes(s, u, t)
      PROVE  \A r \in Open' : NothingMoved(txn[r])'
  <2>1. NothingMoved(u)
    BY <1>0, <1>2 DEF Refreshes
  <2>2. Held(u) = Held(t)
    BY <1>2, <2>1, HeldByRefreshed
  <2>3. NothingMoved(t)
    <3>1. Deciding(t.op, t.artifact) = Deciding(u.op, u.artifact)
      BY <1>2 DEF Refreshes
    <3> QED
      BY <1>2, <2>1, <2>2, <3>1 DEF Refreshes, NothingMoved
  <2>4. NothingMoved(t)'
    BY <1>2, <2>3, StillNothingMoved DEF Refreshes, Others, artifactRows, projectRow
  <2>5. t \in Txn /\ txn' = [txn EXCEPT ![s] = t]
    BY <1>2 DEF Refreshes
  <2> QED
    BY <1>0, <2>4, <2>5, OnlyOpen
<1>3. ASSUME NEW s \in Session, txn' = [txn EXCEPT ![s] = Closed]
      PROVE  \A r \in Open' : NothingMoved(txn[r])'
  BY <1>0, <1>3, OnlyOpen
<1>4. ASSUME JobsOnly PROVE \A r \in Open' : NothingMoved(txn[r])'
  <2> SUFFICES ASSUME NEW r \in Open' PROVE NothingMoved(txn[r])'
    OBVIOUS
  <2>1. txn' = txn /\ r \in Open /\ UNCHANGED <<state, phase, latest_decision>>
    BY <1>4 DEF JobsOnly, Open, artifactRows, projectRow
  <2>2. PICK t : t = txn[r]
    OBVIOUS
  <2>3. NothingMoved(t)
    BY <1>0, <2>1, <2>2
  <2>4. NothingMoved(t)'
    BY <2>1, <2>3, StillNothingMoved
  <2> QED
    BY <2>1, <2>2, <2>4 DEF NothingMoved, Held
<1> QED
  BY <1>0, <1>1, <1>2, <1>3, <1>4, Steps DEF Commits, Drops

(* A commit takes its artifact to the operation's outcome. *)
LEMMA CommitMoves ==
    ASSUME TypeOK, NEW s \in Session, NEW t, Commits(s, t), NothingMoved(t)
    PROVE  /\ state' = [state EXCEPT ![t.artifact] = Outcome(t)]
           /\ t.artifact \in Artifact /\ t.op \in Operation /\ t \in Txn
           /\ phase' = PhaseOf(Held(t))
<1>1. t.artifact \in Artifact /\ t.op \in Operation /\ t \in Txn /\ t.refreshed
  BY DEF Commits, Txn
<1>2. t.seen = state[t.artifact] /\ t.phase = phase /\ t.derived = PhaseOf(Held(t))
  BY <1>1 DEF NothingMoved
<1>3. state' = [state EXCEPT ![t.artifact] = Outcome(t)]
  <2>1. CASE Outcome(t) # t.seen
    BY <2>1 DEF Commits
  <2>2. CASE Outcome(t) = t.seen
    <3>1. state' = state
      BY <2>2 DEF Commits
    <3> QED
      BY <1>1, <1>2, <2>2, <3>1 DEF TypeOK
  <2> QED
    BY <2>1, <2>2
<1> QED
  BY <1>1, <1>2, <1>3 DEF Commits

LEMMA PhaseStep ==
    ASSUME SerialInv, [Next]_vars
    PROVE  PhaseIsCurrent'
<1>0. TypeOK /\ PhaseIsCurrent /\ \A s \in Open : NothingMoved(txn[s])
  BY DEF SerialInv, IInv
<1>1. ASSUME UNCHANGED <<state, phase>> PROVE PhaseIsCurrent'
  BY <1>0, <1>1 DEF PhaseIsCurrent, Present
<1>2. ASSUME NEW s \in Session, NEW t, Commits(s, t) PROVE PhaseIsCurrent'
  <2>1. NothingMoved(t)
    BY <1>0, <1>2 DEF Commits
  <2>2. /\ state' = [state EXCEPT ![t.artifact] = Outcome(t)]
        /\ t.artifact \in Artifact /\ t.op \in Operation
        /\ phase' = PhaseOf(Held(t))
    BY <1>0, <1>2, <2>1, CommitMoves
  <2>3. Outcome(t) # Absent
    BY <2>2, Outcomes DEF ArtifactState, Absent
  <2>4. Present' = Present \cup {t.artifact}
    BY <1>0, <2>2, <2>3 DEF Present, TypeOK
  <2>5. \A b \in DOMAIN t.rows : t.rows[b] = state[b]
    BY <2>1 DEF NothingMoved
  <2>6. \A b \in Present' : state'[b] = IF b = t.artifact THEN Outcome(t) ELSE state[b]
    BY <1>0, <2>2, <2>4 DEF TypeOK, Present
  <2>7. Held(t) = [b \in Present' |-> state'[b]]
    BY <2>4, <2>5, <2>6 DEF Held
  <2> QED
    BY <2>2, <2>7 DEF PhaseIsCurrent
<1> QED
  BY <1>0, <1>1, <1>2, Steps DEF Opens, Refreshes, Drops, JobsOnly, Others, artifactRows,
     projectRow

(* The view of an artifact whose versions and decisions have not changed. *)
LEMMA ViewKept ==
    ASSUME NEW a \in Artifact, current_version_no'[a] = current_version_no[a],
           latest_decision'[a] = latest_decision[a]
    PROVE  ApprovedVersion(a)' = ApprovedVersion(a)
<1>1. Approving(a)' = Approving(a)
  BY DEF Approving
<1> QED
  BY <1>1 DEF ApprovedVersion

(* The newest decision approves, so its version is what the view shows. *)
LEMMA NewestWins ==
    ASSUME TypeOK', NEW a \in Artifact, NEW n \in Versions(a), n <= current_version_no'[a],
           latest_decision'[a][n].kind = "APPROVE",
           \A m \in Versions(a) \ {n} : latest_decision'[a][m].at < latest_decision'[a][n].at
    PROVE  ApprovedVersion(a)' = n
<1>1. \A m \in Versions(a) : latest_decision'[a][m].at \in Nat
  <2>1. latest_decision'[a] \in [Versions(a) -> Decision]
    BY DEF TypeOK, Versions
  <2>2. \A d \in Decision : d.at \in Nat
    BY DEF Decision
  <2> QED
    BY <2>1, <2>2
<1>2. /\ current_version_no'[a] \in Nat /\ MaxVersion[a] \in Nat
      /\ current_version_no'[a] <= MaxVersion[a]
  BY ReviewAssumption DEF TypeOK
<1>3. n \in Approving(a)'
  BY <1>2 DEF Approving, Versions
<1>4. \A m \in Approving(a)' : m \in Versions(a)
  BY <1>2 DEF Approving, Versions
<1>5. \A m \in Approving(a)' : latest_decision'[a][m].at <= latest_decision'[a][n].at
  BY <1>1, <1>4
<1>6. ASSUME NEW k \in Approving(a)',
             \A m \in Approving(a)' : latest_decision'[a][m].at <= latest_decision'[a][k].at
      PROVE  k = n
  BY <1>1, <1>3, <1>4, <1>6
<1>7. n = CHOOSE k \in Approving(a)' :
            \A m \in Approving(a)' : latest_decision'[a][m].at <= latest_decision'[a][k].at
  BY <1>3, <1>5, <1>6
<1> QED
  BY <1>3, <1>7 DEF ApprovedVersion

LEMMA PointerStep ==
    ASSUME SerialInv, [Next]_vars
    PROVE  PointerFollowsView'
<1>0. /\ TypeOK /\ TypeOK' /\ TransactionsAreGuarded /\ PointerFollowsView
      /\ \A s \in Open : NothingMoved(txn[s])
  BY TypeStep DEF SerialInv, IInv
<1>1. ASSUME UNCHANGED <<state, current_version_no, latest_decision, active_pointers>>
      PROVE  PointerFollowsView'
  BY <1>0, <1>1, ViewKept DEF PointerFollowsView, OfItsKind
<1>2. ASSUME NEW s \in Session, NEW t, Commits(s, t) PROVE PointerFollowsView'
  <2> DEFINE a == t.artifact
  <2>1. NothingMoved(t) /\ TxnOK(t) /\ t.refreshed
    BY <1>0, <1>2 DEF Commits, TransactionsAreGuarded
  <2>2. /\ state' = [state EXCEPT ![a] = Outcome(t)]
        /\ a \in Artifact /\ t.op \in Operation /\ t \in Txn
    BY <1>0, <1>2, <2>1, CommitMoves
  <2> SUFFICES ASSUME NEW b \in OfItsKind, state'[b] = "APPROVED"
               PROVE  active_pointers'[KindOf[b]] =
                          [artifact |-> b, version |-> ApprovedVersion(b)']
    BY DEF PointerFollowsView
  <2>3. b \in Artifact /\ b \notin PerScene /\ KindOf[b] \in Kind
    BY ReviewAssumption DEF OfItsKind
  <2>4. CASE b # a
    <3>1. state[b] = "APPROVED"
      BY <1>0, <2>2, <2>3, <2>4 DEF TypeOK
    <3>2. current_version_no'[b] = current_version_no[b]
      BY <1>0, <1>2, <2>3, <2>4, VersionsGrow
    <3>3. \A m \in Versions(b) : latest_decision'[b][m] = latest_decision[b][m]
      BY <1>0, <1>2, <2>1, <2>3, <2>4, Decided
    <3>4. latest_decision'[b] = latest_decision[b]
      <4>1. /\ latest_decision[b] \in [Versions(b) -> Decision]
            /\ latest_decision'[b] \in [Versions(b) -> Decision]
        BY <1>0, <2>3 DEF TypeOK, Versions
      <4> QED
        BY <3>3, <4>1
    <3>5. KindOf[b] # KindOf[a]
      BY <2>2, <2>4 DEF OfItsKind
    <3>6. active_pointers'[KindOf[b]] = active_pointers[KindOf[b]]
      BY <1>0, <1>2, <2>3, <3>5 DEF Commits, SetPointer, TypeOK
    <3>7. ApprovedVersion(b)' = ApprovedVersion(b)
      BY <2>3, <3>2, <3>4, ViewKept
    <3> QED
      BY <1>0, <3>1, <3>6, <3>7 DEF PointerFollowsView
  <2>5. CASE b = a
    <3> DEFINE n == DecidedVersion(t)
    <3>1. Outcome(t) = "APPROVED"
      BY <1>0, <2>2, <2>5 DEF TypeOK
    <3>2. /\ SetsPointer(t) /\ Deciding(t.op, a) /\ DecidedKind(t) = "APPROVE"
          /\ t.op \in {"approve", "generate"}
      BY <2>2, <2>3, <2>5, <3>1, Outcomes DEF SetsPointer, Deciding, DecidedKind, Operation
    <3>3. /\ n \in Versions(a) /\ n \in Nat
          /\ t.op # "generate" => n <= current_version_no[a]
      BY <1>0, <2>1, <2>2, <3>2, DecidesOnVersion
    <3>4. n <= current_version_no'[a]
      <4>1. /\ current_version_no[a] \in Nat /\ current_version_no'[a] \in Nat
            /\ current_version_no[a] <= current_version_no'[a]
        BY <1>0, <1>2, <2>2, VersionsGrow DEF TypeOK
      <4>2. CASE t.op = "generate"
        BY <1>0, <1>2, <4>1, <4>2, VersionsGrow DEF DecidedVersion
      <4>3. CASE t.op # "generate"
        BY <3>3, <4>1, <4>3
      <4> QED
        BY <4>2, <4>3
    <3>5. \A m \in Versions(a) : latest_decision[a][m].at < t.at
      BY <2>1, <2>2, <3>2 DEF NothingMoved
    <3>6. latest_decision'[a][n] = [kind |-> "APPROVE", at |-> t.at]
      <4>1. Record(a, n, "APPROVE", t.at)
        BY <1>2, <3>2 DEF Commits
      <4>2. t.at \in 0..MaxDecision /\ "APPROVE" \in DecisionKind
        BY <2>2 DEF Txn, DecisionKind
      <4>3. latest_decision[a][n].at <= t.at
        BY <1>0, <2>2, <3>3, <3>5, <4>2 DEF TypeOK, Decision
      <4> HIDE DEF a, n
      <4> QED
        BY <1>0, <2>2, <3>3, <4>1, <4>2, <4>3, Recorded
    <3>7. \A m \in Versions(a) \ {n} : latest_decision'[a][m] = latest_decision[a][m]
      BY <1>0, <1>2, <2>1, <2>2, Decided
    <3> HIDE DEF n
    <3>8. ApprovedVersion(a)' = n
      <4>1. latest_decision'[a][n].kind = "APPROVE" /\ latest_decision'[a][n].at = t.at
        BY <3>6
      <4>2. \A m \in Versions(a) \ {n} : latest_decision'[a][m].at < latest_decision'[a][n].at
        BY <3>5, <3>7, <4>1
      <4> HIDE DEF a
      <4> QED
        BY <1>0, <2>2, <3>3, <3>4, <4>1, <4>2, NewestWins
    <3>9. active_pointers'[KindOf[a]] = [artifact |-> a, version |-> n]
      BY <1>0, <1>2, <2>3, <2>5, <3>2 DEF Commits, SetPointer, TypeOK, n
    <3> QED
      BY <2>5, <3>8, <3>9
  <2> QED
    BY <2>4, <2>5
<1> QED
  BY <1>0, <1>1, <1>2, Steps DEF Opens, Refreshes, Drops, JobsOnly, Others, artifactRows,
     projectRow

(* With one transaction at a time, what a session has read is still so     *)
(* when it commits.                                                        *)
LEMMA SerialInvariance == OneAtATime /\ Spec => []SerialInv
<1>1. OneAtATime /\ Init => SerialInv
  <2> SUFFICES ASSUME OneAtATime, Init PROVE SerialInv
    OBVIOUS
  <2>1. Open = {}
    BY DEF Init, Open
  <2>2. PointerFollowsView
    BY DEF Init, PointerFollowsView, OfItsKind, Absent
  <2>3. PhaseIsCurrent
    <3> DEFINE read == [a \in Present |-> state[a]]
    <3>1. DOMAIN read = {}
      BY DEF Init, Present
    <3>2. DOMAIN Collapse(read) = {}
      BY <3>1 DEF Collapse
    <3>3. DerivePhase(Order, Collapse(read)) = Draft
      BY <3>2 DEF DerivePhase
    <3> QED
      BY <3>3 DEF PhaseIsCurrent, PhaseOf, Init
  <2> QED
    BY <2>1, <2>2, <2>3, InvInit DEF SerialInv
<1>2. SerialInv /\ [Next]_vars => SerialInv'
  BY InvStep, NothingMovedStep, PointerStep, PhaseStep DEF SerialInv, OneAtATime
<1> QED
  BY <1>1, <1>2, PTL DEF Spec

(* When operations do not overlap, the pointer of an approved artifact     *)
(* that is the only one of its kind is what the view calls its approved    *)
(* version, whoever approved it (approve, _maybe_auto_approve).            *)
THEOREM PointersFollow == OneAtATime /\ Spec => []PointerFollowsView
<1>1. SerialInv => PointerFollowsView
  BY DEF SerialInv
<1> QED
  BY <1>1, SerialInvariance, PTL

(* When operations do not overlap, the cached phase is what derive_phase   *)
(* answers (refresh_project_state at the end of every operation).          *)
THEOREM PhaseFollows == OneAtATime /\ Spec => []PhaseIsCurrent
<1>1. SerialInv => PhaseIsCurrent
  BY DEF SerialInv
<1> QED
  BY <1>1, SerialInvariance, PTL

=============================================================================
