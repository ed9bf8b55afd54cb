------------------------------- MODULE Review -------------------------------
(***************************************************************************)
(* What a decision does to a project: the artifact row, the decision log   *)
(* and the view over it, the active pointer, the staleness of everything   *)
(* downstream, and the phase cached on the project row.  Decisions and     *)
(* edits come from services/review.py, requests from services/jobs.py      *)
(* behind services/admission.py, completions and failures from stages.py   *)
(* and skeleton.py; all of them end in projection.py.                      *)
(*                                                                         *)
(* A transaction runs in three steps.  Begin reads the rows its checks     *)
(* need.  Refresh takes the row locks its first UPDATEs take, reads the    *)
(* rows it has not read yet, and derives the phase from what it read: the  *)
(* ORM reads a row once per session.  Commit writes, each column only if   *)
(* it differs from what the session read.  Between two steps others        *)
(* commit (READ COMMITTED); an UPDATE waits for the row's lock.            *)
(*                                                                         *)
(* A job here is the idempotency key it holds.  How a job is claimed,      *)
(* lost, released and dispatched is Generation's.                          *)
(***************************************************************************)
EXTENDS Pipeline, FiniteSets, Lifecycles

CONSTANTS Kind,         \* the stages' kinds
          Requires,     \* pipeline.yaml: kind -> the kinds it requires
          Order,        \* Pipeline.stages
          Phases,       \* kind -> its phase_generating and its phase_review
          Artifact,     \* output slots of the project
          KindOf,       \* artifact -> its kind
          PerScene,     \* the artifacts with a scene_ref
          AutoApproved, \* artifacts whose series policy needs no human
          Session,      \* transactions open at the same time
          MaxVersion,   \* bound: artifact -> how many versions it may get
          MaxDecision,  \* bound: transactions that decide something
          Failing       \* artifacts whose provider may raise

Absent == "ABSENT"
NoPhase == "no_phase"
NoDecision == [kind |-> "NONE", at |-> 0]
NoPointer == [artifact |-> "no_artifact", version |-> 0]
TheProject == "project_row"

(* The pipeline is one that loads: Order is what FoundationProofs shows of *)
(* Pipeline.stages, every stage once and after the stages it requires.     *)
ASSUME ReviewAssumption ==
    /\ Requires \in [Kind -> SUBSET Kind]
    /\ Order \in Seq(Kind) /\ {Order[i] : i \in DOMAIN Order} = Kind
    /\ \A i, j \in DOMAIN Order : Order[i] = Order[j] => i = j
    /\ \A i \in DOMAIN Order : Requires[Order[i]] \subseteq {Order[j] : j \in 1..(i - 1)}
    /\ KindOf \in [Artifact -> Kind]
    /\ PerScene \subseteq Artifact /\ AutoApproved \subseteq Artifact
    /\ MaxVersion \in [Artifact -> Nat] /\ MaxDecision \in Nat
    /\ Failing \subseteq Artifact
    /\ TheProject \notin Artifact


VARIABLES
    state,              \* artifact.state; ABSENT before the row exists
    stale,              \* artifact.stale_since is not null
    current_version_no, \* artifact.current_version_no
    latest_decision,    \* the view's latest_decision: artifact, version -> decision
    active_pointers,    \* video_project.active_pointers, by kind
    phase,              \* video_project.phase
    live,               \* idempotency keys held by live or succeeded jobs
    queued,             \* those whose job has still to finish
    txn,                \* the open transactions
    approved_since      \* history: what was approved after the last approval of each

artifactRows == <<state, stale, current_version_no>>
projectRow == <<active_pointers, phase>>
jobs == <<live, queued>>
vars == <<state, stale, current_version_no, latest_decision, active_pointers, phase,
          live, queued, txn, approved_since>>

DecisionKind == {"NONE", "APPROVE", "REJECT"}
Decision == [kind : DecisionKind, at : 0..MaxDecision]
Pointer == [artifact : Artifact, version : Nat] \cup {NoPointer}
Phase == {"DRAFT"} \cup {Phases[k].generating : k \in Kind} \cup {Phases[k].review : k \in Kind}

Present == {a \in Artifact : state[a] # Absent}
Versions(a) == 1..MaxVersion[a]
Key == [artifact : Artifact, from : Nat]
Downstream(a) == {d \in Artifact : KindOf[d] \in Descendants(Requires, KindOf[a])}

(* An open transaction: its operation, its artifact, the version it is     *)
(* about, the key of its job, the state of the artifact as it read it, its *)
(* now(), the other rows and the phase it has read, whether it refreshed,  *)
(* and then the phase it derived and the rows its cascade marks.           *)
Closed == [op |-> "none"]
Operation == {"approve", "reject", "edit", "request", "generate", "fail"}
StatesRead == UNION {[S -> ArtifactState \cup {Absent}] : S \in SUBSET Artifact}
Txn == [op : Operation, artifact : Artifact, version : Nat, from : Nat,
        seen : ArtifactState \cup {Absent}, rows : StatesRead, phase : Phase \cup {NoPhase},
        at : 0..MaxDecision, refreshed : BOOLEAN, derived : Phase \cup {NoPhase},
        cascade : SUBSET Artifact]
Open == {s \in Session : txn[s] # Closed}

Deciding(op, a) == op \in {"approve", "reject"} \/ (op = "generate" /\ a \in AutoApproved)

Init ==
    /\ state = [a \in Artifact |-> Absent]
    /\ stale = [a \in Artifact |-> FALSE]
    /\ current_version_no = [a \in Artifact |-> 0]
    /\ latest_decision = [a \in Artifact |-> [n \in Versions(a) |-> NoDecision]]
    /\ active_pointers = [k \in Kind |-> NoPointer]
    /\ phase = "DRAFT"
    /\ live = {} /\ queued = {}
    /\ txn = [s \in Session |-> Closed]
    /\ approved_since = [a \in {} |-> {}]
-----------------------------------------------------------------------------
(* The view artifact_version_status.                                       *)

Approving(a) == {n \in 1..current_version_no[a] : latest_decision[a][n].kind = "APPROVE"}

(* current_approval: the version approved last, 0 if there is none. *)
ApprovedVersion(a) ==
    IF Approving(a) = {} THEN 0
    ELSE CHOOSE n \in Approving(a) :
            \A m \in Approving(a) : latest_decision[a][m].at <= latest_decision[a][n].at

VersionStatus(a, n) ==
    LET approved == ApprovedVersion(a)
        decided  == latest_decision[a][n].kind
    IN  CASE approved = n -> "APPROVED"
          [] approved # n /\ decided = "REJECT" -> "REJECTED"
          [] approved # n /\ decided # "REJECT"
               /\ (approved > n \/ (approved # 0 /\ decided = "APPROVE")) -> "SUPERSEDED"
          [] OTHER -> "AWAITING_APPROVAL"

(* A decision enters the log under its transaction's now().  The view      *)
(* reads the newest decision of a version, which need not be this one.     *)
Record(a, n, kind, at) ==
    latest_decision' =
        IF latest_decision[a][n].at > at THEN latest_decision
        ELSE [latest_decision EXCEPT ![a][n] = [kind |-> kind, at |-> at]]

(* History only: a human has approved a. *)
MarkApproved(a) ==
    approved_since' = [b \in DOMAIN approved_since \cup {a} |->
                          IF b = a THEN {} ELSE approved_since[b] \cup {a}]
-----------------------------------------------------------------------------
(* projection.py, on the artifact states a session holds.                  *)

(* _states: one state per kind, the least advanced. *)
Collapse(rows) ==
    [k \in {KindOf[a] : a \in DOMAIN rows} |->
        LeastAdvanced({rows[a] : a \in {b \in DOMAIN rows : KindOf[b] = k}})]

(* recompute_phase. *)
PhaseOf(rows) ==
    LET derived == DerivePhase(Order, Collapse(rows))
    IN  IF derived = Draft THEN "DRAFT" ELSE Phases[derived[1]][derived[2]]

(* admission._check_pipeline. *)
Admits(a, rows) ==
    LET states   == Collapse(rows)
        approved == {k \in DOMAIN states : states[k] = "APPROVED"}
    IN  Unmet(Requires, KindOf[a], approved) = {}

(* require_approved_content of every stage a body reads. *)
Inputs(a) == {b \in Artifact \ PerScene : KindOf[b] \in Requires[KindOf[a]]}
InputsApproved(a) == \A b \in Inputs(a) : state[b] # Absent /\ ApprovedVersion(b) # 0
-----------------------------------------------------------------------------
(* Begin: the reads and the checks of the operation.                       *)

(* now() of a transaction that starts here. *)
Instants ==
    {0} \cup (UNION {{latest_decision[a][n].at : n \in Versions(a)} : a \in Artifact})
        \cup {txn[s].at : s \in Open}
Now == 1 + CHOOSE t \in Instants : \A u \in Instants : u <= t

Begin(s, op, a, version, from, rows, read) ==
    /\ s \notin Open
    /\ Deciding(op, a) => Now <= MaxDecision
    /\ txn' = [txn EXCEPT ![s] =
            [op |-> op, artifact |-> a, version |-> version, from |-> from,
             seen |-> state[a], rows |-> rows, phase |-> read,
             at |-> IF Deciding(op, a) THEN Now ELSE 0,
             refreshed |-> FALSE, derived |-> NoPhase, cascade |-> {}]]
    /\ UNCHANGED <<artifactRows, projectRow, jobs, latest_decision, approved_since>>

(* What each operation asks of the artifact's lifecycle.  A request for an *)
(* artifact without a row is the exception: GENERATION_STARTED.            *)
Event == [approve |-> "APPROVED", reject |-> "REJECTED", edit |-> "HUMAN_EDITED",
          request |-> "REGENERATE_REQUESTED", generate |-> "GENERATION_SUCCEEDED",
          fail |-> "GENERATION_FAILED"]

Row(a) == [b \in {a} |-> state[b]]

(* POST /artifact-versions/<version>/reviews/...: _load and apply_event.   *)
(* expected_version_no is compared with the number of the version itself,  *)
(* so a reviewer who names the version is never refused by it.             *)
BeginReview(s, op, a, n) ==
    /\ op \in {"approve", "reject"}
    /\ n \in 1..current_version_no[a]
    /\ MayApply(Event[op], state[a])
    /\ Begin(s, op, a, n, 0, Row(a), NoPhase)

(* PUT /artifacts/<artifact>/content. *)
BeginEdit(s, a) ==
    /\ a \in Present
    /\ MayApply(Event["edit"], state[a])
    /\ Begin(s, "edit", a, 0, 0, Row(a), NoPhase)

(* POST /projects/<project>/generations: the route reads the project, the  *)
(* admission check reads every artifact.  A missing row is created.        *)
BeginRequest(s, a) ==
    LET rows == [b \in Present |-> state[b]]
        from == current_version_no[a]
    IN  /\ Admits(a, rows)
        /\ [artifact |-> a, from |-> from] \notin live
        /\ IF a \in Present THEN MayApply(Event["request"], state[a])
                            ELSE MayApply("GENERATION_STARTED", "PENDING")
        /\ Begin(s, "request", a, 0, from, rows, phase)

Running(key) == \E t \in Open : /\ txn[t].op \in {"generate", "fail"}
                               /\ key = [artifact |-> txn[t].artifact, from |-> txn[t].from]

(* A stage body that will succeed: it reads its artifact, the project and  *)
(* the approved content of its inputs, and then calls the provider.        *)
BeginGenerate(s, key) ==
    LET a == key.artifact
    IN  /\ ~Running(key)
        /\ MayApply(Event["generate"], state[a])
        /\ InputsApproved(a)
        /\ Begin(s, "generate", a, 0, key.from,
                 [b \in {a} \cup Inputs(a) |-> state[b]], phase)

(* run_job's failure transaction, for a body that raised for any reason.   *)
BeginFail(s, key) ==
    /\ key.artifact \in Failing
    /\ ~Running(key)
    /\ MayApply(Event["fail"], state[key.artifact])
    /\ Begin(s, "fail", key.artifact, 0, key.from, Row(key.artifact), NoPhase)

(* The body of a job whose artifact has left GENERATING raises whatever    *)
(* its provider does (complete_generation): only the job row is written.   *)
FailJobOnly(key) ==
    /\ ~Running(key)
    /\ state[key.artifact] # "GENERATING"
    /\ live' = live \ {key} /\ queued' = queued \ {key}
    /\ UNCHANGED <<artifactRows, projectRow, latest_decision, txn, approved_since>>
-----------------------------------------------------------------------------
(* Refresh: the first UPDATEs, which take their locks, and the reads that  *)
(* the cascade and recompute_phase make.                                   *)

Outcome(t) == IF t.op = "generate" /\ t.artifact \in AutoApproved
              THEN Target("APPROVED") ELSE Target(Event[t.op])

(* Mutant: only a human approval moves the pointer. *)
OnlyHumansSetPointer(t) == t.op = "approve"

(* set_active_pointer: a human approval, and a policy's for an artifact    *)
(* without a scene.                                                        *)
SetsPointer(t) == \/ t.op = "approve"
                  \/ t.op = "generate" /\ t.artifact \in AutoApproved \ PerScene

(* clear_stale and add_version update the artifact row at once, and        *)
(* set_active_pointer the project row.                                     *)
EarlyLocks(t) ==
    (IF t.op \in {"approve", "edit", "generate"} THEN {t.artifact} ELSE {})
        \cup (IF SetsPointer(t) THEN {TheProject} ELSE {})

LockedBy(others) == UNION {EarlyLocks(txn[o]) : o \in {r \in others : txn[r].refreshed}}
MayLock(s, rows) == rows \cap LockedBy(Open \ {s}) = {}

(* What the session takes the artifacts' states to be. *)
Held(t) ==
    [b \in Present \cup {t.artifact} |->
        IF b = t.artifact THEN Outcome(t)
        ELSE IF b \in DOMAIN t.rows THEN t.rows[b] ELSE state[b]]

(* cascade_staleness is called by a human approval only. *)
Cascade(t) == IF t.op = "approve" THEN Downstream(t.artifact) \cap Present ELSE {}

Refresh(s) ==
    LET t == txn[s]
    IN  /\ s \in Open /\ ~t.refreshed
        /\ MayLock(s, EarlyLocks(t))
        /\ t.op \in {"edit", "generate"} =>
                current_version_no[t.artifact] < MaxVersion[t.artifact]
        /\ txn' = [txn EXCEPT ![s] =
                [t EXCEPT !.refreshed = TRUE,
                          !.phase = IF @ = NoPhase THEN phase ELSE @,
                          !.rows = [b \in {} |-> Absent],
                          !.derived = PhaseOf(Held(t)),
                          !.cascade = Cascade(t)]]
        /\ UNCHANGED <<artifactRows, projectRow, jobs, latest_decision, approved_since>>
-----------------------------------------------------------------------------
(* Commit.                                                                 *)

(* What every operation ends with: the state column and the phase column,  *)
(* each written when the session changed it.                               *)
Flush(s, alsoLocks) ==
    LET t       == txn[s]
        moved   == Outcome(t) # t.seen
        written == (IF moved THEN {t.artifact} ELSE {})
                     \cup (IF t.derived # t.phase THEN {TheProject} ELSE {})
    IN  /\ t.refreshed
        /\ MayLock(s, written \cup alsoLocks)
        /\ state' = IF moved THEN [state EXCEPT ![t.artifact] = Outcome(t)] ELSE state
        /\ phase' = IF t.derived # t.phase THEN t.derived ELSE phase
        /\ txn' = [txn EXCEPT ![s] = Closed]

SetPointer(a, n) ==
    active_pointers' = [active_pointers EXCEPT ![KindOf[a]] = [artifact |-> a, version |-> n]]

(* Mutant: an approval that leaves the approved artifact's own stale flag. *)
ApproveStaysStale(s) ==
    LET t        == txn[s]
        unmarked == {d \in t.cascade : ~stale[d]}
    IN  /\ t.op = "approve"
        /\ Flush(s, unmarked)
        /\ Record(t.artifact, t.version, "APPROVE", t.at)
        /\ SetPointer(t.artifact, t.version)
        /\ stale' = [b \in Artifact |-> stale[b] \/ b \in unmarked]
        /\ MarkApproved(t.artifact)
        /\ UNCHANGED <<current_version_no, jobs>>

(* ReviewService.approve. *)
Approve(s) ==
    LET t         == txn[s]
        a         == t.artifact
        unmarked  == {d \in t.cascade : ~stale[d]}
    IN  /\ t.op = "approve"
        /\ Flush(s, unmarked)
        /\ Record(a, t.version, "APPROVE", t.at)
        /\ SetPointer(a, t.version)
        /\ stale' = [b \in Artifact |-> (stale[b] /\ b # a) \/ b \in unmarked]
        /\ MarkApproved(a)
        /\ UNCHANGED <<current_version_no, jobs>>

(* ReviewService.reject. *)
Reject(s) ==
    LET t == txn[s]
    IN  /\ t.op = "reject"
        /\ Flush(s, {})
        /\ Record(t.artifact, t.version, "REJECT", t.at)
        /\ UNCHANGED <<stale, current_version_no, active_pointers, jobs, approved_since>>

AddVersion(a) == current_version_no' = [current_version_no EXCEPT ![a] = @ + 1]

(* Mutant: an edit that overwrites the newest version. *)
EditInPlace(s) ==
    LET t == txn[s]
    IN  /\ t.op = "edit"
        /\ Flush(s, {})
        /\ UNCHANGED <<stale, current_version_no, latest_decision, active_pointers, jobs,
                      approved_since>>

(* ReviewService.edit. *)
Edit(s) ==
    LET t == txn[s]
    IN  /\ t.op = "edit"
        /\ Flush(s, {})
        /\ AddVersion(t.artifact)
        /\ UNCHANGED <<stale, latest_decision, active_pointers, jobs, approved_since>>

(* JobService.request.  A row or a key that another request inserted in    *)
(* the meantime ends this one with nothing written (Abort).                *)
Request(s) ==
    LET t   == txn[s]
        key == [artifact |-> t.artifact, from |-> t.from]
    IN  /\ t.op = "request"
        /\ t.seen = Absent => state[t.artifact] = Absent
        /\ key \notin live
        /\ Flush(s, {})
        /\ live' = live \cup {key} /\ queued' = queued \cup {key}
        /\ UNCHANGED <<stale, current_version_no, latest_decision, active_pointers, approved_since>>

(* complete_generation, with _maybe_auto_approve, and mark_succeeded. *)
Generate(s) ==
    LET t    == txn[s]
        a    == t.artifact
        next == current_version_no[a] + 1
    IN  /\ t.op = "generate"
        /\ Flush(s, {})
        /\ AddVersion(a)
        /\ queued' = queued \ {[artifact |-> a, from |-> t.from]}
        /\ IF a \in AutoApproved
             THEN Record(a, next, "APPROVE", t.at)
             ELSE UNCHANGED latest_decision
        /\ IF SetsPointer(t) THEN SetPointer(a, next) ELSE UNCHANGED active_pointers
        /\ UNCHANGED <<stale, live, approved_since>>

(* Mutant: a failure that does not end in refresh_project_state. *)
FailForgetsPhase(s) ==
    LET t   == txn[s]
        key == [artifact |-> t.artifact, from |-> t.from]
    IN  /\ t.op = "fail" /\ t.refreshed
        /\ MayLock(s, {t.artifact})
        /\ state' = [state EXCEPT ![t.artifact] = "FAILED"]
        /\ txn' = [txn EXCEPT ![s] = Closed]
        /\ live' = live \ {key} /\ queued' = queued \ {key}
        /\ UNCHANGED <<stale, current_version_no, latest_decision, projectRow, approved_since>>

(* mark_failed and _fail_artifact. *)
Fail(s) ==
    LET t   == txn[s]
        key == [artifact |-> t.artifact, from |-> t.from]
    IN  /\ t.op = "fail"
        /\ Flush(s, {})
        /\ live' = live \ {key} /\ queued' = queued \ {key}
        /\ UNCHANGED <<stale, current_version_no, latest_decision, active_pointers, approved_since>>

(* The transaction rolls back: a deadlock victim, a constraint, a lost     *)
(* connection.  A job whose body rolled back is left to fail.              *)
Abort(s) ==
    /\ s \in Open
    /\ txn' = [txn EXCEPT ![s] = Closed]
    /\ UNCHANGED <<artifactRows, projectRow, jobs, latest_decision, approved_since>>

Commit(s) == Approve(s) \/ Reject(s) \/ Edit(s) \/ Request(s) \/ Generate(s) \/ Fail(s)

Next ==
    \/ \E s \in Session, a \in Artifact :
         \/ BeginEdit(s, a)
         \/ BeginRequest(s, a)
         \/ \E op \in {"approve", "reject"}, n \in Versions(a) : BeginReview(s, op, a, n)
    \/ \E s \in Session : \E key \in queued : BeginGenerate(s, key)
    \/ \E s \in Session : \E key \in queued : BeginFail(s, key)
    \/ \E key \in queued : FailJobOnly(key)
    \/ \E s \in Session : Refresh(s) \/ Commit(s) \/ Abort(s)

Spec == Init /\ [][Next]_vars
-----------------------------------------------------------------------------
(* Properties.                                                             *)

TypeOK ==
    /\ state \in [Artifact -> ArtifactState \cup {Absent}]
    /\ stale \in [Artifact -> BOOLEAN]
    /\ current_version_no \in [Artifact -> Nat]
    /\ \A a \in Artifact : current_version_no[a] <= MaxVersion[a]
    /\ DOMAIN latest_decision = Artifact
    /\ \A a \in Artifact : latest_decision[a] \in [Versions(a) -> Decision]
    /\ active_pointers \in [Kind -> Pointer]
    /\ phase \in Phase
    /\ live \subseteq Key /\ queued \subseteq live
    /\ txn \in [Session -> Txn \cup {Closed}]
    /\ DOMAIN approved_since \subseteq Artifact
    /\ \A a \in DOMAIN approved_since : approved_since[a] \subseteq Artifact

(* An artifact that says AWAITING_APPROVAL has something to decide: its    *)
(* newest version, on which nobody has decided.  Otherwise the reviewer is *)
(* sent to a version the view calls approved or rejected.                  *)
AwaitingIsReviewable ==
    \A a \in Artifact : state[a] = "AWAITING_APPROVAL" =>
        VersionStatus(a, current_version_no[a]) = "AWAITING_APPROVAL"

(* An artifact a human has ever approved is marked stale exactly when     *)
(* something it descends from was approved after it: nothing outdated      *)
(* looks fresh, and nothing is stale that was approved since.              *)
StaleMeansOutdated ==
    \A d \in DOMAIN approved_since :
        stale[d] <=> \E a \in approved_since[d] : d \in Downstream(a)

(* The artifacts that are the only one of their kind: a pointer is kept    *)
(* for a kind, and an approved scene moves its kind's.                     *)
OfItsKind == {a \in Artifact \ PerScene : \A b \in Artifact : KindOf[b] = KindOf[a] => b = a}

(* The cached pointer of an approved project-wide artifact is what the     *)
(* view calls its approved version.                                        *)
PointerFollowsView ==
    \A a \in OfItsKind : state[a] = "APPROVED" =>
        active_pointers[KindOf[a]] = [artifact |-> a, version |-> ApprovedVersion(a)]

(* The cached phase is what derive_phase would answer now. *)
PhaseIsCurrent == phase = PhaseOf([a \in Present |-> state[a]])
=============================================================================
