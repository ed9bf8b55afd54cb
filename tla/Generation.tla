----------------------------- MODULE Generation -----------------------------
(***************************************************************************)
(* How an artifact gets its versions.                                      *)
(*                                                                         *)
(* The API (services/jobs.py, services/review.py) writes generation_job    *)
(* and artifact rows and publishes a message after it commits; a worker    *)
(* (skeleton.py) claims the job in a first transaction, runs the stage     *)
(* body and completes the job in a second one, and records a failure in a  *)
(* third.  Postgres runs READ COMMITTED and the ORM reads a row once per   *)
(* session, so a transaction is modelled by the step that reads and the    *)
(* step that commits: everything another transaction commits in between is *)
(* invisible to it, and an unguarded UPDATE overwrites it.                 *)
(*                                                                         *)
(* Rows are functions over the set of identities; the columns that only    *)
(* carry data (content, prompts, cost, audit trail) are left out.  A job   *)
(* here writes the artifact it was requested for; the stages whose body    *)
(* also writes one artifact per scene are left out of this module.         *)
(***************************************************************************)
EXTENDS Naturals, FiniteSets, Lifecycles

CONSTANTS Artifact,      \* output slots of a project
          Job,           \* identities the generation_job table can hand out
          Worker,        \* worker processes: one task in flight each
          Session,       \* API requests served at the same time
          AutoApproved,  \* artifacts whose series policy needs no human
          MaxVersion,    \* bound: a human edits below this version number only
          ProviderFails, \* whether a stage body may raise by itself
          WorkerDies,    \* whether a worker process may be killed
          MessageLost    \* whether the broker or the publish may lose a message

Absent == "ABSENT"
NoArtifact == "no artifact"
NoJob == "no job"

ASSUME GenerationAssumption ==
    /\ NoArtifact \notin Artifact
    /\ NoJob \notin Job
    /\ AutoApproved \subseteq Artifact
    /\ MaxVersion \in Nat
    /\ {ProviderFails, WorkerDies, MessageLost} \subseteq BOOLEAN

VARIABLES state,              \* artifact.state; ABSENT before the row exists
          current_version_no, \* artifact.current_version_no
          version,            \* rows of artifact_version
          status,             \* generation_job.status; ABSENT before the row exists
          artifact_id,        \* generation_job.artifact_id
          from_version_no,    \* input_snapshot.from_version_no, behind the key
          pending,            \* committed jobs whose message is not sent yet
          broker,             \* jobs with a message the broker may deliver
          run,                \* what each worker process is doing
          txn                 \* what each API transaction has read

rows == <<state, current_version_no, version>>
jobs == <<status, artifact_id, from_version_no>>
messages == <<pending, broker>>
vars == <<state, current_version_no, version, status, artifact_id,
          from_version_no, pending, broker, run, txn>>

(* A version row: what add_version writes, and the job it came from.       *)
Version == [artifact : Artifact, version_no : Nat, generation_job : Job \cup {NoJob}]

(* A worker: its place in run_job, the job it claimed, the artifact state  *)
(* its current transaction has loaded into the session.                    *)
Idle == [at |-> "idle", job |-> NoJob, seen |-> Absent]
Run == [at : {"idle", "claimed", "body", "raised", "failing"},
        job : Job \cup {NoJob}, seen : ArtifactState \cup {Absent}]

(* An API transaction: its operation, its artifact, the row it has read,   *)
(* the job a release has looked up, the event a request carries.           *)
Closed == [op |-> "none", artifact |-> NoArtifact, seen |-> Absent,
           seen_no |-> 0, job |-> NoJob]
Txn == [op : {"none", "start", "regenerate", "release", "cancel",
              "approve", "reject", "edit"},
        artifact : Artifact \cup {NoArtifact}, seen : ArtifactState \cup {Absent},
        seen_no : Nat, job : Job \cup {NoJob}]

TypeOK ==
    /\ state \in [Artifact -> ArtifactState \cup {Absent}]
    /\ current_version_no \in [Artifact -> Nat]
    /\ version \subseteq Version
    /\ status \in [Job -> JobStatus \cup {Absent}]
    /\ artifact_id \in [Job -> Artifact \cup {NoArtifact}]
    /\ from_version_no \in [Job -> Nat]
    /\ pending \subseteq Job
    /\ broker \subseteq Job
    /\ run \in [Worker -> Run]
    /\ txn \in [Session -> Txn]

Init ==
    /\ state = [a \in Artifact |-> Absent]
    /\ current_version_no = [a \in Artifact |-> 0]
    /\ version = {}
    /\ status = [j \in Job |-> Absent]
    /\ artifact_id = [j \in Job |-> NoArtifact]
    /\ from_version_no = [j \in Job |-> 0]
    /\ pending = {}
    /\ broker = {}
    /\ run = [w \in Worker |-> Idle]
    /\ txn = [s \in Session |-> Closed]

-----------------------------------------------------------------------------
(* Queries.                                                                *)

Live(j) == status[j] \in JobStatus \ DeadStatuses

(* idempotency_key(task, a, n): the stage's task name is a function of the *)
(* artifact, so a key is the pair of an artifact and the next version.     *)
HoldsKey(j, a, n) == artifact_id[j] = a /\ from_version_no[j] + 1 = n

(* live_by_idempotency_key: the partial unique index leaves at most one.   *)
Holders(a, n) == {j \in Job : Live(j) /\ HoldsKey(j, a, n)}

(* A worker's failure transaction updates the job row before it reads the  *)
(* artifact: until it commits, another UPDATE of that row has to wait.     *)
Locked(j) == \E w \in Worker : run[w].at = "failing" /\ run[w].job = j /\ status[j] = "RUNNING"

(* add_version: the number is computed by the UPDATE, not by the caller.   *)
AddVersion(a, j) ==
    /\ current_version_no' = [current_version_no EXCEPT ![a] = @ + 1]
    /\ version' = version \cup
          {[artifact |-> a, version_no |-> current_version_no[a] + 1, generation_job |-> j]}

(* The ORM writes the state column at commit, and only when the session    *)
(* changed the value it had loaded.                                        *)
WriteState(a, seen, to) ==
    state' = IF seen = to THEN state ELSE [state EXCEPT ![a] = to]

Open(s, op, a, j) ==
    txn' = [txn EXCEPT ![s] = [op |-> op, artifact |-> a, seen |-> state[a],
                               seen_no |-> current_version_no[a], job |-> j]]
Close(s) == txn' = [txn EXCEPT ![s] = Closed]

Step(w, at, j, seen) == run' = [run EXCEPT ![w] = [at |-> at, job |-> j, seen |-> seen]]
Rest(w) == run' = [run EXCEPT ![w] = Idle]

-----------------------------------------------------------------------------
(* POST /generations: JobService.request.                                  *)

RequestEvent == [start |-> "GENERATION_STARTED", regenerate |-> "REGENERATE_REQUESTED"]

(* A first request creates the artifact row in PENDING before it asks the  *)
(* machine.                                                                *)
StateAsked(seen) == IF seen = Absent THEN "PENDING" ELSE seen

(* The request reads the artifact row (and passes admission). *)
RequestBegin(s, a) ==
    /\ txn[s].op = "none"
    /\ \E op \in {"start", "regenerate"} : Open(s, op, a, NoJob)
    /\ UNCHANGED <<rows, jobs, messages, run>>

(* The key is free, the machine agrees: job and artifact commit together. *)
RequestCreates(s, j) ==
    LET t == txn[s] IN
    /\ t.op \in {"start", "regenerate"}
    /\ status[j] = Absent
    /\ t.seen = Absent => state[t.artifact] = Absent
    /\ Holders(t.artifact, t.seen_no + 1) = {}
    /\ MayApply(RequestEvent[t.op], StateAsked(t.seen))
    /\ status' = [status EXCEPT ![j] = "QUEUED"]
    /\ artifact_id' = [artifact_id EXCEPT ![j] = t.artifact]
    /\ from_version_no' = [from_version_no EXCEPT ![j] = t.seen_no]
    /\ state' = [state EXCEPT ![t.artifact] = Target(RequestEvent[t.op])]
    /\ pending' = pending \cup {j}
    /\ Close(s)
    /\ UNCHANGED <<current_version_no, version, broker, run>>

(* A duplicate returns the holder's job and writes nothing; so does a      *)
(* request the machine refuses, or one that lost the race to create the    *)
(* artifact row: both roll back, the reservation included.  (The last      *)
(* disjunct is the bound on Job: no row is left, the request fails.)       *)
RequestWritesNothing(s) ==
    LET t == txn[s] IN
    /\ t.op \in {"start", "regenerate"}
    /\ \/ Holders(t.artifact, t.seen_no + 1) # {}
       \/ ~MayApply(RequestEvent[t.op], StateAsked(t.seen))
       \/ t.seen = Absent /\ state[t.artifact] # Absent
       \/ \A j \in Job : status[j] # Absent
    /\ Close(s)
    /\ UNCHANGED <<rows, jobs, messages, run>>

(* dispatch_pending, after the commit. *)
Dispatch(j) ==
    /\ j \in pending
    /\ pending' = pending \ {j}
    /\ broker' = broker \cup {j}
    /\ UNCHANGED <<rows, jobs, run, txn>>

(* The API dies between the commit and the publish, or the broker refuses. *)
DispatchFails(j) ==
    /\ MessageLost
    /\ j \in pending
    /\ pending' = pending \ {j}
    /\ UNCHANGED <<rows, jobs, broker, run, txn>>

(* A worker discards a message it cannot route, Redis loses one. *)
LoseMessage(j) ==
    /\ MessageLost
    /\ j \in broker
    /\ broker' = broker \ {j}
    /\ UNCHANGED <<rows, jobs, pending, run, txn>>

-----------------------------------------------------------------------------
(* POST /release: JobService.release and cancel.                           *)

(* Mutant: the route does not look at the state before it opens a release. *)
ReleaseBeginUnchecked(s, a) ==
    /\ txn[s].op = "none"
    /\ state[a] # Absent
    /\ Open(s, "release", a, NoJob)
    /\ UNCHANGED <<rows, jobs, messages, run>>

(* The route reads the artifact; a stage that is not generating is a 409.  *)
ReleaseBegin(s, a) ==
    /\ txn[s].op = "none"
    /\ MayApply("ORPHANED", state[a])
    /\ Open(s, "release", a, NoJob)
    /\ UNCHANGED <<rows, jobs, messages, run>>

Cancels(s, j) == txn' = [txn EXCEPT ![s] = [@ EXCEPT !.op = "cancel", !.job = j]]

(* It looks up the holder of the key request would compute, and asks the   *)
(* job machine about the status it read; a refusal leaves the job alone.   *)
ReleaseFindsJob(s) ==
    LET t == txn[s] IN
    /\ t.op = "release"
    /\ \E j \in Job \cup {NoJob} :
          /\ IF Holders(t.artifact, t.seen_no + 1) = {}
             THEN j = NoJob
             ELSE j \in Holders(t.artifact, t.seen_no + 1)
          /\ Cancels(s, IF j # NoJob /\ MayApplyJob("CANCELLED", status[j]) THEN j ELSE NoJob)
    /\ UNCHANGED <<rows, jobs, messages, run>>

(* Both writes are UPDATEs by primary key: neither looks at the row again. *)
ReleaseCommit(s) ==
    LET t == txn[s] IN
    /\ t.op = "cancel"
    /\ t.job # NoJob => ~Locked(t.job)
    /\ status' = IF t.job = NoJob THEN status
                 ELSE [status EXCEPT ![t.job] = JobTarget("CANCELLED")]
    /\ WriteState(t.artifact, t.seen, Target("ORPHANED"))
    /\ Close(s)
    /\ UNCHANGED <<current_version_no, version, artifact_id, from_version_no, messages, run>>

-----------------------------------------------------------------------------
(* The review routes: ReviewService.approve, reject and edit.  Decisions,  *)
(* pointers and staleness are the subject of module Review; here they are  *)
(* transactions that move the artifact row.                                *)

ReviewEvent == [approve |-> "APPROVED", reject |-> "REJECTED", edit |-> "HUMAN_EDITED"]

(* approve and reject address a version; an edit only needs the row.       *)
ReviewBegin(s, a) ==
    /\ txn[s].op = "none"
    /\ \E op \in {"approve", "reject", "edit"} :
          /\ MayApply(ReviewEvent[op], state[a])
          /\ op = "edit" => current_version_no[a] < MaxVersion
          /\ op # "edit" => \E v \in version : v.artifact = a
          /\ Open(s, op, a, NoJob)
    /\ UNCHANGED <<rows, jobs, messages, run>>

DecisionCommit(s) ==
    LET t == txn[s] IN
    /\ t.op \in {"approve", "reject"}
    /\ WriteState(t.artifact, t.seen, Target(ReviewEvent[t.op]))
    /\ Close(s)
    /\ UNCHANGED <<current_version_no, version, jobs, messages, run>>

EditCommit(s) ==
    LET t == txn[s] IN
    /\ t.op = "edit"
    /\ AddVersion(t.artifact, NoJob)
    /\ WriteState(t.artifact, t.seen, Target("HUMAN_EDITED"))
    /\ Close(s)
    /\ UNCHANGED <<jobs, messages, run>>

-----------------------------------------------------------------------------
(* The worker: run_job.                                                    *)

(* Mutant: the claim also takes a RUNNING job over, whose worker may live. *)
ClaimRunning(w, j) ==
    /\ run[w].at = "idle"
    /\ j \in broker
    /\ status[j] \in {"QUEUED", "RUNNING"}
    /\ status' = [status EXCEPT ![j] = JobTarget("CLAIMED")]
    /\ Step(w, "claimed", j, Absent)
    /\ UNCHANGED <<rows, artifact_id, from_version_no, messages, txn>>

(* Mutant: the claim believes the message and does not look at the status. *)
ClaimUnchecked(w, j) ==
    /\ run[w].at = "idle"
    /\ j \in broker
    /\ status' = [status EXCEPT ![j] = JobTarget("CLAIMED")]
    /\ Step(w, "claimed", j, Absent)
    /\ UNCHANGED <<rows, artifact_id, from_version_no, messages, txn>>

(* First transaction.  The message stays with the broker (acks_late, and   *)
(* the visibility timeout may hand it out again); a delivery whose UPDATE  *)
(* changes no row is dropped and changes nothing.                          *)
Claim(w, j) ==
    /\ run[w].at = "idle"
    /\ j \in broker
    /\ MayApplyJob("CLAIMED", status[j])
    /\ status' = [status EXCEPT ![j] = JobTarget("CLAIMED")]
    /\ Step(w, "claimed", j, Absent)
    /\ UNCHANGED <<rows, artifact_id, from_version_no, messages, txn>>

(* Second transaction: load_artifact caches the row for the whole body.    *)
BodyBegin(w) ==
    /\ run[w].at = "claimed"
    /\ Step(w, "body", run[w].job, state[artifact_id[run[w].job]])
    /\ UNCHANGED <<rows, jobs, messages, txn>>

(* Mutant: mark_succeeded's result is ignored.                             *)
MayCompleteAnyway(w) == MayApply("GENERATION_SUCCEEDED", run[w].seen)

(* complete_generation, _maybe_auto_approve and mark_succeeded go through: *)
(* the loaded state accepts the completion and the job is still RUNNING.   *)
MayComplete(w) ==
    /\ MayApply("GENERATION_SUCCEEDED", run[w].seen)
    /\ MayApplyJob("SUCCEEDED", status[run[w].job])

BodyCommit(w) ==
    LET j == run[w].job
        a == artifact_id[j] IN
    /\ run[w].at = "body"
    /\ MayComplete(w)
    /\ AddVersion(a, j)
    /\ WriteState(a, run[w].seen,
                  Target(IF a \in AutoApproved THEN "APPROVED" ELSE "GENERATION_SUCCEEDED"))
    /\ status' = [status EXCEPT ![j] = JobTarget("SUCCEEDED")]
    /\ Rest(w)
    /\ UNCHANGED <<artifact_id, from_version_no, messages, txn>>

(* The body raises, or its completion is refused: the transaction rolls    *)
(* back and leaves no version behind.                                      *)
BodyRaises(w) ==
    /\ run[w].at = "body"
    /\ ProviderFails \/ ~MayComplete(w)
    /\ Step(w, "raised", run[w].job, Absent)
    /\ UNCHANGED <<rows, jobs, messages, txn>>

(* Third transaction: mark_failed has run, _fail_artifact reads the row.   *)
FailBegin(w) ==
    /\ run[w].at = "raised"
    /\ Step(w, "failing", run[w].job, state[artifact_id[run[w].job]])
    /\ UNCHANGED <<rows, jobs, messages, txn>>

(* Mutant: run_job fails the job and leaves the artifact to nobody.        *)
FailCommitJobOnly(w) ==
    LET j == run[w].job IN
    /\ run[w].at = "failing"
    /\ status' = IF MayApplyJob("FAILED", status[j])
                 THEN [status EXCEPT ![j] = JobTarget("FAILED")] ELSE status
    /\ Rest(w)
    /\ UNCHANGED <<rows, artifact_id, from_version_no, messages, txn>>

(* Mutant: the failure reaches the artifact and not the job.               *)
FailCommitArtifactOnly(w) ==
    /\ run[w].at = "failing"
    /\ MayApply("GENERATION_FAILED", run[w].seen) =>
          WriteState(artifact_id[run[w].job], run[w].seen, Target("GENERATION_FAILED"))
    /\ ~MayApply("GENERATION_FAILED", run[w].seen) => state' = state
    /\ Rest(w)
    /\ UNCHANGED <<current_version_no, version, jobs, messages, txn>>

(* mark_failed is guarded by RUNNING and its result is not looked at;      *)
(* _fail_artifact moves the artifact whenever it read GENERATING.          *)
FailCommit(w) ==
    LET j == run[w].job
        a == artifact_id[j] IN
    /\ run[w].at = "failing"
    /\ status' = IF MayApplyJob("FAILED", status[j])
                 THEN [status EXCEPT ![j] = JobTarget("FAILED")] ELSE status
    /\ IF MayApply("GENERATION_FAILED", run[w].seen)
       THEN WriteState(a, run[w].seen, Target("GENERATION_FAILED"))
       ELSE state' = state
    /\ Rest(w)
    /\ UNCHANGED <<current_version_no, version, artifact_id, from_version_no, messages, txn>>

(* The process is killed: its open transaction rolls back. *)
Die(w) ==
    /\ WorkerDies
    /\ run[w].at # "idle"
    /\ Rest(w)
    /\ UNCHANGED <<rows, jobs, messages, txn>>

-----------------------------------------------------------------------------
ApiNext(s) ==
    \/ \E a \in Artifact : RequestBegin(s, a) \/ ReleaseBegin(s, a) \/ ReviewBegin(s, a)
    \/ \E j \in Job : RequestCreates(s, j)
    \/ RequestWritesNothing(s)
    \/ ReleaseFindsJob(s)
    \/ ReleaseCommit(s)
    \/ DecisionCommit(s)
    \/ EditCommit(s)

BrokerNext(j) == Dispatch(j) \/ DispatchFails(j) \/ LoseMessage(j)

WorkerNext(w) ==
    \/ \E j \in Job : Claim(w, j)
    \/ BodyBegin(w)
    \/ BodyCommit(w)
    \/ BodyRaises(w)
    \/ FailBegin(w)
    \/ FailCommit(w)
    \/ Die(w)

Next ==
    \/ \E s \in Session : ApiNext(s)
    \/ \E j \in Job : BrokerNext(j)
    \/ \E w \in Worker : WorkerNext(w)

Spec == Init /\ [][Next]_vars

(* A worker process that lives keeps going, and an API process that lives  *)
(* publishes what it committed.  Users owe nothing, and neither do losses. *)
Fairness ==
    /\ \A w \in Worker : WF_vars(WorkerNext(w) /\ ~Die(w))
    /\ \A j \in Job : WF_vars(Dispatch(j))

FairSpec == Spec /\ Fairness

-----------------------------------------------------------------------------
(* Safety.                                                                 *)

InFlight(j) == status[j] \in {"QUEUED", "RUNNING"}
VersionsBy(j) == {v \in version : v.generation_job = j}

(* However often a message is delivered and whichever worker dies holding  *)
(* it, two processes never run the same job (the claim of JobRepository).  *)
OneRunPerJob ==
    \A w1, w2 \in Worker :
        (w1 # w2 /\ run[w1].at # "idle" /\ run[w2].at # "idle") => run[w1].job # run[w2].job

(* At-least-once delivery never turns into two versions: a job produces at *)
(* most one, a SUCCEEDED job has produced it, and a job that has produced  *)
(* one is over.  A CANCELLED job may have: a release whose transaction     *)
(* read it RUNNING writes CANCELLED over SUCCEEDED.                        *)
OneVersionPerJob ==
    \A j \in Job :
        /\ \A v1, v2 \in VersionsBy(j) : v1 = v2
        /\ status[j] = "SUCCEEDED" => VersionsBy(j) # {}
        /\ VersionsBy(j) # {} => status[j] \in {"SUCCEEDED", "CANCELLED"}

(* The version numbers of an artifact are exactly 1 .. current_version_no, *)
(* each used once, although edits and workers allocate them concurrently.  *)
VersionsAreNumbered ==
    \A a \in Artifact :
        LET mine == {v \in version : v.artifact = a} IN
        /\ {v.version_no : v \in mine} = 1 .. current_version_no[a]
        /\ \A v1, v2 \in mine : v1.version_no = v2.version_no => v1 = v2

(* The partial unique index: at most one live job holds a key, whatever    *)
(* the order in which requests, releases and completions commit.           *)
OneHolderPerKey ==
    \A j1, j2 \in Job :
        (/\ j1 # j2 /\ Live(j1) /\ Live(j2)
         /\ artifact_id[j1] = artifact_id[j2])
        => from_version_no[j1] # from_version_no[j2]

(* An artifact that shows "Generating..." always has a job that is still   *)
(* queued or running: no job dies without taking its artifact out of       *)
(* GENERATING, even when a review or a release commits in between.         *)
GeneratingHasJob ==
    \A a \in Artifact :
        state[a] = "GENERATING" => \E j \in Job : InFlight(j) /\ artifact_id[j] = a

(* What the readers of an artifact's history are promised: it implements    *)
(* VersionLog.  However messages are redelivered, workers killed and jobs   *)
(* released, the history only grows by one version at a time, a job adds at *)
(* most one, and work finished after its job was cancelled is thrown away.  *)
AuthorOf(a, n) == (CHOOSE v \in version : v.artifact = a /\ v.version_no = n).generation_job
Log == [a \in Artifact |-> [n \in 1 .. current_version_no[a] |-> AuthorOf(a, n)]]
Over == {j \in Job : status[j] \in DeadStatuses \cup {"SUCCEEDED"}}

History == INSTANCE VersionLog WITH Human <- NoJob, log <- Log, over <- Over

ImplementsVersionLog == History!Spec

-----------------------------------------------------------------------------
(* The inductive invariant behind the safety properties.                    *)

(* A worker only ever holds a job it claimed, that nobody completed: the job *)
(* is still running, or was cancelled behind its back, and has no version.  *)
WorkersHoldOpenJobs ==
    \A w \in Worker : run[w].at # "idle" =>
        /\ run[w].job \in Job
        /\ status[run[w].job] \in {"RUNNING", "CANCELLED"}
        /\ VersionsBy(run[w].job) = {}

JobsHaveArtifacts == \A j \in Job : status[j] # Absent => artifact_id[j] \in Artifact

(* What an open transaction still relies on when it commits. *)
TransactionsAreGuarded ==
    \A s \in Session :
        /\ txn[s].op # "none" => txn[s].artifact \in Artifact
        /\ txn[s].op \in {"release", "cancel"} => MayApply("ORPHANED", txn[s].seen)
        /\ (txn[s].op = "cancel" /\ txn[s].job # NoJob) =>
              /\ status[txn[s].job] # Absent
              /\ artifact_id[txn[s].job] = txn[s].artifact

(* GeneratingHasJob alone is not inductive: the job must be one whose       *)
(* failure, if it is being recorded, has seen the artifact GENERATING.      *)
SpinnerHasOwner ==
    \A a \in Artifact : state[a] = "GENERATING" =>
        \E j \in Job :
            /\ InFlight(j)
            /\ artifact_id[j] = a
            /\ \A w \in Worker :
                  (run[w].at = "failing" /\ run[w].job = j) => run[w].seen = "GENERATING"

IInv ==
    /\ TypeOK
    /\ WorkersHoldOpenJobs
    /\ JobsHaveArtifacts
    /\ TransactionsAreGuarded
    /\ OneRunPerJob
    /\ OneVersionPerJob
    /\ VersionsAreNumbered
    /\ OneHolderPerKey
    /\ SpinnerHasOwner

-----------------------------------------------------------------------------
(* Liveness.                                                               *)

(* Nobody will ever run j: it is QUEUED and neither the API nor the broker *)
(* has its message, or RUNNING and no worker holds it.                     *)
Unsent(j) == status[j] = "QUEUED" /\ j \notin pending \cup broker
Orphaned(j) == status[j] = "RUNNING" /\ \A w \in Worker : run[w].job # j
Stranded(j) == Unsent(j) \/ Orphaned(j)

(* Every job that is created ends, and the spinner of its stage with it,   *)
(* unless its own message was lost or its own worker killed.               *)
JobsEnd == \A j \in Job : InFlight(j) ~> ~InFlight(j) \/ Stranded(j)
GenerationEnds ==
    \A a \in Artifact : state[a] = "GENERATING" ~>
        \/ state[a] # "GENERATING"
        \/ \E j \in Job : artifact_id[j] = a /\ Stranded(j)

=============================================================================
