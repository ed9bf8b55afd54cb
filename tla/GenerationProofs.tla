-------------------------- MODULE GenerationProofs --------------------------
(***************************************************************************)
(* Generation, for every number of artifacts, jobs, workers and sessions:  *)
(* the inductive invariant IInv, the safety properties it implies, and the *)
(* refinement of VersionLog.                                               *)
(***************************************************************************)
EXTENDS Generation, SequenceTheorems, TLAPS

-----------------------------------------------------------------------------
(* The lifecycle tables, read once.                                        *)

LEMMA ArtifactTargets ==
    /\ Target("GENERATION_STARTED") = "GENERATING"
    /\ Target("REGENERATE_REQUESTED") = "GENERATING"
    /\ Target("GENERATION_SUCCEEDED") = "AWAITING_APPROVAL"
    /\ Target("GENERATION_FAILED") = "FAILED"
    /\ Target("ORPHANED") = "FAILED"
    /\ Target("APPROVED") = "APPROVED"
    /\ Target("REJECTED") = "REJECTED"
    /\ Target("HUMAN_EDITED") = "AWAITING_APPROVAL"
  BY DEF Target, ArtifactTable

LEMMA SpinnerExits ==
    ASSUME NEW x
    PROVE  /\ MayApply("GENERATION_SUCCEEDED", x) <=> x = "GENERATING"
           /\ MayApply("GENERATION_FAILED", x) <=> x = "GENERATING"
           /\ MayApply("ORPHANED", x) <=> x = "GENERATING"
  BY DEF MayApply, ArtifactTable

LEMMA JobTargets ==
    /\ JobTarget("CLAIMED") = "RUNNING" /\ JobTarget("SUCCEEDED") = "SUCCEEDED"
    /\ JobTarget("FAILED") = "FAILED" /\ JobTarget("CANCELLED") = "CANCELLED"
    /\ \A x : /\ MayApplyJob("CLAIMED", x) <=> x = "QUEUED"
              /\ MayApplyJob("SUCCEEDED", x) <=> x = "RUNNING"
              /\ MayApplyJob("FAILED", x) <=> x = "RUNNING"
              /\ MayApplyJob("CANCELLED", x) <=> x \in {"QUEUED", "RUNNING"}
  BY DEF JobTarget, MayApplyJob, JobTable

(* What a transaction writes into the state column is never GENERATING     *)
(* unless it is a request that commits.                                    *)
LEMMA ReviewTargets ==
    ASSUME NEW op \in {"approve", "reject", "edit"}
    PROVE  Target(ReviewEvent[op]) \in ArtifactState \ {"GENERATING"}
<1>1. CASE op = "approve"
  BY <1>1, ArtifactTargets DEF ReviewEvent, ArtifactState
<1>2. CASE op = "reject"
  BY <1>2, ArtifactTargets DEF ReviewEvent, ArtifactState
<1>3. CASE op = "edit"
  BY <1>3, ArtifactTargets DEF ReviewEvent, ArtifactState
<1> QED
  BY <1>1, <1>2, <1>3

LEMMA RequestTargets ==
    ASSUME NEW op \in {"start", "regenerate"}
    PROVE  Target(RequestEvent[op]) = "GENERATING"
<1>1. CASE op = "start"
  BY <1>1, ArtifactTargets DEF RequestEvent
<1>2. CASE op = "regenerate"
  BY <1>2, ArtifactTargets DEF RequestEvent
<1> QED
  BY <1>1, <1>2

-----------------------------------------------------------------------------
(* Type correctness.                                                       *)

LEMMA TypeInit == Init => TypeOK
  BY DEF Init, TypeOK, Run, Idle, Txn, Closed, Version

LEMMA OpenTyped ==
    ASSUME TypeOK, NEW s \in Session, NEW a \in Artifact, NEW j \in Job \cup {NoJob},
           NEW op \in {"start", "regenerate", "release", "approve", "reject", "edit"},
           Open(s, op, a, j)
    PROVE  txn' \in [Session -> Txn]
  BY DEF TypeOK, Open, Txn

LEMMA CloseTyped ==
    ASSUME TypeOK, NEW s \in Session, Close(s)
    PROVE  txn' \in [Session -> Txn]
  BY DEF TypeOK, Close, Closed, Txn

LEMMA WriteTyped ==
    ASSUME TypeOK, NEW a, NEW x, NEW to \in ArtifactState, WriteState(a, x, to)
    PROVE  state' \in [Artifact -> ArtifactState \cup {Absent}]
  BY DEF TypeOK, WriteState

LEMMA AddTyped ==
    ASSUME TypeOK, NEW a \in Artifact, NEW j \in Job \cup {NoJob}, AddVersion(a, j)
    PROVE  /\ current_version_no' \in [Artifact -> Nat]
           /\ version' \subseteq Version
  BY DEF TypeOK, AddVersion, Version

(* A worker past its claim has an artifact to write to. *)
LEMMA WorkerArtifact ==
    ASSUME WorkersHoldOpenJobs, JobsHaveArtifacts, NEW w \in Worker, run[w].at # "idle"
    PROVE  run[w].job \in Job /\ artifact_id[run[w].job] \in Artifact
  BY DEF WorkersHoldOpenJobs, JobsHaveArtifacts, Absent

LEMMA TypeStep ==
    ASSUME TypeOK, WorkersHoldOpenJobs, JobsHaveArtifacts, TransactionsAreGuarded, [Next]_vars
    PROVE  TypeOK'
<1> USE DEF rows, jobs, messages
<1>1. ASSUME NEW s \in Session, NEW a \in Artifact, RequestBegin(s, a) PROVE TypeOK'
  <2>1. NoJob \in Job \cup {NoJob}
    OBVIOUS
  <2>2. txn' \in [Session -> Txn]
    BY <1>1, <2>1, OpenTyped DEF RequestBegin
  <2> QED
    BY <1>1, <2>2 DEF RequestBegin, TypeOK
<1>2. ASSUME NEW s \in Session, NEW a \in Artifact, ReleaseBegin(s, a) PROVE TypeOK'
  <2>1. NoJob \in Job \cup {NoJob}
    OBVIOUS
  <2>2. txn' \in [Session -> Txn]
    BY <1>2, <2>1, OpenTyped DEF ReleaseBegin
  <2> QED
    BY <1>2, <2>2 DEF ReleaseBegin, TypeOK
<1>3. ASSUME NEW s \in Session, NEW a \in Artifact, ReviewBegin(s, a) PROVE TypeOK'
  <2>1. NoJob \in Job \cup {NoJob}
    OBVIOUS
  <2>2. txn' \in [Session -> Txn]
    BY <1>3, <2>1, OpenTyped DEF ReviewBegin
  <2> QED
    BY <1>3, <2>2 DEF ReviewBegin, TypeOK
<1>4. ASSUME NEW s \in Session, NEW j \in Job, RequestCreates(s, j) PROVE TypeOK'
  <2>1. txn' \in [Session -> Txn] /\ txn[s] \in Txn
    BY <1>4, CloseTyped DEF RequestCreates, TypeOK
  <2>2. Target(RequestEvent[txn[s].op]) \in ArtifactState
    BY <1>4, RequestTargets DEF RequestCreates, ArtifactState
  <2>3. /\ status' \in [Job -> JobStatus \cup {Absent}]
        /\ state' \in [Artifact -> ArtifactState \cup {Absent}]
    BY <1>4, <2>2 DEF RequestCreates, TypeOK, JobStatus
  <2>4. /\ artifact_id' \in [Job -> Artifact \cup {NoArtifact}]
        /\ from_version_no' \in [Job -> Nat]
    BY <1>4, <2>1 DEF RequestCreates, TypeOK, Txn
  <2> QED
    BY <1>4, <2>1, <2>3, <2>4 DEF RequestCreates, TypeOK
<1>5. ASSUME NEW s \in Session, RequestWritesNothing(s) PROVE TypeOK'
  BY <1>5, CloseTyped DEF RequestWritesNothing, TypeOK
<1>6. ASSUME NEW s \in Session, ReleaseFindsJob(s) PROVE TypeOK'
  <2>1. PICK j \in Job \cup {NoJob} : Cancels(s, j)
    BY <1>6 DEF ReleaseFindsJob
  <2>2. [txn[s] EXCEPT !.op = "cancel", !.job = j] \in Txn
    BY DEF TypeOK, Txn
  <2>3. txn' \in [Session -> Txn]
    BY <2>1, <2>2 DEF Cancels, TypeOK
  <2> QED
    BY <1>6, <2>3 DEF ReleaseFindsJob, TypeOK
<1>7. ASSUME NEW s \in Session, ReleaseCommit(s) PROVE TypeOK'
  <2>1. txn' \in [Session -> Txn]
    BY <1>7, CloseTyped DEF ReleaseCommit
  <2>2. state' \in [Artifact -> ArtifactState \cup {Absent}]
    BY <1>7, WriteTyped, ArtifactTargets DEF ReleaseCommit, ArtifactState
  <2>3. status' \in [Job -> JobStatus \cup {Absent}]
    BY <1>7, JobTargets DEF ReleaseCommit, TypeOK, JobStatus
  <2> QED
    BY <1>7, <2>1, <2>2, <2>3 DEF ReleaseCommit, TypeOK
<1>8. ASSUME NEW s \in Session, DecisionCommit(s) PROVE TypeOK'
  <2>1. txn' \in [Session -> Txn]
    BY <1>8, CloseTyped DEF DecisionCommit
  <2>2. state' \in [Artifact -> ArtifactState \cup {Absent}]
    BY <1>8, WriteTyped, ReviewTargets DEF DecisionCommit
  <2> QED
    BY <1>8, <2>1, <2>2 DEF DecisionCommit, TypeOK
<1>9. ASSUME NEW s \in Session, EditCommit(s) PROVE TypeOK'
  <2>1. txn' \in [Session -> Txn]
    BY <1>9, CloseTyped DEF EditCommit
  <2>2. state' \in [Artifact -> ArtifactState \cup {Absent}]
    BY <1>9, WriteTyped, ArtifactTargets DEF EditCommit, ArtifactState
  <2>3. txn[s].artifact \in Artifact /\ NoJob \in Job \cup {NoJob}
    BY <1>9 DEF EditCommit, TransactionsAreGuarded
  <2>4. current_version_no' \in [Artifact -> Nat] /\ version' \subseteq Version
    BY <1>9, <2>3, AddTyped DEF EditCommit
  <2> QED
    BY <1>9, <2>1, <2>2, <2>4 DEF EditCommit, TypeOK
<1>10. ASSUME NEW j \in Job, BrokerNext(j) PROVE TypeOK'
  BY <1>10 DEF BrokerNext, Dispatch, DispatchFails, LoseMessage, TypeOK
<1>11. ASSUME NEW w \in Worker, NEW j \in Job, Claim(w, j) PROVE TypeOK'
  <2>1. status' \in [Job -> JobStatus \cup {Absent}]
    BY <1>11, JobTargets DEF Claim, TypeOK, JobStatus
  <2>2. run' \in [Worker -> Run]
    BY <1>11 DEF Claim, Step, TypeOK, Run
  <2> QED
    BY <1>11, <2>1, <2>2 DEF Claim, TypeOK
<1>12. ASSUME NEW w \in Worker, BodyBegin(w) PROVE TypeOK'
  <2>1. artifact_id[run[w].job] \in Artifact
    BY <1>12, WorkerArtifact DEF BodyBegin
  <2>2. run' \in [Worker -> Run]
    BY <1>12, <2>1 DEF BodyBegin, Step, TypeOK, Run
  <2> QED
    BY <1>12, <2>2 DEF BodyBegin, TypeOK
<1>13. ASSUME NEW w \in Worker, BodyCommit(w) PROVE TypeOK'
  <2>1. run[w].job \in Job /\ artifact_id[run[w].job] \in Artifact
    BY <1>13, WorkerArtifact DEF BodyCommit
  <2>2. current_version_no' \in [Artifact -> Nat] /\ version' \subseteq Version
    BY <1>13, <2>1, AddTyped DEF BodyCommit
  <2>3. state' \in [Artifact -> ArtifactState \cup {Absent}]
    BY <1>13, WriteTyped, ArtifactTargets DEF BodyCommit, ArtifactState
  <2>4. status' \in [Job -> JobStatus \cup {Absent}]
    BY <1>13, JobTargets DEF BodyCommit, TypeOK, JobStatus
  <2>5. run' \in [Worker -> Run]
    BY <1>13 DEF BodyCommit, Rest, TypeOK, Run, Idle
  <2> QED
    BY <1>13, <2>2, <2>3, <2>4, <2>5 DEF BodyCommit, TypeOK
<1>14. ASSUME NEW w \in Worker, BodyRaises(w) PROVE TypeOK'
  BY <1>14 DEF BodyRaises, Step, TypeOK, Run
<1>15. ASSUME NEW w \in Worker, FailBegin(w) PROVE TypeOK'
  <2>1. artifact_id[run[w].job] \in Artifact
    BY <1>15, WorkerArtifact DEF FailBegin
  <2>2. run' \in [Worker -> Run]
    BY <1>15, <2>1 DEF FailBegin, Step, TypeOK, Run
  <2> QED
    BY <1>15, <2>2 DEF FailBegin, TypeOK
<1>16. ASSUME NEW w \in Worker, FailCommit(w) PROVE TypeOK'
  <2>1. state' \in [Artifact -> ArtifactState \cup {Absent}]
    BY <1>16, WriteTyped, ArtifactTargets DEF FailCommit, ArtifactState, TypeOK
  <2>2. status' \in [Job -> JobStatus \cup {Absent}]
    BY <1>16, JobTargets DEF FailCommit, TypeOK, JobStatus
  <2>3. run' \in [Worker -> Run]
    BY <1>16 DEF FailCommit, Rest, TypeOK, Run, Idle
  <2> QED
    BY <1>16, <2>1, <2>2, <2>3 DEF FailCommit, TypeOK
<1>17. ASSUME NEW w \in Worker, Die(w) PROVE TypeOK'
  BY <1>17 DEF Die, Rest, TypeOK, Run, Idle
<1>18. CASE UNCHANGED vars
  BY <1>18 DEF vars, TypeOK
<1> QED
  BY <1>1, <1>2, <1>3, <1>4, <1>5, <1>6, <1>7, <1>8, <1>9, <1>10, <1>11, <1>12, <1>13,
     <1>14, <1>15, <1>16, <1>17, <1>18 DEF Next, ApiNext, WorkerNext

-----------------------------------------------------------------------------
(* Jobs and the rows they point to.                                        *)

(* A worker lets go of a job. *)
LetsGo(w, j) == run[w].at # "idle" /\ run[w].job = j /\ run'[w].at = "idle"

(* A step either leaves a job's row alone or moves it along the job        *)
(* lifecycle, and then it is known who did it; the lost update of a        *)
(* release is part of the last disjunct.                                   *)
LEMMA JobMoves ==
    ASSUME TypeOK, TransactionsAreGuarded, [Next]_vars, NEW j \in Job
    PROVE  \/ status'[j] = status[j]
           \/ /\ status[j] = Absent /\ status'[j] = "QUEUED"
              /\ \E s \in Session : RequestCreates(s, j)
           \/ /\ status[j] = "QUEUED" /\ status'[j] = "RUNNING"
              /\ \E w \in Worker : Claim(w, j)
           \/ /\ status[j] = "RUNNING" /\ status'[j] = "SUCCEEDED"
              /\ \E w \in Worker : LetsGo(w, j) /\ BodyCommit(w)
           \/ /\ status[j] = "RUNNING" /\ status'[j] = "FAILED"
              /\ \E w \in Worker : LetsGo(w, j) /\ FailCommit(w)
           \/ /\ status[j] # Absent /\ status'[j] = "CANCELLED"
              /\ \E s \in Session : ReleaseCommit(s)
<1> USE JobTargets DEF rows, jobs, messages, TypeOK
<1>1. ASSUME NEW s \in Session, NEW i \in Job, RequestCreates(s, i)
      PROVE  status'[j] = status[j] \/ (i = j /\ status[j] = Absent /\ status'[j] = "QUEUED")
  BY <1>1 DEF RequestCreates
<1>2. ASSUME NEW s \in Session, ReleaseCommit(s)
      PROVE  status'[j] = status[j] \/ (status[j] # Absent /\ status'[j] = "CANCELLED")
  BY <1>2 DEF ReleaseCommit, TransactionsAreGuarded
<1>3. ASSUME NEW w \in Worker, NEW i \in Job, Claim(w, i)
      PROVE  status'[j] = status[j] \/ (i = j /\ status[j] = "QUEUED" /\ status'[j] = "RUNNING")
  BY <1>3 DEF Claim
<1>4. ASSUME NEW w \in Worker, BodyCommit(w)
      PROVE  status'[j] = status[j]
                \/ (status[j] = "RUNNING" /\ status'[j] = "SUCCEEDED" /\ LetsGo(w, j))
  BY <1>4 DEF BodyCommit, MayComplete, Rest, Idle, LetsGo
<1>5. ASSUME NEW w \in Worker, FailCommit(w)
      PROVE  status'[j] = status[j]
                \/ (status[j] = "RUNNING" /\ status'[j] = "FAILED" /\ LetsGo(w, j))
  BY <1>5 DEF FailCommit, Rest, Idle, LetsGo
<1>6. ASSUME status' # status
      PROVE  \/ \E s \in Session, i \in Job : RequestCreates(s, i)
             \/ \E s \in Session : ReleaseCommit(s)
             \/ \E w \in Worker, i \in Job : Claim(w, i)
             \/ \E w \in Worker : BodyCommit(w) \/ FailCommit(w)
  BY <1>6 DEF Next, ApiNext, BrokerNext, WorkerNext, vars, RequestBegin, ReleaseBegin,
     ReviewBegin, RequestWritesNothing, ReleaseFindsJob, DecisionCommit, EditCommit, Dispatch,
     DispatchFails, LoseMessage, BodyBegin, BodyRaises, FailBegin, Die
<1> QED
  BY <1>1, <1>2, <1>3, <1>4, <1>5, <1>6

(* A worker keeps its job until it rests, and gets a new one by a claim.   *)
LEMMA RunMoves ==
    ASSUME TypeOK, [Next]_vars, NEW w \in Worker
    PROVE  \/ run'[w] = run[w]
           \/ run'[w].at = "idle"
           \/ run[w].at # "idle" /\ run'[w].at # "idle" /\ run'[w].job = run[w].job
           \/ \E j \in Job : Claim(w, j) /\ run'[w].job = j
<1> USE DEF rows, jobs, messages, TypeOK
<1>1. ASSUME NEW x \in Worker, NEW j \in Job, Claim(x, j)
      PROVE  run'[w] = run[w] \/ (x = w /\ run'[w].job = j)
  BY <1>1 DEF Claim, Step
<1>2. ASSUME NEW x \in Worker, BodyBegin(x) \/ BodyRaises(x) \/ FailBegin(x)
      PROVE  run'[w] = run[w]
                \/ (run[w].at # "idle" /\ run'[w].at # "idle" /\ run'[w].job = run[w].job)
  BY <1>2 DEF BodyBegin, BodyRaises, FailBegin, Step
<1>3. ASSUME NEW x \in Worker, BodyCommit(x) \/ FailCommit(x) \/ Die(x)
      PROVE  run'[w] = run[w] \/ run'[w].at = "idle"
  BY <1>3 DEF BodyCommit, FailCommit, Die, Rest, Idle
<1>4. ASSUME run' # run
      PROVE  \/ \E x \in Worker, j \in Job : Claim(x, j)
             \/ \E x \in Worker : BodyBegin(x) \/ BodyRaises(x) \/ FailBegin(x)
             \/ \E x \in Worker : BodyCommit(x) \/ FailCommit(x) \/ Die(x)
  BY <1>4 DEF Next, ApiNext, BrokerNext, WorkerNext, vars, RequestBegin, ReleaseBegin,
     ReviewBegin, RequestCreates, RequestWritesNothing, ReleaseFindsJob, ReleaseCommit,
     DecisionCommit, EditCommit, Dispatch, DispatchFails, LoseMessage
<1> QED
  BY <1>1, <1>2, <1>3, <1>4

(* Only the completion of a job adds a version to it, and it adds one.     *)
LEMMA VersionMoves ==
    ASSUME TypeOK, GenerationAssumption, TransactionsAreGuarded, [Next]_vars, NEW j \in Job
    PROVE  \/ /\ VersionsBy(j)' = VersionsBy(j)
              /\ status'[j] = "SUCCEEDED" => status[j] = "SUCCEEDED"
           \/ /\ status[j] = "RUNNING" /\ status'[j] = "SUCCEEDED"
              /\ \E w \in Worker : LetsGo(w, j)
              /\ \E v : VersionsBy(j)' = VersionsBy(j) \cup {v}
<1> USE JobTargets DEF rows, jobs, messages, VersionsBy
<1>1. ASSUME NEW s \in Session, EditCommit(s) PROVE VersionsBy(j)' = VersionsBy(j)
  BY <1>1 DEF EditCommit, AddVersion, GenerationAssumption
<1>2. ASSUME NEW w \in Worker, BodyCommit(w), run[w].job # j PROVE VersionsBy(j)' = VersionsBy(j)
  BY <1>2 DEF BodyCommit, AddVersion
<1>3. ASSUME NEW w \in Worker, BodyCommit(w), run[w].job = j
      PROVE  /\ status[j] = "RUNNING" /\ status'[j] = "SUCCEEDED" /\ LetsGo(w, j)
             /\ \E v : VersionsBy(j)' = VersionsBy(j) \cup {v}
  <2> DEFINE v == [artifact |-> artifact_id[j],
                   version_no |-> current_version_no[artifact_id[j]] + 1, generation_job |-> j]
  <2>1. version' = version \cup {v}
    BY <1>3 DEF BodyCommit, AddVersion
  <2>2. VersionsBy(j)' = VersionsBy(j) \cup {v}
    BY <2>1
  <2>3. status[j] = "RUNNING" /\ status'[j] = "SUCCEEDED" /\ LetsGo(w, j)
    BY <1>3 DEF BodyCommit, MayComplete, TypeOK, Rest, Idle, LetsGo
  <2> QED
    BY <2>2, <2>3
<1>4. CASE \E w \in Worker : BodyCommit(w) /\ run[w].job = j
  BY <1>3, <1>4
<1>5. CASE ~\E w \in Worker : BodyCommit(w) /\ run[w].job = j
  <2>1. status'[j] = "SUCCEEDED" => status[j] = "SUCCEEDED"
    BY <1>5, JobMoves DEF LetsGo
  <2>2. ASSUME version' # version
        PROVE  \/ \E s \in Session : EditCommit(s)
               \/ \E w \in Worker : BodyCommit(w)
    BY <2>2 DEF Next, ApiNext, BrokerNext, WorkerNext, vars, RequestBegin, ReleaseBegin,
       ReviewBegin, RequestCreates, RequestWritesNothing, ReleaseFindsJob, ReleaseCommit,
       DecisionCommit, Dispatch, DispatchFails, LoseMessage, Claim, BodyBegin, BodyRaises,
       FailBegin, FailCommit, Die
  <2>3. VersionsBy(j)' = VersionsBy(j)
    BY <1>1, <1>2, <1>5, <2>2
  <2> QED
    BY <2>1, <2>3
<1> QED
  BY <1>4, <1>5

LEMMA JobsHaveArtifactsStep ==
    ASSUME TypeOK, TransactionsAreGuarded, WorkersHoldOpenJobs, JobsHaveArtifacts, [Next]_vars
    PROVE  /\ JobsHaveArtifacts'
           /\ \A j \in Job : status[j] # Absent =>
                 artifact_id'[j] = artifact_id[j] /\ from_version_no'[j] = from_version_no[j]
<1> USE DEF rows, jobs, messages, TypeOK
<1>1. ASSUME NEW s \in Session, NEW i \in Job, RequestCreates(s, i)
      PROVE  /\ artifact_id'[i] \in Artifact
             /\ \A j \in Job \ {i} : /\ artifact_id'[j] = artifact_id[j]
                                     /\ from_version_no'[j] = from_version_no[j]
                                     /\ status'[j] = status[j]
             /\ status[i] = Absent
  <2>1. txn[s].artifact \in Artifact
    BY <1>1 DEF RequestCreates, TransactionsAreGuarded
  <2> QED
    BY <1>1, <2>1 DEF RequestCreates
<1>2. CASE \A s \in Session, i \in Job : ~RequestCreates(s, i)
  <2>1. UNCHANGED <<artifact_id, from_version_no>>
    BY <1>2 DEF Next, ApiNext, BrokerNext, WorkerNext, vars, RequestBegin, ReleaseBegin,
       ReviewBegin, RequestWritesNothing, ReleaseFindsJob, ReleaseCommit, DecisionCommit,
       EditCommit, Dispatch, DispatchFails, LoseMessage, Claim, BodyBegin, BodyCommit,
       BodyRaises, FailBegin, FailCommit, Die
  <2>2. \A j \in Job : status'[j] # Absent => status[j] # Absent
    BY <1>2, JobMoves DEF Absent
  <2> QED
    BY <2>1, <2>2 DEF JobsHaveArtifacts
<1> QED
  BY <1>1, <1>2 DEF JobsHaveArtifacts

-----------------------------------------------------------------------------
(* One run and one version per job.                                        *)

LEMMA OneRunStep ==
    ASSUME TypeOK, WorkersHoldOpenJobs, OneRunPerJob, [Next]_vars
    PROVE  OneRunPerJob'
<1> SUFFICES ASSUME NEW w1 \in Worker, NEW w2 \in Worker, w1 # w2,
                    run'[w1].at # "idle", run'[w2].at # "idle", run'[w1].job = run'[w2].job
             PROVE  FALSE
  BY DEF OneRunPerJob
(* The claimed job was QUEUED, so no other worker had it.                  *)
<1>1. ASSUME NEW x \in Worker, NEW y \in Worker, x # y, NEW j \in Job, Claim(x, j),
             run'[y].at # "idle"
      PROVE  run'[y].job # j
  BY <1>1, JobTargets DEF Claim, Step, WorkersHoldOpenJobs, TypeOK
<1>2. CASE run[w1].at # "idle" /\ run[w2].at # "idle"
             /\ run'[w1].job = run[w1].job /\ run'[w2].job = run[w2].job
  BY <1>2 DEF OneRunPerJob
<1> QED
  BY <1>1, <1>2, RunMoves

LEMMA OneVersionStep ==
    ASSUME TypeOK, GenerationAssumption, TransactionsAreGuarded, WorkersHoldOpenJobs,
           OneVersionPerJob, [Next]_vars
    PROVE  OneVersionPerJob'
<1> SUFFICES ASSUME NEW j \in Job
             PROVE  /\ \A v1, v2 \in VersionsBy(j)' : v1 = v2
                    /\ status'[j] = "SUCCEEDED" => VersionsBy(j)' # {}
                    /\ VersionsBy(j)' # {} => status'[j] \in {"SUCCEEDED", "CANCELLED"}
  BY DEF OneVersionPerJob
<1>1. ASSUME NEW v, VersionsBy(j)' = VersionsBy(j) \cup {v}, status[j] = "RUNNING",
             status'[j] = "SUCCEEDED"
      PROVE  VersionsBy(j)' = {v}
  BY <1>1 DEF OneVersionPerJob
<1>2. ASSUME VersionsBy(j)' = VersionsBy(j), status'[j] = "SUCCEEDED" => status[j] = "SUCCEEDED"
      PROVE  /\ VersionsBy(j)' = {} => status'[j] # "SUCCEEDED"
             /\ VersionsBy(j)' # {} => status'[j] \in {"SUCCEEDED", "CANCELLED"}
             /\ \A v1, v2 \in VersionsBy(j)' : v1 = v2
  <2>1. VersionsBy(j) # {} => status[j] \in {"SUCCEEDED", "CANCELLED"}
    BY DEF OneVersionPerJob
  <2>2. status[j] \in {"SUCCEEDED", "CANCELLED"} => status'[j] \in {"SUCCEEDED", "CANCELLED"}
    BY JobMoves DEF Absent
  <2> QED
    BY <1>2, <2>1, <2>2 DEF OneVersionPerJob
<1> QED
  BY <1>1, <1>2, VersionMoves

LEMMA WorkersStep ==
    ASSUME TypeOK, GenerationAssumption, TransactionsAreGuarded, WorkersHoldOpenJobs,
           OneRunPerJob, OneVersionPerJob, [Next]_vars
    PROVE  WorkersHoldOpenJobs'
<1> SUFFICES ASSUME NEW w \in Worker, run'[w].at # "idle"
             PROVE  \E j \in Job : /\ run'[w].job = j
                                   /\ status'[j] \in {"RUNNING", "CANCELLED"}
                                   /\ VersionsBy(j)' = {}
  BY DEF WorkersHoldOpenJobs, VersionsBy
<1>1. ASSUME NEW j \in Job, run[w].at # "idle", run[w].job = j, run'[w].job = j
      PROVE  status'[j] \in {"RUNNING", "CANCELLED"} /\ VersionsBy(j)' = {} /\ run'[w].job = j
  <2>1. \A x \in Worker : ~LetsGo(x, j)
    BY <1>1 DEF LetsGo, OneRunPerJob
  <2> QED
    BY <1>1, <2>1, JobMoves, VersionMoves DEF WorkersHoldOpenJobs, Absent
<1>2. ASSUME NEW j \in Job, Claim(w, j)
      PROVE  status'[j] = "RUNNING" /\ VersionsBy(j)' = {} /\ run'[w].job = j
  <2>1. status[j] = "QUEUED" /\ status'[j] = "RUNNING" /\ run'[w].job = j
    BY <1>2, JobTargets DEF Claim, Step, TypeOK
  <2>2. VersionsBy(j)' = VersionsBy(j)
    BY <1>2 DEF Claim, VersionsBy, rows
  <2> QED
    BY <2>1, <2>2 DEF OneVersionPerJob
<1>3. CASE run[w].at # "idle" /\ run'[w].job = run[w].job
  BY <1>1, <1>3 DEF WorkersHoldOpenJobs
<1>4. run'[w] = run[w] => run[w].at # "idle"
  OBVIOUS
<1> QED
  BY <1>2, <1>3, <1>4, RunMoves

-----------------------------------------------------------------------------
(* What open transactions rely on.                                         *)

LEMMA TransactionsStep ==
    ASSUME TypeOK, WorkersHoldOpenJobs, JobsHaveArtifacts, TransactionsAreGuarded, [Next]_vars
    PROVE  TransactionsAreGuarded'
<1> DEFINE Guarded(s) ==
        /\ txn'[s].op # "none" => txn'[s].artifact \in Artifact
        /\ txn'[s].op \in {"release", "cancel"} => MayApply("ORPHANED", txn'[s].seen)
        /\ (txn'[s].op = "cancel" /\ txn'[s].job # NoJob) =>
              /\ status'[txn'[s].job] # Absent
              /\ artifact_id'[txn'[s].job] = txn'[s].artifact
<1> SUFFICES ASSUME NEW s \in Session PROVE Guarded(s)
  BY DEF TransactionsAreGuarded, MayApply
<1>1. \A j \in Job : status[j] # Absent => status'[j] # Absent /\ artifact_id'[j] = artifact_id[j]
  BY JobMoves, JobsHaveArtifactsStep DEF Absent
<1>2. CASE txn'[s] = txn[s]
  <2>1. txn[s].job \in Job \cup {NoJob}
    BY DEF TypeOK, Txn
  <2> QED
    BY <1>1, <1>2, <2>1 DEF TransactionsAreGuarded
<1>3. ASSUME NEW t \in Session, Close(t) PROVE Guarded(s)
  <2>1. txn'[s] = txn[s] \/ txn'[s].op = "none"
    BY <1>3 DEF Close, Closed, TypeOK
  <2> QED
    BY <1>2, <2>1
<1>4. ASSUME NEW t \in Session, NEW a \in Artifact,
             RequestBegin(t, a) \/ ReleaseBegin(t, a) \/ ReviewBegin(t, a)
      PROVE  Guarded(s)
  <2>1. PICK op \in {"start", "regenerate", "release", "approve", "reject", "edit"} :
            Open(t, op, a, NoJob) /\ (op = "release" => MayApply("ORPHANED", state[a]))
    BY <1>4 DEF RequestBegin, ReleaseBegin, ReviewBegin
  <2>2. CASE s = t
    BY <2>1, <2>2 DEF Open, TypeOK
  <2>3. CASE s # t
    BY <1>2, <2>1, <2>3 DEF Open, TypeOK
  <2> QED
    BY <2>2, <2>3
<1>5. ASSUME NEW t \in Session, ReleaseFindsJob(t) PROVE Guarded(s)
  <2>1. PICK j \in Job \cup {NoJob} :
            /\ Cancels(t, j)
            /\ j # NoJob => status[j] # Absent /\ artifact_id[j] = txn[t].artifact /\ j \in Job
    BY <1>5 DEF ReleaseFindsJob, Holders, HoldsKey, Live, JobStatus, Absent
  <2>2. CASE s = t
    <3>1. /\ txn'[t].op = "cancel" /\ txn'[t].job = j
          /\ txn'[t].seen = txn[t].seen /\ txn'[t].artifact = txn[t].artifact
      BY <2>1 DEF Cancels, TypeOK, Txn
    <3> QED
      BY <1>1, <1>5, <2>1, <2>2, <3>1 DEF ReleaseFindsJob, TransactionsAreGuarded
  <2>3. CASE s # t
    BY <1>2, <2>1, <2>3 DEF Cancels, TypeOK
  <2> QED
    BY <2>2, <2>3
<1>6. ASSUME txn' # txn
      PROVE  \/ \E t \in Session : Close(t) \/ ReleaseFindsJob(t)
             \/ \E t \in Session, a \in Artifact :
                  RequestBegin(t, a) \/ ReleaseBegin(t, a) \/ ReviewBegin(t, a)
  BY <1>6 DEF Next, ApiNext, BrokerNext, WorkerNext, vars, RequestCreates,
     RequestWritesNothing, ReleaseCommit, DecisionCommit, EditCommit, Dispatch, DispatchFails,
     LoseMessage, Claim, BodyBegin, BodyCommit, BodyRaises, FailBegin, FailCommit, Die
<1> QED
  BY <1>2, <1>3, <1>4, <1>5, <1>6

-----------------------------------------------------------------------------
(* Version numbers and idempotency keys.                                   *)

LEMMA AddNumbered ==
    ASSUME TypeOK, VersionsAreNumbered, NEW a \in Artifact, NEW j, AddVersion(a, j)
    PROVE  VersionsAreNumbered'
<1> DEFINE mine(b) == {v \in version : v.artifact = b}
           n == current_version_no[a]
           new == [artifact |-> a, version_no |-> n + 1, generation_job |-> j]
<1>1. \A b \in Artifact : {v.version_no : v \in mine(b)} = 1 .. current_version_no[b]
  BY DEF VersionsAreNumbered
<1>2. \A b \in Artifact : \A v1, v2 \in mine(b) : v1.version_no = v2.version_no => v1 = v2
  BY DEF VersionsAreNumbered
<1>3. version' = version \cup {new} /\ n \in Nat
  BY DEF AddVersion, TypeOK
<1>4. ASSUME NEW b \in Artifact \ {a}
      PROVE  /\ mine(b)' = mine(b)
             /\ current_version_no'[b] = current_version_no[b]
  BY <1>3 DEF AddVersion, TypeOK
<1>5. mine(a)' = mine(a) \cup {new} /\ current_version_no'[a] = n + 1
  BY <1>3 DEF AddVersion, TypeOK
<1>6. {v.version_no : v \in mine(a)'} = 1 .. current_version_no'[a]
  <2>1. {v.version_no : v \in mine(a)'} = {v.version_no : v \in mine(a)} \cup {n + 1}
    <3>1. new.version_no = n + 1
      OBVIOUS
    <3> HIDE DEF mine, new, n
    <3> QED
      BY <1>5, <3>1
  <2>2. (1 .. n) \cup {n + 1} = 1 .. (n + 1)
    BY <1>3
  <2> QED
    BY <1>1, <1>5, <2>1, <2>2
<1>7. \A v1, v2 \in mine(a)' : v1.version_no = v2.version_no => v1 = v2
  <2>1. \A v \in mine(a) : v.version_no # n + 1
    <3>1. \A v \in mine(a) : v.version_no \in 1 .. n
      BY <1>1
    <3> QED
      BY <1>3, <3>1
  <2> QED
    BY <1>2, <1>5, <2>1
<1>8. ASSUME NEW b \in Artifact
      PROVE  /\ {v.version_no : v \in mine(b)'} = 1 .. current_version_no'[b]
             /\ \A v1, v2 \in mine(b)' : v1.version_no = v2.version_no => v1 = v2
  BY <1>1, <1>2, <1>4, <1>6, <1>7
<1> QED
  BY <1>8 DEF VersionsAreNumbered

LEMMA NumberedStep ==
    ASSUME TypeOK, WorkersHoldOpenJobs, JobsHaveArtifacts, TransactionsAreGuarded,
           VersionsAreNumbered, [Next]_vars
    PROVE  VersionsAreNumbered'
<1>1. ASSUME NEW s \in Session, EditCommit(s) PROVE VersionsAreNumbered'
  BY <1>1, AddNumbered DEF EditCommit, TransactionsAreGuarded
<1>2. ASSUME NEW w \in Worker, BodyCommit(w) PROVE VersionsAreNumbered'
  BY <1>2, AddNumbered, WorkerArtifact DEF BodyCommit
<1>3. ASSUME <<current_version_no, version>>' # <<current_version_no, version>>
      PROVE  \/ \E s \in Session : EditCommit(s)
             \/ \E w \in Worker : BodyCommit(w)
  BY <1>3 DEF Next, ApiNext, BrokerNext, WorkerNext, vars, rows, RequestBegin, ReleaseBegin,
     ReviewBegin, RequestCreates, RequestWritesNothing, ReleaseFindsJob, ReleaseCommit,
     DecisionCommit, Dispatch, DispatchFails, LoseMessage, Claim, BodyBegin, BodyRaises,
     FailBegin, FailCommit, Die
<1> QED
  BY <1>1, <1>2, <1>3 DEF VersionsAreNumbered

LEMMA HolderStep ==
    ASSUME TypeOK, WorkersHoldOpenJobs, JobsHaveArtifacts, TransactionsAreGuarded,
           OneHolderPerKey, [Next]_vars
    PROVE  OneHolderPerKey'
<1> SUFFICES ASSUME NEW j1 \in Job, NEW j2 \in Job, j1 # j2, Live(j1)', Live(j2)',
                    artifact_id'[j1] = artifact_id'[j2],
                    from_version_no'[j1] = from_version_no'[j2]
             PROVE  FALSE
  BY DEF OneHolderPerKey, Live
(* A request found no holder of the key it takes. *)
<1>1. ASSUME NEW s \in Session, NEW i \in Job, NEW k \in Job, i # k, RequestCreates(s, i), Live(k)',
             artifact_id'[i] = artifact_id'[k]
      PROVE  from_version_no'[i] # from_version_no'[k]
  <2>1. /\ artifact_id'[i] = txn[s].artifact /\ from_version_no'[i] = txn[s].seen_no
        /\ artifact_id'[k] = artifact_id[k] /\ from_version_no'[k] = from_version_no[k]
        /\ status'[k] = status[k]
    BY <1>1 DEF RequestCreates, TypeOK
  <2>2. k \notin Holders(txn[s].artifact, txn[s].seen_no + 1)
    BY <1>1 DEF RequestCreates
  <2> QED
    BY <1>1, <2>1, <2>2 DEF Holders, HoldsKey, Live
(* Nothing else makes a job live. *)
<1>2. ASSUME NEW j \in Job, Live(j)'
      PROVE  (Live(j) /\ status[j] # Absent) \/ \E s \in Session : RequestCreates(s, j)
  BY <1>2, JobMoves DEF Live, JobStatus, DeadStatuses, Absent
<1> QED
  BY <1>1, <1>2, JobsHaveArtifactsStep DEF OneHolderPerKey

-----------------------------------------------------------------------------
(* Every spinner has an owner.                                             *)

(* Only a request that commits moves an artifact into GENERATING.          *)
LEMMA SpinnerStarts ==
    ASSUME TypeOK, [Next]_vars, NEW a \in Artifact, state'[a] = "GENERATING"
    PROVE  state[a] = "GENERATING"
              \/ \E s \in Session, j \in Job : RequestCreates(s, j) /\ txn[s].artifact = a
<1> USE DEF TypeOK, WriteState, ArtifactState
<1>1. ASSUME NEW s \in Session, NEW j \in Job, RequestCreates(s, j), txn[s].artifact # a
      PROVE  state'[a] = state[a]
  BY <1>1 DEF RequestCreates
<1>2. ASSUME NEW s \in Session, ReleaseCommit(s) PROVE state'[a] = state[a]
  BY <1>2, ArtifactTargets DEF ReleaseCommit
<1>3. ASSUME NEW s \in Session, DecisionCommit(s) PROVE state'[a] = state[a]
  BY <1>3, ReviewTargets DEF DecisionCommit
<1>4. ASSUME NEW s \in Session, EditCommit(s) PROVE state'[a] = state[a]
  BY <1>4, ArtifactTargets DEF EditCommit
<1>5. ASSUME NEW w \in Worker, BodyCommit(w) PROVE state'[a] = state[a]
  BY <1>5, ArtifactTargets DEF BodyCommit
<1>6. ASSUME NEW w \in Worker, FailCommit(w) PROVE state'[a] = state[a]
  BY <1>6, ArtifactTargets DEF FailCommit
<1>7. ASSUME state' # state
      PROVE  \/ \E s \in Session, j \in Job : RequestCreates(s, j)
             \/ \E s \in Session : ReleaseCommit(s) \/ DecisionCommit(s) \/ EditCommit(s)
             \/ \E w \in Worker : BodyCommit(w) \/ FailCommit(w)
  BY <1>7 DEF Next, ApiNext, BrokerNext, WorkerNext, vars, rows, RequestBegin, ReleaseBegin,
     ReviewBegin, RequestWritesNothing, ReleaseFindsJob, Dispatch, DispatchFails, LoseMessage,
     Claim, BodyBegin, BodyRaises, FailBegin, Die
<1> QED
  BY <1>1, <1>2, <1>3, <1>4, <1>5, <1>6, <1>7

(* Whoever ends the owner's job takes the artifact out of GENERATING in    *)
(* the same transaction.                                                   *)
LEMMA OwnerStays ==
    ASSUME TypeOK, WorkersHoldOpenJobs, TransactionsAreGuarded, [Next]_vars,
           NEW a \in Artifact, state[a] = "GENERATING", state'[a] = "GENERATING",
           NEW j \in Job, InFlight(j), artifact_id[j] = a,
           \A w \in Worker : (run[w].at = "failing" /\ run[w].job = j) => run[w].seen = "GENERATING"
    PROVE  InFlight(j)'
<1>1. ASSUME NEW w \in Worker, LetsGo(w, j), BodyCommit(w) PROVE FALSE
  BY <1>1, ArtifactTargets, SpinnerExits
     DEF BodyCommit, MayComplete, WriteState, LetsGo, TypeOK, ArtifactState
<1>2. ASSUME NEW w \in Worker, LetsGo(w, j), FailCommit(w) PROVE FALSE
  BY <1>2, ArtifactTargets, SpinnerExits DEF FailCommit, WriteState, LetsGo, TypeOK
<1>3. ASSUME NEW s \in Session, ReleaseCommit(s), status'[j] # status[j] PROVE FALSE
  <2>1. txn[s].job = j /\ j # NoJob
    BY <1>3 DEF ReleaseCommit, TypeOK
  <2>2. txn[s].artifact = a /\ txn[s].seen = "GENERATING"
    BY <1>3, <2>1, SpinnerExits DEF ReleaseCommit, TransactionsAreGuarded
  <2> QED
    BY <1>3, <2>2, ArtifactTargets DEF ReleaseCommit, WriteState, TypeOK
<1> QED
  BY <1>1, <1>2, <1>3, JobMoves DEF InFlight, Absent

LEMMA SpinnerStep ==
    ASSUME TypeOK, WorkersHoldOpenJobs, JobsHaveArtifacts, TransactionsAreGuarded,
           SpinnerHasOwner, [Next]_vars
    PROVE  SpinnerHasOwner'
<1> DEFINE Owns(j, a) ==
        /\ InFlight(j)
        /\ artifact_id[j] = a
        /\ \A w \in Worker : (run[w].at = "failing" /\ run[w].job = j) => run[w].seen = "GENERATING"
<1> SUFFICES ASSUME NEW a \in Artifact, state'[a] = "GENERATING" PROVE \E j \in Job : Owns(j, a)'
  BY DEF SpinnerHasOwner, InFlight
<1>1. ASSUME NEW s \in Session, NEW j \in Job, RequestCreates(s, j), txn[s].artifact = a
      PROVE  Owns(j, a)'
  <2>1. status'[j] = "QUEUED" /\ artifact_id'[j] = a /\ run' = run
    BY <1>1 DEF RequestCreates, TypeOK
  <2>2. \A w \in Worker : run[w].at # "idle" => run[w].job # j
    BY <1>1 DEF RequestCreates, WorkersHoldOpenJobs, Absent
  <2> QED
    BY <2>1, <2>2 DEF InFlight
<1>2. CASE state[a] = "GENERATING"
  <2>1. PICK j \in Job : Owns(j, a)
    BY <1>2 DEF SpinnerHasOwner
  <2>2. InFlight(j)' /\ artifact_id'[j] = a
    BY <1>2, <2>1, OwnerStays, JobsHaveArtifactsStep DEF InFlight, Absent
  <2>3. ASSUME NEW w \in Worker, run'[w].at = "failing", run'[w].job = j
        PROVE  run'[w].seen = "GENERATING"
    <3>1. CASE run'[w] = run[w]
      BY <2>1, <2>3, <3>1
    <3>2. CASE FailBegin(w)
      BY <1>2, <2>1, <2>3, <3>2 DEF FailBegin, Step, TypeOK
    <3>3. \/ run' = run
          \/ \E v \in Worker : WorkerNext(v)
      BY DEF Next, ApiNext, BrokerNext, vars, RequestBegin, ReleaseBegin, ReviewBegin,
         RequestCreates, RequestWritesNothing, ReleaseFindsJob, ReleaseCommit, DecisionCommit,
         EditCommit, Dispatch, DispatchFails, LoseMessage
    <3>4. ASSUME NEW v \in Worker, WorkerNext(v) PROVE run'[w] = run[w] \/ FailBegin(w)
      BY <2>3, <3>4 DEF WorkerNext, Claim, BodyBegin, BodyCommit, BodyRaises, FailBegin,
         FailCommit, Die, Step, Rest, Idle, TypeOK
    <3> QED
      BY <2>3, <3>1, <3>2, <3>3, <3>4
  <2> QED
    BY <2>2, <2>3
<1> QED
  BY <1>1, <1>2, SpinnerStarts

-----------------------------------------------------------------------------
(* The invariant and what follows from it.                                 *)

LEMMA InvInit == GenerationAssumption /\ Init => IInv
<1> SUFFICES ASSUME GenerationAssumption, Init PROVE IInv
  OBVIOUS
<1>1. TypeOK
  BY TypeInit
<1>2. WorkersHoldOpenJobs /\ JobsHaveArtifacts /\ TransactionsAreGuarded /\ OneRunPerJob
  BY DEF Init, WorkersHoldOpenJobs, JobsHaveArtifacts, TransactionsAreGuarded, OneRunPerJob,
     Idle, Closed, Absent
<1>3. OneVersionPerJob /\ OneHolderPerKey
  BY DEF Init, OneVersionPerJob, OneHolderPerKey, VersionsBy, Live, JobStatus, Absent
<1>4. VersionsAreNumbered
  BY DEF Init, VersionsAreNumbered
<1>5. SpinnerHasOwner
  BY DEF Init, SpinnerHasOwner, Absent
<1> QED
  BY <1>1, <1>2, <1>3, <1>4, <1>5 DEF IInv

LEMMA InvStep == GenerationAssumption /\ IInv /\ [Next]_vars => IInv'
<1> SUFFICES ASSUME GenerationAssumption, IInv, [Next]_vars PROVE IInv'
  OBVIOUS
<1> USE DEF IInv
<1>1. TypeOK' /\ WorkersHoldOpenJobs' /\ JobsHaveArtifacts' /\ TransactionsAreGuarded'
  BY TypeStep, WorkersStep, JobsHaveArtifactsStep, TransactionsStep
<1>2. OneRunPerJob' /\ OneVersionPerJob'
  BY OneRunStep, OneVersionStep
<1>3. VersionsAreNumbered' /\ OneHolderPerKey'
  BY NumberedStep, HolderStep
<1>4. SpinnerHasOwner'
  BY SpinnerStep
<1> QED
  BY <1>1, <1>2, <1>3, <1>4

(* The inductive invariant holds in every reachable state. *)
THEOREM Invariance == Spec => []IInv
<1>1. Init => IInv
  BY InvInit, GenerationAssumption
<1>2. IInv /\ [Next]_vars => IInv'
  BY InvStep, GenerationAssumption
<1> QED
  BY <1>1, <1>2, PTL DEF Spec

(* Every variable keeps its type, whatever the interleaving of the API,    *)
(* the broker and the workers.                                             *)
THEOREM TypeCorrect == Spec => []TypeOK
<1>1. IInv => TypeOK
  BY DEF IInv
<1> QED
  BY <1>1, Invariance, PTL

(* The claim of JobRepository lets one process at a time run a job, however *)
(* often its message is delivered.                                         *)
THEOREM RunsAreExclusive == Spec => []OneRunPerJob
<1>1. IInv => OneRunPerJob
  BY DEF IInv
<1> QED
  BY <1>1, Invariance, PTL

(* At-least-once delivery does not become two versions of one job.         *)
THEOREM VersionsAreUnique == Spec => []OneVersionPerJob
<1>1. IInv => OneVersionPerJob
  BY DEF IInv
<1> QED
  BY <1>1, Invariance, PTL

(* Concurrent edits and completions number an artifact's versions 1 .. n.  *)
THEOREM Numbering == Spec => []VersionsAreNumbered
<1>1. IInv => VersionsAreNumbered
  BY DEF IInv
<1> QED
  BY <1>1, Invariance, PTL

(* Concurrent requests never leave two live jobs under one idempotency key. *)
THEOREM KeysAreExclusive == Spec => []OneHolderPerKey
<1>1. IInv => OneHolderPerKey
  BY DEF IInv
<1> QED
  BY <1>1, Invariance, PTL

(* An artifact in GENERATING has a queued or running job, even when its    *)
(* worker fails, dies or loses a race against a review or a release.       *)
THEOREM SpinnersAreOwned == Spec => []GeneratingHasJob
<1>1. IInv => GeneratingHasJob
  BY DEF IInv, SpinnerHasOwner, GeneratingHasJob
<1> QED
  BY <1>1, Invariance, PTL

-----------------------------------------------------------------------------
(* Generation implements VersionLog.                                       *)

LEMMA AuthorExists ==
    ASSUME TypeOK, VersionsAreNumbered, NEW a \in Artifact, NEW n \in 1 .. current_version_no[a]
    PROVE  \E v \in version : v.artifact = a /\ v.version_no = n
                                /\ v.generation_job \in Job \cup {NoJob}
  BY DEF VersionsAreNumbered, TypeOK, Version

LEMMA LogTyped ==
    ASSUME TypeOK, VersionsAreNumbered, NEW a \in Artifact
    PROVE  /\ Log[a] \in Seq(Job \cup {NoJob})
           /\ Len(Log[a]) = current_version_no[a]
           /\ \A n \in 1 .. current_version_no[a] : Log[a][n] = AuthorOf(a, n)
<1>1. Log[a] = [n \in 1 .. current_version_no[a] |-> AuthorOf(a, n)]
  BY DEF Log
<1>2. ASSUME NEW n \in 1 .. current_version_no[a] PROVE AuthorOf(a, n) \in Job \cup {NoJob}
  <2>1. PICK v \in version : v.artifact = a /\ v.version_no = n
                               /\ v.generation_job \in Job \cup {NoJob}
    BY AuthorExists
  <2>2. \A u \in version : (u.artifact = a /\ u.version_no = n) => u = v
    BY <2>1 DEF VersionsAreNumbered
  <2> QED
    BY <2>1, <2>2 DEF AuthorOf
<1>3. current_version_no[a] \in Nat
  BY DEF TypeOK
<1> QED
  BY <1>1, <1>2, <1>3

LEMMA AddLog ==
    ASSUME TypeOK, TypeOK', VersionsAreNumbered, NEW a \in Artifact, NEW j \in Job \cup {NoJob},
           AddVersion(a, j)
    PROVE  Log' = [Log EXCEPT ![a] = Append(@, j)]
<1> DEFINE n == current_version_no[a]
           new == [artifact |-> a, version_no |-> n + 1, generation_job |-> j]
<1>1. VersionsAreNumbered'
  BY AddNumbered
<1>2. version' = version \cup {new} /\ n \in Nat
  BY DEF AddVersion, TypeOK
(* A version that was there keeps its author. *)
<1>3. ASSUME NEW b \in Artifact, NEW i \in 1 .. current_version_no[b]
      PROVE  AuthorOf(b, i)' = AuthorOf(b, i)
  <2>1. PICK v \in version : v.artifact = b /\ v.version_no = i
    BY AuthorExists
  <2>2. \A u \in version : (u.artifact = b /\ u.version_no = i) => u = v
    BY <2>1 DEF VersionsAreNumbered
  <2>3. AuthorOf(b, i) = v.generation_job
    BY <2>1, <2>2 DEF AuthorOf
  <2>4. v \in version' /\ \A u \in version' : (u.artifact = b /\ u.version_no = i) => u = v
    BY <1>1, <1>2, <2>1 DEF VersionsAreNumbered
  <2>5. AuthorOf(b, i)' = v.generation_job
    BY <2>1, <2>4 DEF AuthorOf
  <2> QED
    BY <2>3, <2>5
<1>4. ASSUME NEW i, i = n + 1 PROVE AuthorOf(a, i)' = j
  <2>1. new \in version' /\ new.artifact = a /\ new.version_no = i /\ new.generation_job = j
    BY <1>2, <1>4
  <2>2. \A u \in version' : (u.artifact = a /\ u.version_no = i) => u = new
    BY <1>1, <2>1 DEF VersionsAreNumbered
  <2> HIDE DEF new, n
  <2> QED
    BY <2>1, <2>2 DEF AuthorOf
<1>5. ASSUME NEW b \in Artifact \ {a} PROVE Log'[b] = Log[b]
  <2>1. current_version_no'[b] = current_version_no[b]
    BY DEF AddVersion, TypeOK
  <2> QED
    BY <1>3, <2>1 DEF Log
<1>6. Log'[a] = Append(Log[a], j)
  <2>1. current_version_no'[a] = n + 1
    BY DEF AddVersion, TypeOK
  <2>2. Log[a] \in Seq(Job \cup {NoJob}) /\ Len(Log[a]) = n
    BY LogTyped
  <2>3. Log'[a] = [i \in 1 .. n + 1 |-> AuthorOf(a, i)']
    BY <2>1 DEF Log
  <2>4. ASSUME NEW i \in 1 .. n + 1 PROVE Append(Log[a], j)[i] = AuthorOf(a, i)'
    <3>1. CASE i = n + 1
      BY <1>4, <2>2, <3>1, AppendProperties
    <3>2. CASE i \in 1 .. n
      BY <1>3, <2>2, <3>2, LogTyped, AppendProperties
    <3>3. i = n + 1 \/ i \in 1 .. n
      <4>1. n \in Nat
        BY <1>2
      <4> HIDE DEF n
      <4> QED
        BY <2>4, <4>1
    <3> QED
      BY <3>1, <3>2, <3>3
  <2>5. Append(Log[a], j) \in Seq(Job \cup {NoJob}) /\ Len(Append(Log[a], j)) = n + 1
    BY <2>2, AppendProperties
  <2>6. Append(Log[a], j) = [i \in 1 .. n + 1 |-> Append(Log[a], j)[i]]
    BY <2>5
  <2> QED
    BY <2>3, <2>4, <2>6
<1>7. Log' = [b \in Artifact |-> Log'[b]] /\ DOMAIN Log = Artifact
  BY DEF Log
<1> QED
  BY <1>5, <1>6, <1>7

(* What an update of one status column does to the jobs that are over.     *)
LEMMA OverMoves ==
    ASSUME TypeOK, NEW j \in Job, NEW x, status' = [status EXCEPT ![j] = x]
    PROVE  /\ x \in {"SUCCEEDED", "FAILED", "CANCELLED"} => Over' = Over \cup {j}
           /\ (x \in {"QUEUED", "RUNNING"} /\ status[j] \in {Absent, "QUEUED"}) => Over' = Over
  BY DEF Over, DeadStatuses, TypeOK, Absent

LEMMA LogStep ==
    ASSUME GenerationAssumption, IInv, [Next]_vars
    PROVE  [History!Next]_<<Log, Over>>
<1> USE DEF IInv
<1>1. TypeOK'
  BY TypeStep
<1>2. ASSUME NEW s \in Session, EditCommit(s) PROVE History!Next
  <2>1. txn[s].artifact \in Artifact /\ AddVersion(txn[s].artifact, NoJob)
    BY <1>2 DEF EditCommit, TransactionsAreGuarded
  <2>2. Log' = [Log EXCEPT ![txn[s].artifact] = Append(@, NoJob)]
    BY <1>1, <2>1, AddLog
  <2>3. Over' = Over
    BY <1>2 DEF EditCommit, Over, jobs
  <2> QED
    BY <2>1, <2>2, <2>3 DEF History!Next, History!Edit, History!Write
<1>3. ASSUME NEW w \in Worker, BodyCommit(w) PROVE History!Next
  <2> DEFINE j == run[w].job
             a == artifact_id[j]
  <2>1. j \in Job /\ a \in Artifact /\ AddVersion(a, j)
    BY <1>3, WorkerArtifact DEF BodyCommit
  <2>2. Log' = [Log EXCEPT ![a] = Append(@, j)]
    BY <1>1, <2>1, AddLog
  <2>3. status[j] = "RUNNING" /\ status' = [status EXCEPT ![j] = "SUCCEEDED"]
    BY <1>3, JobTargets DEF BodyCommit, MayComplete
  <2>4. j \notin Over /\ Over' = Over \cup {j}
    BY <2>1, <2>3 DEF Over, DeadStatuses, TypeOK
  <2> QED
    BY <2>1, <2>2, <2>4 DEF History!Next, History!Deliver, History!Write
<1>4. CASE /\ \A s \in Session : ~EditCommit(s)
           /\ \A w \in Worker : ~BodyCommit(w)
  <2>1. UNCHANGED <<current_version_no, version>>
    BY <1>4 DEF Next, ApiNext, BrokerNext, WorkerNext, vars, rows, RequestBegin, ReleaseBegin,
       ReviewBegin, RequestCreates, RequestWritesNothing, ReleaseFindsJob, ReleaseCommit,
       DecisionCommit, Dispatch, DispatchFails, LoseMessage, Claim, BodyBegin, BodyRaises,
       FailBegin, FailCommit, Die
  <2>2. Log' = Log
    BY <2>1 DEF Log, AuthorOf
  <2>3. ASSUME NEW s \in Session, NEW j \in Job, RequestCreates(s, j) PROVE Over' = Over
    BY <2>3, OverMoves DEF RequestCreates
  <2>4. ASSUME NEW w \in Worker, NEW j \in Job, Claim(w, j) PROVE Over' = Over
    BY <2>4, OverMoves, JobTargets DEF Claim
  <2>5. ASSUME NEW s \in Session, ReleaseCommit(s)
        PROVE  Over' = Over \/ \E j \in Job : Over' = Over \cup {j}
    <3>1. CASE status' = status
      BY <3>1 DEF Over
    <3>2. CASE txn[s].job \in Job /\ status' = [status EXCEPT ![txn[s].job] = "CANCELLED"]
      BY <3>2, OverMoves
    <3> QED
      BY <2>5, <3>1, <3>2, JobTargets DEF ReleaseCommit, TypeOK, Txn
  <2>6. ASSUME NEW w \in Worker, FailCommit(w)
        PROVE  Over' = Over \/ \E j \in Job : Over' = Over \cup {j}
    <3>1. CASE status' = status
      BY <3>1 DEF Over
    <3>2. CASE run[w].job \in Job /\ status' = [status EXCEPT ![run[w].job] = "FAILED"]
      BY <3>2, OverMoves
    <3> QED
      BY <2>6, <3>1, <3>2, JobTargets, WorkerArtifact DEF FailCommit
  <2>7. ASSUME status' # status
        PROVE  \/ \E s \in Session, j \in Job : RequestCreates(s, j)
               \/ \E w \in Worker, j \in Job : Claim(w, j)
               \/ \E s \in Session : ReleaseCommit(s)
               \/ \E w \in Worker : FailCommit(w)
    BY <1>4, <2>7 DEF Next, ApiNext, BrokerNext, WorkerNext, vars, jobs, RequestBegin,
       ReleaseBegin, ReviewBegin, RequestWritesNothing, ReleaseFindsJob, DecisionCommit,
       Dispatch, DispatchFails, LoseMessage, BodyBegin, BodyRaises, FailBegin, Die
  <2>8. status' = status => Over' = Over
    BY DEF Over
  <2>9. Over' = Over \/ \E j \in Job : Over' = Over \cup {j}
    BY <2>3, <2>4, <2>5, <2>6, <2>7, <2>8
  <2> QED
    BY <2>2, <2>9 DEF History!Next, History!GiveUp
<1> QED
  BY <1>2, <1>3, <1>4

(* Whatever messages are lost or repeated, workers killed, jobs released   *)
(* and artifacts edited, what can be read of the versions is a behaviour   *)
(* of VersionLog.                                                          *)
THEOREM Refinement == Spec => ImplementsVersionLog
<1>1. Init => History!Init
  BY DEF Init, History!Init, Log, Over, DeadStatuses, Absent
<1>2. IInv /\ [Next]_vars => [History!Next]_<<Log, Over>>
  BY LogStep, GenerationAssumption
<1> QED
  BY <1>1, <1>2, Invariance, PTL DEF Spec, ImplementsVersionLog, History!Spec
=============================================================================
