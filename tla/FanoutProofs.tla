---------------------------- MODULE FanoutProofs ----------------------------
(***************************************************************************)
(* Fanout, for any scene sets, jobs, workers and daily limits: a fan-out   *)
(* lands whole or not at all, the spend stays near the cap, whatever shows *)
(* "Generating..." has a job, and runs that wait for each other in a ring   *)
(* do so over the project row.                                             *)
(***************************************************************************)
EXTENDS Fanout, FiniteSetTheorems, FunctionTheorems, SequenceTheorems, WellFoundedInduction, TLAPS

-----------------------------------------------------------------------------
(* The inductive invariant.                                                *)

InLoop(w) == run[w].at \in {"body", "inserting", "flushing", "found", "closing"}

(* The scenes a body has not written yet: the loop's own, and the rest. *)
Ahead(w) == run[w].todo \cup ({run[w].scene} \ {NoScene})

(* A worker that is not idle works for a job that has been claimed.        *)
HasJob(w) ==
    run[w].at # "idle" =>
        run[w].job \in Job /\ job[run[w].job].status \notin {Absent, "QUEUED"}

(* The loop variable has a value while a scene is being done, nothing of   *)
(* the loop survives the body, and only its end is closing.                *)
LoopIsInBody(w) ==
    /\ ~InLoop(w) => run[w].todo = {} /\ run[w].wrote = {}
    /\ run[w].at \in {"inserting", "found"} => run[w].scene \in Scene
    /\ run[w].at \notin {"inserting", "found", "flushing"} => run[w].scene = NoScene
    /\ run[w].at = "closing" =>
          run[w].todo = {} /\ run[w].wrote # {} /\ Closes(run[w].job)

(* The slot of a job is the whole set's, or a scene of one of the first    *)
(* sets.                                                                   *)
NamesSceneOf(j, i) ==
    job[j].slot = Trigger \/ \E k \in 1 .. i : job[j].slot \in SceneSets[k]

JobsNameScenes ==
    \A j \in Job : job[j].status # Absent => NamesSceneOf(j, approved_set)

(* What a body has written and what is ahead of it is what its job is for, *)
(* in some scene set that has been approved, and not before that scene's.  *)
LoopIsForASet(w) ==
    InLoop(w) =>
        \E i \in 1 .. approved_set :
            /\ run[w].wrote \cup Ahead(w) = Selected(run[w].job, SceneSets[i])
            /\ NamesSceneOf(run[w].job, i)

(* Scenes are written in the one order. *)
LoopIsInOrder(w) ==
    /\ \A x \in run[w].wrote, y \in Ahead(w) : Before(x, y)
    /\ \A y \in run[w].todo : run[w].scene # NoScene => Before(run[w].scene, y)

LoopOK(w) == HasJob(w) /\ LoopIsInBody(w) /\ LoopIsForASet(w) /\ LoopIsInOrder(w)

LoopInv == \A w \in Worker : LoopOK(w)

(* A row lock has one holder. *)
LocksAreExclusive ==
    \A w, u \in Worker : w # u => Holds(w) \cap Holds(u) = {}

(* Some job answers for a spinner: it is queued or running, and a worker   *)
(* that is failing it has seen the spinner and will take it away.          *)
Answers(j, x) ==
    /\ job[j].slot = x /\ job[j].status \in {"QUEUED", "RUNNING"}
    /\ \A w \in Worker :
          run[w].at = "failing" /\ run[w].job = j => run[w].seen = "GENERATING"

SpinnersAreAnswered ==
    \A x \in Slot : state[x] = "GENERATING" => \E j \in Job : Answers(j, x)

(* The paid calls a worker has made or is about to make, unseen by others. *)
Opened(w) ==
    Calls(w) \cup
      {x \in {run[w].scene} \ {NoScene} : setup.stage = "image" /\ ~Free(x)}

InFlight(d) == {p \in Worker \X Scene : run[p[1]].day = d /\ p[2] \in Opened(p[1])}

Rows(d) == {u \in usage : u.day = d}

(* Committed and in flight, a day's calls are at most a share per worker.  *)
SpendIsShared ==
    /\ IsFiniteSet(usage)
    /\ setup.limit > 0 =>
          /\ \A w \in Worker : Cardinality(Opened(w)) <= Share
          /\ \A d \in 0 .. MaxDay :
                Cardinality(Rows(d)) + Cardinality(InFlight(d))
                    <= Cardinality(Worker) * Share

IInv ==
    /\ TypeOK
    /\ JobsNameScenes
    /\ LoopInv
    /\ LocksAreExclusive
    /\ WholeOrNothing
    /\ SpinnersAreAnswered
    /\ SpendIsShared

-----------------------------------------------------------------------------
(* The lifecycle tables, as this module needs them.                        *)

LEMMA ArtifactTargets ==
    /\ Target("GENERATION_STARTED") = "GENERATING"
    /\ Target("REGENERATE_REQUESTED") = "GENERATING"
    /\ Target("GENERATION_SUCCEEDED") = "AWAITING_APPROVAL"
    /\ Target("GENERATION_FAILED") = "FAILED"
    /\ Target("ORPHANED") = "FAILED"
    /\ Target("APPROVED") = "APPROVED"
    /\ Target("REJECTED") = "REJECTED"
  BY DEF Target, ArtifactTable

LEMMA ArtifactSources ==
    /\ \A x : MayApply("ORPHANED", x) <=> x = "GENERATING"
    /\ \A x : MayApply("GENERATION_FAILED", x) <=> x = "GENERATING"
    /\ ~MayApply("APPROVED", Absent)
    /\ ~MayApply("REJECTED", Absent)
  BY DEF MayApply, ArtifactTable, Absent

LEMMA JobMoves ==
    /\ JobTarget("CLAIMED") = "RUNNING" /\ JobTarget("SUCCEEDED") = "SUCCEEDED"
    /\ JobTarget("FAILED") = "FAILED" /\ JobTarget("CANCELLED") = "CANCELLED"
    /\ \A x : /\ MayApplyJob("CLAIMED", x) <=> x = "QUEUED"
              /\ MayApplyJob("SUCCEEDED", x) <=> x = "RUNNING"
              /\ MayApplyJob("FAILED", x) <=> x = "RUNNING"
              /\ MayApplyJob("CANCELLED", x) <=> x \in {"QUEUED", "RUNNING"}
  BY DEF JobTarget, MayApplyJob, JobTable

LEMMA RequestTarget ==
    ASSUME NEW op \in {"start", "regenerate"}
    PROVE  Target(RequestEvent[op]) = "GENERATING"
<1>1. CASE op = "start"
  BY <1>1, ArtifactTargets DEF RequestEvent
<1>2. CASE op = "regenerate"
  BY <1>2, ArtifactTargets DEF RequestEvent
<1> QED
  BY <1>1, <1>2

LEMMA FinishedTarget ==
    ASSUME NEW x
    PROVE  Finished(x) \in {"APPROVED", "AWAITING_APPROVAL"}
<1>1. CASE setup.auto \/ Free(x)
  BY <1>1, ArtifactTargets DEF Finished
<1>2. CASE ~(setup.auto \/ Free(x))
  BY <1>2, ArtifactTargets DEF Finished
<1> QED
  BY <1>1, <1>2

-----------------------------------------------------------------------------
(* Type correctness.                                                       *)

LEMMA IdleTyped == Idle \in Run
<1>1. 0 \in 0 .. MaxDay
  BY FanoutAssumption
<1> QED
  BY <1>1 DEF Idle, Run

LEMMA RaisedTyped ==
    ASSUME NEW j \in Job
    PROVE  /\ [Idle EXCEPT !.at = "raised", !.job = j] \in Run
           /\ [Idle EXCEPT !.at = "claimed", !.job = j] \in Run
  BY IdleTyped DEF Idle, Run

(* The scene set in force, and the part of it a job is for. *)
LEMMA SetsAreScenes ==
    ASSUME NEW i \in 1 .. Len(SceneSets), NEW j
    PROVE  SceneSets[i] \subseteq Scene /\ Selected(j, SceneSets[i]) \subseteq Scene
<1>1. SceneSets \in Seq(SUBSET Scene)
  BY FanoutAssumption
<1>2. SceneSets[i] \in SUBSET Scene
  BY <1>1, ElementOfSeq
<1> QED
  BY <1>2 DEF Selected

(* A worker past its claim works for a job of the table, on one of its slots. *)
LEMMA RunsAreOwned ==
    ASSUME TypeOK, NEW w \in Worker, HasJob(w), run[w].at # "idle"
    PROVE  /\ run[w] \in Run /\ run[w].job \in Job
           /\ job[run[w].job].slot \in Slot
           /\ Written(w) \subseteq Slot
           /\ Calls(w) \subseteq Scene
  BY DEF TypeOK, HasJob, Written, Run, JobRow, Slot, Calls

LEMMA GoesTyped ==
    ASSUME TypeOK, NEW w \in Worker, NEW r \in Run, Goes(w, r)
    PROVE  run' \in [Worker -> Run]
  BY DEF TypeOK, Goes

LEMMA KeptTyped ==
    ASSUME TypeOK, Keeps, run' \in [Worker -> Run]
    PROVE  TypeOK'
  BY DEF TypeOK, Keeps, rows

(* A flush and a refreshed phase leave the work where it is. *)
SameWork(q, r) ==
    /\ q.job = r.job /\ q.seen = r.seen /\ q.todo = r.todo /\ q.scene = r.scene
    /\ q.wrote = r.wrote /\ q.day = r.day

LEMMA FlushedIs ==
    ASSUME NEW w, NEW r \in Run
    PROVE  /\ Flushed(w, r) \in Run /\ SameWork(Flushed(w, r), r)
           /\ Flushed(w, r).at \in {r.at, "flushing"}
<1>1. CASE r.project # "dirty"
  BY <1>1 DEF Flushed, SameWork
<1>2. CASE r.project = "dirty" /\ ProjectHeldByOther(w)
  <2>1. Flushed(w, r) = [r EXCEPT !.at = "flushing"]
    BY <1>2 DEF Flushed
  <2> QED
    BY <2>1 DEF Run, SameWork
<1>3. CASE r.project = "dirty" /\ ~ProjectHeldByOther(w)
  <2>1. Flushed(w, r) = [r EXCEPT !.project = "held"]
    BY <1>3 DEF Flushed
  <2> QED
    BY <2>1 DEF Run, SameWork
<1> QED
  BY <1>1, <1>2, <1>3

LEMMA RefreshedIs ==
    ASSUME NEW r \in Run, NEW moves
    PROVE  /\ Refreshed(r, moves) \in Run /\ SameWork(Refreshed(r, moves), r)
           /\ Refreshed(r, moves).at = r.at
<1>1. CASE r.project = "clean" /\ moves
  <2>1. Refreshed(r, moves) = [r EXCEPT !.project = "dirty"]
    BY <1>1 DEF Refreshed
  <2> QED
    BY <2>1 DEF Run, SameWork
<1>2. CASE ~(r.project = "clean" /\ moves)
  <2>1. Refreshed(r, moves) = [r EXCEPT !.project = r.project]
    BY <1>2 DEF Refreshed
  <2> QED
    BY <2>1 DEF Run, SameWork
<1> QED
  BY <1>1, <1>2

(* What the steps of the loop do to the worker.                            *)
Stays(w) == run'[w].job = run[w].job /\ run'[w].day = run[w].day

TakesUp(w, x) ==
    /\ run'[w] \in Run /\ Stays(w)
    /\ run'[w].wrote = run[w].wrote /\ run'[w].scene = x /\ run'[w].todo = run[w].todo \ {x}

LEMMA HasRowMoves ==
    ASSUME TypeOK, NEW w \in Worker, NEW x \in Scene, Goes(w, HasRow(w, x))
    PROVE  TakesUp(w, x) /\ run'[w].at \in {"flushing", "found"}
<1> DEFINE r == [run[w] EXCEPT !.at = "found", !.scene = x, !.todo = @ \ {x}]
<1>1. run[w] \in Run /\ run'[w] = HasRow(w, x)
  BY DEF Goes, TypeOK
<1>2. /\ r \in Run /\ r.at = "found" /\ r.scene = x /\ r.todo = run[w].todo \ {x}
      /\ r.wrote = run[w].wrote /\ r.job = run[w].job /\ r.day = run[w].day
  BY <1>1 DEF Run
<1>3. run'[w] = Flushed(w, r) \/ run'[w] = r
  BY <1>1 DEF HasRow
<1> HIDE DEF r
<1>4. CASE run'[w] = Flushed(w, r)
  BY <1>2, <1>4, FlushedIs DEF TakesUp, Stays, SameWork
<1>5. CASE run'[w] = r
  BY <1>2, <1>5 DEF TakesUp, Stays
<1> QED
  BY <1>3, <1>4, <1>5

LEMMA FindMoves ==
    ASSUME TypeOK, NEW w \in Worker, NEW x \in run[w].todo, Takes(w, x)
    PROVE  /\ x \in Scene /\ TakesUp(w, x)
           /\ run'[w].at \in {"inserting", "flushing", "found"}
           /\ state[x] = Absent /\ HeldByOther(w, x) => run'[w].at = "inserting"
<1>1. run[w] \in Run /\ x \in Scene
  BY DEF TypeOK, Run
<1>2. CASE state[x] = Absent /\ HeldByOther(w, x)
  <2>1. run'[w] = [run[w] EXCEPT !.at = "inserting", !.scene = x, !.todo = @ \ {x}]
    BY <1>2 DEF Takes, Goes, TypeOK
  <2> QED
    BY <1>1, <2>1 DEF Run, TakesUp, Stays
<1>3. CASE ~(state[x] = Absent /\ HeldByOther(w, x))
  <2>1. Goes(w, HasRow(w, x))
    BY <1>3 DEF Takes, Goes
  <2> QED
    BY <1>1, <1>3, <2>1, HasRowMoves
<1> QED
  BY <1>2, <1>3

LEMMA DrawMoves ==
    ASSUME TypeOK, NEW w \in Worker, run[w].scene \in Scene, Draw(w)
    PROVE  /\ run'[w] \in Run /\ Stays(w)
           /\ run'[w].wrote = run[w].wrote \cup {run[w].scene}
           /\ run'[w].scene = NoScene /\ run'[w].todo = run[w].todo
           /\ run'[w].at \in {"body", "flushing"}
<1> DEFINE r == [run[w] EXCEPT !.at = "body", !.scene = NoScene,
                               !.wrote = @ \cup {run[w].scene}]
<1>1. run[w] \in Run
  BY DEF TypeOK
<1>2. /\ r \in Run /\ r.at = "body" /\ r.scene = NoScene /\ r.todo = run[w].todo
      /\ r.wrote = run[w].wrote \cup {run[w].scene}
      /\ r.job = run[w].job /\ r.day = run[w].day
  BY <1>1 DEF Run
<1>3. PICK moves \in BOOLEAN : \/ run'[w] = Flushed(w, Refreshed(r, moves))
                               \/ run'[w] = Refreshed(Flushed(w, r), moves)
  BY DEF Draw, Goes, TypeOK
<1> HIDE DEF r
<1>4. CASE run'[w] = Flushed(w, Refreshed(r, moves))
  <2>1. /\ Refreshed(r, moves) \in Run /\ SameWork(Refreshed(r, moves), r)
        /\ Refreshed(r, moves).at = "body"
    BY <1>2, RefreshedIs
  <2>2. /\ run'[w] \in Run /\ SameWork(run'[w], Refreshed(r, moves))
        /\ run'[w].at \in {"body", "flushing"}
    BY <1>4, <2>1, FlushedIs
  <2> QED
    BY <1>2, <2>1, <2>2 DEF SameWork, Stays
<1>5. CASE run'[w] = Refreshed(Flushed(w, r), moves)
  <2>1. /\ Flushed(w, r) \in Run /\ SameWork(Flushed(w, r), r)
        /\ Flushed(w, r).at \in {"body", "flushing"}
    BY <1>2, FlushedIs
  <2>2. /\ run'[w] \in Run /\ SameWork(run'[w], Flushed(w, r))
        /\ run'[w].at = Flushed(w, r).at
    BY <1>5, <2>1, RefreshedIs
  <2> QED
    BY <1>2, <2>1, <2>2 DEF SameWork, Stays
<1> QED
  BY <1>3, <1>4, <1>5

LEMMA FlushMoves ==
    ASSUME TypeOK, NEW w \in Worker, Flush(w)
    PROVE  /\ run'[w] \in Run /\ Stays(w)
           /\ run'[w].wrote = run[w].wrote /\ run'[w].todo = run[w].todo
           /\ run'[w].scene = run[w].scene
           /\ run'[w].at = IF run[w].scene = NoScene THEN "body" ELSE "found"
<1>1. run[w] \in Run
  BY DEF TypeOK
<1>2. run'[w] = [run[w] EXCEPT !.at = IF run[w].scene = NoScene THEN "body" ELSE "found",
                               !.project = "held"]
  BY DEF Flush, Goes, TypeOK
<1>3. CASE run[w].scene = NoScene
  BY <1>1, <1>2, <1>3 DEF Run, Stays
<1>4. CASE run[w].scene # NoScene
  BY <1>1, <1>2, <1>4 DEF Run, Stays
<1> QED
  BY <1>3, <1>4

LEMMA CloseMoves ==
    ASSUME TypeOK, NEW w \in Worker, Close(w)
    PROVE  /\ run'[w] \in Run /\ Stays(w)
           /\ run'[w].wrote = run[w].wrote /\ run'[w].todo = run[w].todo
           /\ run'[w].scene = run[w].scene /\ run'[w].at = "closing"
<1> DEFINE r == [run[w] EXCEPT !.at = "closing"]
<1>1. run[w] \in Run
  BY DEF TypeOK
<1>2. /\ r \in Run /\ r.at = "closing" /\ r.scene = run[w].scene /\ r.todo = run[w].todo
      /\ r.wrote = run[w].wrote /\ r.job = run[w].job /\ r.day = run[w].day
  BY <1>1 DEF Run
<1>3. PICK moves \in BOOLEAN :
          run'[w] = Refreshed(r, moves \/ Points(job[run[w].job].slot))
  BY DEF Close, Goes, TypeOK
<1> HIDE DEF r
<1> QED
  BY <1>2, <1>3, RefreshedIs DEF SameWork, Stays

LEMMA RaisesTyped ==
    ASSUME TypeOK, NEW w \in Worker, HasJob(w), run[w].at # "idle", Raises(w)
    PROVE  run' \in [Worker -> Run]
  BY RunsAreOwned, RaisedTyped, GoesTyped DEF Raises

LEMMA TypeInit == Init => TypeOK
<1> SUFFICES ASSUME Init PROVE TypeOK
  OBVIOUS
<1>1. 1 \in 1 .. Len(SceneSets) /\ 0 \in 0 .. MaxDay
  BY FanoutAssumption, EmptySeq, LenProperties
<1> QED
  BY <1>1, IdleTyped DEF Init, TypeOK, JobRow, Slot

LEMMA ApiTyped == ASSUME TypeOK, ApiNext \/ DayPasses PROVE TypeOK'
<1> USE DEF rows
<1>1. ASSUME NEW j \in Job, NEW x \in Slot, NEW op \in {"start", "regenerate"},
             NEW n \in {0, 1}, RequestCreates(j, x, op, n)
      PROVE  TypeOK'
  <2>1. Target(RequestEvent[op]) \in ArtifactState
    BY RequestTarget DEF ArtifactState
  <2>2. [status |-> "QUEUED", slot |-> x, max_scenes |-> n,
         from_version_no |-> current_version_no[x]] \in JobRow
    BY DEF TypeOK, JobRow, JobStatus
  <2> QED
    BY <1>1, <2>1, <2>2 DEF RequestCreates, TypeOK
<1>2. ASSUME NEW x \in Slot, Release(x) PROVE TypeOK'
  <2>1. \A j \in Job : [job[j] EXCEPT !.status = JobTarget("CANCELLED")] \in JobRow
    BY JobMoves DEF TypeOK, JobRow, JobStatus
  <2>2. Target("ORPHANED") \in ArtifactState
    BY ArtifactTargets DEF ArtifactState
  <2> QED
    BY <1>2, <2>1, <2>2 DEF Release, TypeOK
<1>3. ASSUME NEW x \in Slot, Reject(x) PROVE TypeOK'
  <2>1. Target("REJECTED") \in ArtifactState
    BY ArtifactTargets DEF ArtifactState
  <2> QED
    BY <1>3, <2>1 DEF Reject, TypeOK
<1>4. ASSUME ApproveRemaining PROVE TypeOK'
  <2>1. Target("APPROVED") \in ArtifactState
    BY ArtifactTargets DEF ArtifactState
  <2> QED
    BY <1>4, <2>1 DEF ApproveRemaining, TypeOK
<1>5. ASSUME ApproveSceneSet PROVE TypeOK'
  BY <1>5, FanoutAssumption DEF ApproveSceneSet, TypeOK
<1>6. ASSUME DayPasses PROVE TypeOK'
  BY <1>6, FanoutAssumption DEF DayPasses, TypeOK
<1> QED
  BY <1>1, <1>2, <1>3, <1>4, <1>5, <1>6 DEF ApiNext

(* Whoever waits is in its body. *)
LEMMA AbortedInBody ==
    ASSUME TypeOK, NEW w \in Worker, DeadlockAborts(w)
    PROVE  run[w].at # "idle"
<1>1. PICK ring \in SUBSET Worker : w \in ring /\ Ring(ring)
  BY DEF DeadlockAborts
<1>2. PICK u \in ring : WaitsFor(w, u)
  BY <1>1 DEF Ring
<1>3. CASE WaitsForArtifact(w, u)
  BY <1>3 DEF WaitsForArtifact, Wants, AtEnd
<1>4. CASE WaitsForProject(w, u)
  BY <1>4 DEF WaitsForProject
<1> QED
  BY <1>2, <1>3, <1>4 DEF WaitsFor

LEMMA WorkerTyped ==
    ASSUME TypeOK, LoopInv, NEW w \in Worker, WorkerNext(w)
    PROVE  TypeOK'
<1>1. ASSUME NEW j \in Job, Claim(w, j) PROVE TypeOK'
  <2>1. [job[j] EXCEPT !.status = JobTarget("CLAIMED")] \in JobRow
    BY JobMoves DEF TypeOK, JobRow, JobStatus
  <2>2. run' \in [Worker -> Run]
    BY <1>1, RaisedTyped, GoesTyped DEF Claim
  <2> QED
    BY <1>1, <2>1, <2>2 DEF Claim, TypeOK, rows
<1>2. ASSUME BodyBegin(w) PROVE TypeOK'
  <2>1. run[w].job \in Job /\ job[run[w].job].slot \in Slot
    BY <1>2, RunsAreOwned DEF BodyBegin, LoopInv, LoopOK
  <2>2. Selected(run[w].job, SceneSets[approved_set]) \subseteq Scene
    BY SetsAreScenes DEF TypeOK
  <2>3. state[job[run[w].job].slot] \in ArtifactState \cup {Absent} /\ day \in 0 .. MaxDay
    BY <2>1 DEF TypeOK
  <2>4. [Idle EXCEPT !.at = "body", !.job = run[w].job,
                     !.seen = state[job[run[w].job].slot], !.day = day,
                     !.todo = Selected(run[w].job, SceneSets[approved_set])] \in Run
    BY <2>1, <2>2, <2>3, IdleTyped DEF Idle, Run
  <2> QED
    BY <1>2, <2>4, GoesTyped, KeptTyped DEF BodyBegin
<1>3. ASSUME BodyRefuses(w) PROVE TypeOK'
  BY <1>3, RaisesTyped, KeptTyped DEF BodyRefuses, LoopInv, LoopOK
<1>4. ASSUME Find(w) PROVE TypeOK'
  <2>1. PICK x \in run[w].todo : Takes(w, x)
    BY <1>4 DEF Find
  <2>2. run'[w] \in Run
    BY <2>1, FindMoves DEF TakesUp
  <2>3. run' \in [Worker -> Run]
    BY <2>1, <2>2 DEF Takes, Goes, TypeOK
  <2> QED
    BY <1>4, <2>3, KeptTyped DEF Find
<1>5. ASSUME Insert(w) PROVE TypeOK'
  <2>1. run[w].scene \in Scene
    BY <1>5 DEF Insert, LoopInv, LoopOK, LoopIsInBody
  <2>2. CASE Goes(w, HasRow(w, run[w].scene))
    <3>1. run'[w] \in Run
      BY <2>1, <2>2, HasRowMoves DEF TakesUp
    <3>2. run' \in [Worker -> Run]
      BY <2>2, <3>1 DEF Goes, TypeOK
    <3> QED
      BY <1>5, <3>2, KeptTyped DEF Insert
  <2>3. CASE Raises(w)
    BY <1>5, <2>3, RaisesTyped, KeptTyped DEF Insert, LoopInv, LoopOK
  <2> QED
    BY <1>5, <2>2, <2>3 DEF Insert
<1>6. ASSUME Draw(w) \/ Flush(w) \/ Close(w) PROVE TypeOK'
  <2>1. run'[w] \in Run
    BY <1>6, DrawMoves, FlushMoves, CloseMoves DEF Draw, LoopInv, LoopOK, LoopIsInBody
  <2>2. run' = [run EXCEPT ![w] = run'[w]]
    BY <1>6 DEF Draw, Flush, Close, Goes, TypeOK
  <2>3. run' \in [Worker -> Run]
    BY <2>1, <2>2 DEF TypeOK
  <2> QED
    BY <1>6, <2>3, KeptTyped DEF Draw, Flush, Close
<1>7. ASSUME BudgetStops(w) PROVE TypeOK'
  <2>1. run' \in [Worker -> Run]
    BY <1>7, RaisesTyped DEF BudgetStops, LoopInv, LoopOK
  <2>2. run[w].day \in 0 .. MaxDay
    BY DEF TypeOK, Run
  <2> QED
    BY <1>7, <2>1, <2>2 DEF BudgetStops, TypeOK, rows
<1>8. ASSUME ProviderFails(w) PROVE TypeOK'
  BY <1>8, RaisesTyped, KeptTyped DEF ProviderFails, LoopInv, LoopOK
<1>9. ASSUME Commit(w) PROVE TypeOK'
  <2>1. /\ run[w] \in Run /\ run[w].job \in Job
        /\ Written(w) \subseteq Slot /\ Calls(w) \subseteq Scene
    BY <1>9, RunsAreOwned DEF Commit, Ended, AtEnd, LoopInv, LoopOK
  <2>2. state' \in [Slot -> ArtifactState \cup {Absent}]
    BY <1>9, FinishedTarget DEF Commit, TypeOK, ArtifactState
  <2>3. current_version_no' \in [Slot -> Nat]
    BY <1>9 DEF Commit, TypeOK
  <2>4. version' \subseteq Version
    <3>1. \A x \in Written(w) :
             [slot |-> x, version_no |-> current_version_no[x] + 1, job |-> run[w].job]
                \in Version
      BY <2>1 DEF TypeOK, Version
    <3> QED
      BY <1>9, <3>1 DEF Commit, TypeOK
  <2>5. usage' \subseteq UsageRow
    <3>1. \A x \in Calls(w) :
             [job |-> run[w].job, slot |-> x, day |-> run[w].day] \in UsageRow
      BY <2>1 DEF UsageRow, Run
    <3> QED
      BY <1>9, <3>1 DEF Commit, TypeOK
  <2>6. job' \in [Job -> JobRow]
    <3>1. [job[run[w].job] EXCEPT !.status = JobTarget("SUCCEEDED")] \in JobRow
      BY <2>1, JobMoves DEF TypeOK, JobRow, JobStatus
    <3> QED
      BY <1>9, <2>1, <3>1 DEF Commit, TypeOK
  <2>7. run' \in [Worker -> Run]
    BY <1>9, IdleTyped, GoesTyped DEF Commit
  <2> QED
    BY <1>9, <2>2, <2>3, <2>4, <2>5, <2>6, <2>7 DEF Commit, TypeOK
<1>10. ASSUME CompletionRefused(w) PROVE TypeOK'
  BY <1>10, RaisesTyped, KeptTyped DEF CompletionRefused, Ended, AtEnd, LoopInv, LoopOK
<1>11. ASSUME FailBegin(w) PROVE TypeOK'
  <2>1. run[w] \in Run /\ job[run[w].job].slot \in Slot
    BY <1>11, RunsAreOwned DEF FailBegin, LoopInv, LoopOK
  <2>2. state[job[run[w].job].slot] \in ArtifactState \cup {Absent}
    BY <2>1 DEF TypeOK
  <2>3. [run[w] EXCEPT !.at = "failing", !.seen = state[job[run[w].job].slot]] \in Run
    BY <2>1, <2>2 DEF Run
  <2> QED
    BY <1>11, <2>3, GoesTyped, KeptTyped DEF FailBegin
<1>12. ASSUME FailCommit(w) PROVE TypeOK'
  <2>1. run[w].job \in Job /\ job[run[w].job].slot \in Slot
    BY <1>12, RunsAreOwned DEF FailCommit, LoopInv, LoopOK
  <2>2. run' \in [Worker -> Run]
    BY <1>12, IdleTyped, GoesTyped DEF FailCommit
  <2>3. \A to \in JobStatus : [job[run[w].job] EXCEPT !.status = to] \in JobRow
    BY <2>1 DEF TypeOK, JobRow
  <2>4. job' \in [Job -> JobRow]
    <3>1. CASE MayApplyJob("FAILED", job[run[w].job].status)
      BY <1>12, <3>1, <2>1, <2>3, JobMoves DEF FailCommit, TypeOK, JobStatus
    <3>2. CASE ~MayApplyJob("FAILED", job[run[w].job].status)
      BY <1>12, <3>2, <2>1 DEF FailCommit, TypeOK, JobRow
    <3> QED
      BY <3>1, <3>2
  <2>5. Target("GENERATION_FAILED") \in ArtifactState
    BY ArtifactTargets DEF ArtifactState
  <2>6. state' \in [Slot -> ArtifactState \cup {Absent}]
    BY <1>12, <2>1, <2>5 DEF FailCommit, TypeOK
  <2> QED
    BY <1>12, <2>2, <2>4, <2>6 DEF FailCommit, TypeOK
<1>13. ASSUME Die(w) PROVE TypeOK'
  BY <1>13, IdleTyped, GoesTyped, KeptTyped DEF Die
<1>14. ASSUME DeadlockAborts(w) PROVE TypeOK'
  BY <1>14, AbortedInBody, RaisesTyped, KeptTyped DEF DeadlockAborts, LoopInv, LoopOK
<1> QED
  BY <1>1, <1>2, <1>3, <1>4, <1>5, <1>6, <1>7, <1>8, <1>9, <1>10, <1>11, <1>12, <1>13,
     <1>14
  DEF WorkerNext, BodyNext

-----------------------------------------------------------------------------
(* The loops.                                                              *)

(* No step forgets what a request asked for, or makes a claimed job        *)
(* claimable again.                                                        *)
JobsAreKept ==
    /\ setup' = setup
    /\ approved_set' \in Nat /\ approved_set' >= approved_set
    /\ \A j \in Job :
          job[j].status # Absent =>
              /\ job'[j].slot = job[j].slot /\ job'[j].max_scenes = job[j].max_scenes
              /\ job'[j].status # Absent
              /\ job[j].status # "QUEUED" => job'[j].status # "QUEUED"

LEMMA StepsKeepJobs ==
    ASSUME TypeOK, LoopInv, [Next]_vars
    PROVE  JobsAreKept
<1> USE DEF JobsAreKept, Absent
<1>0. approved_set \in Nat /\ job \in [Job -> JobRow]
  BY FanoutAssumption DEF TypeOK
<1>1. ASSUME Keeps PROVE JobsAreKept
  BY <1>0, <1>1 DEF Keeps
<1>2. ASSUME NEW j \in Job, NEW x \in Slot, NEW op \in {"start", "regenerate"},
             NEW n \in {0, 1}, RequestCreates(j, x, op, n)
      PROVE  JobsAreKept
  BY <1>0, <1>2 DEF RequestCreates
<1>3. ASSUME NEW x \in Slot, Release(x) PROVE JobsAreKept
  BY <1>0, <1>3, JobMoves DEF Release, JobRow
<1>4. ASSUME NEW x \in Slot, Reject(x) PROVE JobsAreKept
  BY <1>0, <1>4 DEF Reject
<1>5. ASSUME ApproveRemaining PROVE JobsAreKept
  BY <1>0, <1>5 DEF ApproveRemaining
<1>6. ASSUME ApproveSceneSet PROVE JobsAreKept
  BY <1>0, <1>6 DEF ApproveSceneSet
<1>7. ASSUME DayPasses PROVE JobsAreKept
  BY <1>0, <1>7 DEF DayPasses
<1>8. ASSUME NEW w \in Worker, WorkerNext(w) PROVE JobsAreKept
  <2>1. ASSUME NEW j \in Job, Claim(w, j) PROVE JobsAreKept
    BY <1>0, <2>1, JobMoves DEF Claim, JobRow
  <2>2. ASSUME BudgetStops(w) PROVE JobsAreKept
    BY <1>0, <2>2 DEF BudgetStops
  <2>3. ASSUME Commit(w) PROVE JobsAreKept
    BY <1>0, <2>3, JobMoves DEF Commit, JobRow
  <2>4. ASSUME FailCommit(w) PROVE JobsAreKept
    BY <1>0, <2>4, JobMoves DEF FailCommit, JobRow
  <2> QED
    BY <1>1, <1>8, <2>1, <2>2, <2>3, <2>4
    DEF WorkerNext, BodyNext, BodyBegin, BodyRefuses, Find, Insert, Draw, Flush, Close,
        ProviderFails, CompletionRefused, DeadlockAborts, FailBegin, Die
<1>9. ASSUME UNCHANGED vars PROVE JobsAreKept
  BY <1>0, <1>9 DEF vars
<1> QED
  BY <1>2, <1>3, <1>4, <1>5, <1>6, <1>7, <1>8, <1>9 DEF Next, ApiNext

LEMMA OrderKept ==
    ASSUME setup' = setup, NEW x, NEW y
    PROVE  (Free(x)' <=> Free(x)) /\ (Before(x, y)' <=> Before(x, y))
  BY DEF Free, Before

LEMMA SelectedKept ==
    ASSUME JobsAreKept, NEW j \in Job, job[j].status # Absent, NEW scenes
    PROVE  Selected(j, scenes)' = Selected(j, scenes)
  BY DEF JobsAreKept, Selected

LEMMA NamesKept ==
    ASSUME JobsAreKept, NEW j \in Job, job[j].status # Absent, NEW i, NamesSceneOf(j, i)
    PROVE  NamesSceneOf(j, i)'
  BY DEF JobsAreKept, NamesSceneOf

LEMMA NamesStep ==
    ASSUME TypeOK, LoopInv, JobsNameScenes, [Next]_vars
    PROVE  JobsNameScenes'
<1>0. JobsAreKept /\ approved_set \in Nat /\ job \in [Job -> JobRow]
  BY StepsKeepJobs, FanoutAssumption DEF TypeOK
<1>1. ASSUME NEW j \in Job, job[j].status # Absent PROVE NamesSceneOf(j, approved_set)'
  <2>1. NamesSceneOf(j, approved_set)
    BY <1>1 DEF JobsNameScenes
  <2>2. job'[j].slot = job[j].slot /\ approved_set' \in Nat /\ approved_set' >= approved_set
    BY <1>0, <1>1 DEF JobsAreKept
  <2>3. CASE job[j].slot = Trigger
    BY <2>2, <2>3 DEF NamesSceneOf
  <2>4. CASE job[j].slot # Trigger
    <3>1. PICK k \in 1 .. approved_set : job[j].slot \in SceneSets[k]
      BY <2>1, <2>4 DEF NamesSceneOf
    <3>2. k \in 1 .. approved_set'
      BY <1>0, <2>2
    <3> QED
      BY <2>2, <3>1, <3>2 DEF NamesSceneOf
  <2> QED
    BY <2>3, <2>4
<1>2. ASSUME NEW j \in Job, job[j].status = Absent, job'[j].status # Absent
      PROVE  NamesSceneOf(j, approved_set)'
  <2>1. PICK k \in Job, x \in Slot, op \in {"start", "regenerate"}, n \in {0, 1} :
            RequestCreates(k, x, op, n)
    <3>1. job'[j].status # job[j].status
      BY <1>2
    <3>2. ASSUME NEW x \in Slot PROVE ~Release(x)
      <4>1. ASSUME Release(x) PROVE job'[j] = job[j]
        BY <1>0, <1>2, <4>1, JobMoves DEF Release, Absent
      <4> QED
        BY <3>1, <4>1
    <3>3. ASSUME NEW w \in Worker PROVE ~WorkerNext(w)
      <4>1. ASSUME NEW k \in Job, Claim(w, k) PROVE job'[j] = job[j]
        BY <1>0, <1>2, <4>1, JobMoves DEF Claim, Absent
      <4>2. ASSUME Commit(w) PROVE job'[j] = job[j]
        BY <1>0, <1>2, <4>2, JobMoves DEF Commit, Absent
      <4>3. ASSUME FailCommit(w) PROVE job'[j] = job[j]
        <5>1. CASE run[w].job = j
          BY <1>0, <1>2, <4>3, <5>1, JobMoves DEF FailCommit, Absent, JobRow
        <5>2. CASE run[w].job # j
          BY <1>0, <4>3, <5>2 DEF FailCommit
        <5> QED
          BY <5>1, <5>2
      <4>4. ASSUME job' = job PROVE job'[j] = job[j]
        BY <4>4
      <4>5. ASSUME WorkerNext(w) PROVE job'[j] = job[j]
        BY <4>1, <4>2, <4>3, <4>4, <4>5
        DEF WorkerNext, BodyNext, BodyBegin, BodyRefuses, Find, Insert, Draw, Flush, Close,
            BudgetStops, ProviderFails, CompletionRefused, DeadlockAborts, FailBegin, Die,
            Keeps
      <4> QED
        BY <3>1, <4>5
    <3> QED
      BY <3>1, <3>2, <3>3
      DEF Next, ApiNext, Reject, ApproveRemaining, ApproveSceneSet, DayPasses, vars
  <2>2. k = j /\ job'[j].slot = x /\ approved_set' = approved_set
    BY <1>0, <1>2, <2>1 DEF RequestCreates
  <2> QED
    BY <2>1, <2>2 DEF RequestCreates, NamesSceneOf
<1> QED
  BY <1>1, <1>2 DEF JobsNameScenes

(* A worker that does not move keeps its place. *)
LEMMA RestingLoop ==
    ASSUME TypeOK, LoopInv, JobsAreKept, NEW w \in Worker, run'[w] = run[w]
    PROVE  LoopOK(w)'
<1>0. approved_set \in Nat
  BY FanoutAssumption DEF TypeOK
<1>1. HasJob(w) /\ LoopIsInBody(w) /\ LoopIsForASet(w) /\ LoopIsInOrder(w)
  BY DEF LoopInv, LoopOK
<1>2. HasJob(w)' /\ LoopIsInBody(w)'
  BY <1>1 DEF HasJob, LoopIsInBody, InLoop, Closes, JobsAreKept, TypeOK, Absent
<1>3. LoopIsInOrder(w)'
  BY <1>1, OrderKept DEF LoopIsInOrder, Ahead, JobsAreKept
<1>4. ASSUME InLoop(w)' PROVE LoopIsForASet(w)'
  <2>1. InLoop(w)
    BY <1>4 DEF InLoop
  <2>2. PICK i \in 1 .. approved_set :
            /\ run[w].wrote \cup Ahead(w) = Selected(run[w].job, SceneSets[i])
            /\ NamesSceneOf(run[w].job, i)
    BY <1>1, <2>1 DEF LoopOK, LoopIsForASet
  <2>3. i \in 1 .. approved_set'
    BY <1>0 DEF JobsAreKept
  <2>4. PICK j \in Job : run[w].job = j /\ job[j].status # Absent
    BY <1>1, <2>1 DEF HasJob, InLoop
  <2>5. Selected(j, SceneSets[i])' = Selected(j, SceneSets[i])
    BY <2>4, SelectedKept
  <2>6. run'[w].wrote \cup Ahead(w)' = Selected(j, SceneSets[i])'
    BY <2>2, <2>4, <2>5 DEF Ahead
  <2>7. run'[w].job = j
    BY <2>4
  <2>8. NamesSceneOf(j, i)'
    BY <2>2, <2>4, NamesKept
  <2> QED
    BY <2>3, <2>6, <2>7, <2>8 DEF LoopIsForASet, Selected, NamesSceneOf
<1> QED
  BY <1>2, <1>3, <1>4 DEF LoopOK, LoopIsForASet

(* A worker outside the loop has nothing to keep but its job. *)
LEMMA OutsideLoop ==
    ASSUME JobsAreKept, NEW w \in Worker, ~InLoop(w)',
           run'[w].todo = {}, run'[w].wrote = {}, run'[w].scene = NoScene, HasJob(w)'
    PROVE  LoopOK(w)'
  BY DEF LoopOK, LoopIsInBody, LoopIsForASet, LoopIsInOrder, Ahead, InLoop


(* A step of the loop goes on with the same scenes. *)
LEMMA InsideLoop ==
    ASSUME TypeOK, LoopInv, JobsAreKept, NEW w \in Worker, InLoop(w),
           run'[w].job = run[w].job,
           run'[w].wrote \cup Ahead(w)' = run[w].wrote \cup Ahead(w)
    PROVE  LoopIsForASet(w)'
<1>0. approved_set \in Nat
  BY FanoutAssumption DEF TypeOK
<1>1. HasJob(w) /\ LoopIsForASet(w)
  BY DEF LoopInv, LoopOK
<1>2. PICK i \in 1 .. approved_set :
          /\ run[w].wrote \cup Ahead(w) = Selected(run[w].job, SceneSets[i])
          /\ NamesSceneOf(run[w].job, i)
  BY <1>1 DEF LoopIsForASet
<1>3. i \in 1 .. approved_set'
  BY <1>0 DEF JobsAreKept
<1>4. PICK j \in Job : run[w].job = j /\ job[j].status # Absent
  BY <1>1 DEF HasJob, InLoop
<1>5. Selected(j, SceneSets[i])' = Selected(j, SceneSets[i])
  BY <1>4, SelectedKept
<1>6. run'[w].wrote \cup Ahead(w)' = Selected(j, SceneSets[i])'
  BY <1>2, <1>4, <1>5
<1>7. run'[w].job = j
  BY <1>4
<1>8. NamesSceneOf(j, i)'
  BY <1>2, <1>4, NamesKept
<1> QED
  BY <1>3, <1>6, <1>7, <1>8 DEF LoopIsForASet, Selected, NamesSceneOf

(* The moves of a worker, one by one. *)
LEMMA LoopStep ==
    ASSUME TypeOK, LoopInv, JobsNameScenes, JobsAreKept, NEW w \in Worker, WorkerNext(w)
    PROVE  LoopOK(w)'
<1>0. /\ run \in [Worker -> Run] /\ run[w] \in Run /\ approved_set \in 1 .. Len(SceneSets)
      /\ HasJob(w) /\ LoopIsInBody(w) /\ LoopIsForASet(w) /\ LoopIsInOrder(w)
  BY DEF LoopInv, LoopOK, TypeOK
<1>1. ASSUME Goes(w, Idle) PROVE LoopOK(w)'
  <2>1. run'[w] = Idle
    BY <1>0, <1>1 DEF Goes
  <2> QED
    BY <2>1, OutsideLoop DEF Idle, InLoop, HasJob
<1>2. ASSUME Raises(w), run[w].at # "idle" PROVE LoopOK(w)'
  <2>1. run'[w] = [Idle EXCEPT !.at = "raised", !.job = run[w].job]
    BY <1>0, <1>2 DEF Goes, Raises
  <2>2. HasJob(w)'
    BY <1>0, <1>2, <2>1 DEF Idle, HasJob, JobsAreKept, Absent
  <2> QED
    BY <2>1, <2>2, OutsideLoop DEF Idle, InLoop
<1>3. ASSUME NEW j \in Job, Claim(w, j) PROVE LoopOK(w)'
  <2>1. run'[w] = [Idle EXCEPT !.at = "claimed", !.job = j]
    BY <1>0, <1>3 DEF Goes, Claim
  <2>2. job'[j].status = "RUNNING"
    BY <1>3, JobMoves DEF Claim, TypeOK, JobRow
  <2>3. HasJob(w)'
    BY <2>1, <2>2 DEF Idle, HasJob, Absent
  <2> QED
    BY <2>1, <2>3, OutsideLoop DEF Idle, InLoop
<1>4. ASSUME BodyBegin(w) PROVE LoopOK(w)'
  <2> DEFINE j == run[w].job
  <2>1. /\ run'[w].at = "body" /\ run'[w].job = j /\ run'[w].wrote = {}
        /\ run'[w].scene = NoScene
        /\ run'[w].todo = Selected(j, SceneSets[approved_set])
    BY <1>0, <1>4 DEF Goes, BodyBegin, Idle
  <2>2. j \in Job /\ job[j].status # Absent /\ job' = job /\ approved_set' = approved_set
    BY <1>0, <1>4 DEF HasJob, BodyBegin, Keeps
  <2>3. Selected(j, SceneSets[approved_set])' = Selected(j, SceneSets[approved_set])
    BY <1>4 DEF Selected, BodyBegin, Keeps, Goes
  <2>4. NoScene \notin Scene /\ Selected(j, SceneSets[approved_set]) \subseteq Scene
    BY <1>0, FanoutAssumption, SetsAreScenes
  <2>5. HasJob(w)'
    BY <1>0, <1>4, <2>1, <2>2 DEF HasJob, BodyBegin
  <2>6. LoopIsInBody(w)'
    BY <2>1 DEF LoopIsInBody, InLoop
  <2>7. LoopIsForASet(w)'
    <3>1. approved_set' \in 1 .. approved_set'
      BY <1>0, <2>2, FanoutAssumption
    <3>2. NamesSceneOf(j, approved_set)'
      <4>1. NamesSceneOf(j, approved_set) /\ j \in Job
        BY <2>2 DEF JobsNameScenes
      <4>2. job' = job /\ approved_set' = approved_set
        BY <2>2
      <4> HIDE DEF j
      <4>3. NamesSceneOf(run[w].job, approved_set)
        BY <4>1 DEF j
      <4>4. run'[w].job = run[w].job
        BY <2>1 DEF j
      <4> QED
        BY <4>2, <4>3, <4>4 DEF NamesSceneOf, j
    <3> QED
      BY <2>1, <2>2, <2>3, <3>1, <3>2 DEF LoopIsForASet, Ahead, NamesSceneOf
  <2>8. LoopIsInOrder(w)'
    BY <2>1, <2>4 DEF LoopIsInOrder, Ahead
  <2> QED
    BY <2>5, <2>6, <2>7, <2>8 DEF LoopOK
<1>5. ASSUME Find(w) PROVE LoopOK(w)'
  <2>1. PICK x \in run[w].todo : IsNext(x, run[w].todo) /\ Takes(w, x)
    BY <1>5 DEF Find
  <2>2. /\ run[w].at = "body" /\ run[w].scene = NoScene /\ setup' = setup
        /\ run'[w].at \in {"inserting", "flushing", "found"} /\ run'[w].job = run[w].job
        /\ run'[w].wrote = run[w].wrote /\ run'[w].scene = x
        /\ run'[w].todo = run[w].todo \ {x}
    BY <1>0, <1>5, <2>1, FindMoves DEF Find, Keeps, LoopIsInBody, TakesUp, Stays
  <2>3. x \in Scene /\ x # NoScene
    BY <1>0, FanoutAssumption DEF Run
  <2>4. Ahead(w) = run[w].todo /\ Ahead(w)' = run[w].todo
    BY <2>2, <2>3 DEF Ahead
  <2>5. HasJob(w)'
    BY <1>0, <2>2 DEF HasJob, JobsAreKept, Absent
  <2>6. LoopIsInBody(w)'
    BY <2>2, <2>3 DEF LoopIsInBody, InLoop
  <2>7. LoopIsForASet(w)'
    BY <2>2, <2>4, InsideLoop DEF InLoop
  <2>8. LoopIsInOrder(w)'
    BY <1>0, <2>1, <2>2, <2>4, OrderKept DEF LoopIsInOrder, IsNext
  <2> QED
    BY <2>5, <2>6, <2>7, <2>8 DEF LoopOK
<1>6. ASSUME Insert(w), Goes(w, HasRow(w, run[w].scene)) PROVE LoopOK(w)'
  <2>1. run[w].at = "inserting" /\ setup' = setup /\ run[w].scene \in Scene
    BY <1>0, <1>6 DEF Insert, Keeps, LoopIsInBody
  <2>2. /\ run'[w].at \in {"flushing", "found"} /\ run'[w].job = run[w].job
        /\ run'[w].wrote = run[w].wrote /\ run'[w].scene = run[w].scene
        /\ run'[w].todo = run[w].todo \ {run[w].scene}
    BY <1>6, <2>1, HasRowMoves DEF TakesUp, Stays
  <2>3. run[w].scene # NoScene
    BY <2>1, FanoutAssumption
  <2>4. Ahead(w)' = Ahead(w)
    BY <2>2, <2>3 DEF Ahead
  <2>5. HasJob(w)'
    BY <1>0, <2>1, <2>2 DEF HasJob, JobsAreKept, Absent
  <2>6. LoopIsInBody(w)'
    BY <2>1, <2>2 DEF LoopIsInBody, InLoop
  <2>7. LoopIsForASet(w)'
    BY <2>1, <2>2, <2>4, InsideLoop DEF InLoop
  <2>8. LoopIsInOrder(w)'
    BY <1>0, <2>1, <2>2, <2>4, OrderKept DEF LoopIsInOrder
  <2> QED
    BY <2>5, <2>6, <2>7, <2>8 DEF LoopOK
<1>7. ASSUME Draw(w) PROVE LoopOK(w)'
  <2>1. run[w].at = "found" /\ setup' = setup /\ run[w].scene \in Scene
    BY <1>0, <1>7 DEF Draw, Keeps, LoopIsInBody
  <2>2. /\ run'[w].at \in {"body", "flushing"} /\ run'[w].job = run[w].job
        /\ run'[w].wrote = run[w].wrote \cup {run[w].scene}
        /\ run'[w].scene = NoScene /\ run'[w].todo = run[w].todo
    BY <1>7, <2>1, DrawMoves DEF Stays
  <2>3. run[w].scene # NoScene
    BY <2>1, FanoutAssumption
  <2>4. Ahead(w)' = run[w].todo /\ Ahead(w) = run[w].todo \cup {run[w].scene}
    BY <2>2, <2>3 DEF Ahead
  <2>5. HasJob(w)'
    BY <1>0, <2>1, <2>2 DEF HasJob, JobsAreKept, Absent
  <2>6. LoopIsInBody(w)'
    BY <2>2 DEF LoopIsInBody, InLoop
  <2>7. LoopIsForASet(w)'
    BY <2>1, <2>2, <2>4, InsideLoop DEF InLoop
  <2>8. LoopIsInOrder(w)'
    BY <1>0, <2>1, <2>2, <2>3, <2>4, OrderKept DEF LoopIsInOrder
  <2> QED
    BY <2>5, <2>6, <2>7, <2>8 DEF LoopOK
<1>9. ASSUME Flush(w) \/ Close(w) PROVE LoopOK(w)'
  <2>1. /\ InLoop(w) /\ InLoop(w)' /\ setup' = setup /\ run'[w].job = run[w].job
        /\ run'[w].wrote = run[w].wrote /\ run'[w].todo = run[w].todo
        /\ run'[w].scene = run[w].scene
    BY <1>9, FlushMoves, CloseMoves DEF Flush, Close, AtEnd, InLoop, Keeps, Stays
  <2>2. Ahead(w)' = Ahead(w)
    BY <2>1 DEF Ahead
  <2>3. HasJob(w)'
    BY <1>0, <2>1 DEF HasJob, InLoop, JobsAreKept, Absent
  <2>4. LoopIsInBody(w)'
    <3>1. CASE Flush(w)
      <4>1. run'[w].at = IF run[w].scene = NoScene THEN "body" ELSE "found"
        BY <3>1, FlushMoves
      <4>2. run[w].scene \in Scene \cup {NoScene}
        BY <1>0 DEF Run
      <4> QED
        BY <2>1, <4>1, <4>2 DEF LoopIsInBody, InLoop
    <3>2. CASE Close(w)
      <4>1. run'[w].at = "closing" /\ AtEnd(w) /\ Closes(run[w].job) /\ Keeps
        BY <3>2, CloseMoves DEF Close
      <4>2. Closes(run[w].job)'
        BY <4>1, <2>1 DEF Closes, Keeps
      <4>3. run[w].scene = NoScene
        BY <1>0, <4>1 DEF AtEnd, LoopIsInBody
      <4> QED
        BY <2>1, <4>1, <4>2, <4>3 DEF LoopIsInBody, InLoop, AtEnd, Closes
    <3> QED
      BY <1>9, <3>1, <3>2
  <2>5. LoopIsForASet(w)'
    BY <2>1, <2>2, InsideLoop
  <2>6. LoopIsInOrder(w)'
    BY <1>0, <2>1, <2>2, OrderKept DEF LoopIsInOrder
  <2> QED
    BY <2>3, <2>4, <2>5, <2>6 DEF LoopOK
<1>8. ASSUME FailBegin(w) PROVE LoopOK(w)'
  <2>1. /\ run[w].at = "raised" /\ run'[w].at = "failing" /\ run'[w].job = run[w].job
        /\ run'[w].todo = {} /\ run'[w].wrote = {} /\ run'[w].scene = NoScene
    BY <1>0, <1>8 DEF FailBegin, Goes, Run, LoopIsInBody, InLoop
  <2>2. HasJob(w)'
    BY <1>0, <2>1 DEF HasJob, JobsAreKept, Absent
  <2> QED
    BY <2>1, <2>2, OutsideLoop DEF InLoop
<1> QED
  BY <1>1, <1>2, <1>3, <1>4, <1>5, <1>6, <1>7, <1>8, <1>9, AbortedInBody
  DEF WorkerNext, BodyNext, BodyRefuses, Insert, BudgetStops, ProviderFails, Commit,
      CompletionRefused, DeadlockAborts, Ended, AtEnd, FailCommit, Die

(* Who moves in a step: nobody, or one worker. *)
LEMMA WorkerMovesAlone ==
    ASSUME TypeOK, NEW w \in Worker, WorkerNext(w)
    PROVE  \A u \in Worker \ {w} : run'[u] = run[u]
  BY DEF WorkerNext, BodyNext, Claim, BodyBegin, BodyRefuses, Find, Takes, Insert, Draw,
         Flush, Close, BudgetStops, ProviderFails, Commit, CompletionRefused,
         DeadlockAborts, FailBegin, FailCommit, Die, Raises, Goes, TypeOK

LEMMA OneMoves ==
    ASSUME TypeOK, [Next]_vars
    PROVE  \/ run' = run
           \/ \E w \in Worker : WorkerNext(w) /\ \A u \in Worker \ {w} : run'[u] = run[u]
  BY WorkerMovesAlone
  DEF Next, ApiNext, RequestCreates, Release, Reject, ApproveRemaining, ApproveSceneSet,
      DayPasses, vars

LEMMA LoopInvStep ==
    ASSUME TypeOK, LoopInv, JobsNameScenes, [Next]_vars
    PROVE  LoopInv'
<1>1. JobsAreKept
  BY StepsKeepJobs
<1>2. ASSUME run' = run PROVE LoopInv'
  BY <1>1, <1>2, RestingLoop DEF LoopInv
<1>3. ASSUME NEW w \in Worker, WorkerNext(w), \A u \in Worker \ {w} : run'[u] = run[u]
      PROVE  LoopInv'
  <2>1. LoopOK(w)'
    BY <1>1, <1>3, LoopStep
  <2>2. \A u \in Worker \ {w} : LoopOK(u)'
    BY <1>1, <1>3, RestingLoop
  <2> QED
    BY <2>1, <2>2 DEF LoopInv
<1> QED
  BY <1>2, <1>3, OneMoves

-----------------------------------------------------------------------------
(* The row locks.                                                          *)

(* No transaction takes a row away, and one that is being inserted appears *)
(* by nobody else's hand.                                                  *)
LEMMA RowsStay ==
    ASSUME TypeOK, [Next]_vars, NEW x \in Slot, state'[x] = Absent
    PROVE  state[x] = Absent
<1>0. state \in [Slot -> ArtifactState \cup {Absent}] /\ Absent \notin ArtifactState
  BY DEF TypeOK, Absent, ArtifactState
<1>1. ASSUME UNCHANGED state PROVE state[x] = Absent
  BY <1>1
<1>2. ASSUME NEW j \in Job, NEW y \in Slot, NEW op \in {"start", "regenerate"},
             NEW n \in {0, 1}, RequestCreates(j, y, op, n)
      PROVE  state[x] = Absent
  BY <1>0, <1>2, RequestTarget DEF RequestCreates, Absent
<1>3. ASSUME NEW y \in Slot, Release(y) \/ Reject(y) PROVE state[x] = Absent
  BY <1>0, <1>3, ArtifactTargets DEF Release, Reject, Absent
<1>4. ASSUME ApproveRemaining PROVE state[x] = Absent
  BY <1>0, <1>4, ArtifactTargets DEF ApproveRemaining, Absent
<1>5. ASSUME NEW w \in Worker, Commit(w) PROVE state[x] = Absent
  BY <1>0, <1>5, FinishedTarget DEF Commit, Absent
<1>6. ASSUME NEW w \in Worker, FailCommit(w) PROVE state[x] = Absent
  BY <1>0, <1>6, ArtifactTargets DEF FailCommit, Absent
<1> QED
  BY <1>1, <1>2, <1>3, <1>4, <1>5, <1>6
  DEF Next, ApiNext, WorkerNext, BodyNext, ApproveSceneSet, DayPasses, Claim, BodyBegin,
      BodyRefuses, Find, Insert, Draw, Flush, Close, BudgetStops, ProviderFails,
      CompletionRefused, DeadlockAborts, FailBegin, Die, Keeps, rows, vars

LEMMA RestingLocks ==
    ASSUME TypeOK, LoopInv, [Next]_vars, NEW w \in Worker, run'[w] = run[w]
    PROVE  Holds(w)' \subseteq Holds(w)
<1>0. run[w] \in Run /\ HasJob(w) /\ JobsAreKept
  BY StepsKeepJobs DEF TypeOK, LoopInv, LoopOK
<1>1. ASSUME NEW x \in Slot, state'[x] = Absent PROVE state[x] = Absent
  BY <1>1, RowsStay
<1>2. run[w].scene \in Slot \cup {NoScene}
  BY <1>0 DEF Run, Slot
<1>3. run[w].at = "closing" => job'[run[w].job].slot = job[run[w].job].slot
  BY <1>0 DEF HasJob, JobsAreKept
<1> QED
  BY <1>1, <1>2, <1>3 DEF Holds

(* What a worker locks it had locked, or nobody else holds. *)
LEMMA NewLocks ==
    ASSUME TypeOK, LoopInv, [Next]_vars, NEW w \in Worker, WorkerNext(w), NEW x \in Holds(w)'
    PROVE  x \in Holds(w) \/ ~HeldByOther(w, x)
<1>0. run \in [Worker -> Run] /\ LoopIsInBody(w)
  BY DEF TypeOK, LoopInv, LoopOK
<1>1. ASSUME run'[w].wrote = {}, run'[w].at \notin {"found", "flushing", "closing"} PROVE FALSE
  BY <1>1 DEF Holds
<1>2. ASSUME Find(w) PROVE x \in Holds(w) \/ ~HeldByOther(w, x)
  <2>1. PICK y \in run[w].todo : Takes(w, y)
    BY <1>2 DEF Find
  <2>2. /\ run'[w].wrote = run[w].wrote /\ run'[w].scene = y
        /\ run'[w].at \in {"inserting", "flushing", "found"}
        /\ state[y] = Absent /\ HeldByOther(w, y) => run'[w].at = "inserting"
    BY <2>1, FindMoves DEF TakesUp
  <2>3. state' = state
    BY <1>2 DEF Find, Keeps, rows
  <2>4. CASE x \in run[w].wrote
    BY <2>4 DEF Holds
  <2>5. CASE x \notin run[w].wrote
    <3>1. x = y /\ run'[w].at # "inserting" /\ state[y] = Absent
      BY <2>2, <2>3, <2>5 DEF Holds
    <3> QED
      BY <2>2, <3>1
  <2> QED
    BY <2>4, <2>5
<1>3. ASSUME Insert(w), Goes(w, HasRow(w, run[w].scene))
      PROVE  x \in Holds(w) \/ ~HeldByOther(w, x)
  <2>1. run[w].scene \in Scene /\ ~HeldByOther(w, run[w].scene)
    BY <1>0, <1>3 DEF Insert, LoopIsInBody
  <2>2. /\ run'[w].wrote = run[w].wrote /\ run'[w].scene = run[w].scene
        /\ run'[w].at \in {"flushing", "found"}
    BY <1>3, <2>1, HasRowMoves DEF TakesUp
  <2> QED
    BY <2>1, <2>2 DEF Holds
<1>4. ASSUME Draw(w) PROVE x \in Holds(w) \/ ~HeldByOther(w, x)
  <2>1. run[w].scene \in Scene
    BY <1>0, <1>4 DEF Draw, LoopIsInBody
  <2>2. /\ run'[w].wrote = run[w].wrote \cup {run[w].scene} /\ run'[w].scene = NoScene
        /\ run'[w].at \in {"body", "flushing"}
    BY <1>4, <2>1, DrawMoves
  <2> QED
    BY <1>4, <2>2 DEF Holds, Draw
<1>5. ASSUME Flush(w) PROVE x \in Holds(w) \/ ~HeldByOther(w, x)
  <2>1. /\ run'[w].wrote = run[w].wrote /\ run'[w].scene = run[w].scene
        /\ run[w].at = "flushing" /\ run'[w].at # "closing" /\ state' = state
    BY <1>5, FlushMoves DEF Flush, Keeps, rows
  <2> QED
    BY <2>1 DEF Holds
<1>6. ASSUME Close(w) PROVE x \in Holds(w) \/ ~HeldByOther(w, x)
  <2>1. /\ run'[w].wrote = run[w].wrote /\ run'[w].at = "closing"
        /\ run'[w].job = run[w].job /\ job' = job
    BY <1>6, CloseMoves DEF Close, Keeps, Stays
  <2>2. ~HeldByOther(w, job[run[w].job].slot)
    BY <1>6 DEF Close
  <2> QED
    BY <2>1, <2>2 DEF Holds
<1>7. ASSUME Goes(w, Idle) \/ Raises(w) PROVE FALSE
  <2>1. CASE Goes(w, Idle)
    <3>1. run'[w] = Idle
      BY <1>0, <2>1 DEF Goes
    <3> QED
      BY <1>1, <3>1 DEF Idle
  <2>2. CASE Raises(w)
    <3>1. run'[w] = [Idle EXCEPT !.at = "raised", !.job = run[w].job]
      BY <1>0, <2>2 DEF Goes, Raises
    <3> QED
      BY <1>1, <3>1 DEF Idle
  <2> QED
    BY <1>7, <2>1, <2>2
<1>8. ASSUME BodyBegin(w) \/ \E j \in Job : Claim(w, j) PROVE FALSE
  <2>1. CASE BodyBegin(w)
    <3>1. run'[w].wrote = {} /\ run'[w].at = "body"
      BY <1>0, <2>1 DEF Goes, BodyBegin, Idle
    <3> QED
      BY <1>1, <3>1
  <2>2. ASSUME NEW j \in Job, Claim(w, j) PROVE FALSE
    <3>1. run'[w].wrote = {} /\ run'[w].at = "claimed"
      BY <1>0, <2>2 DEF Goes, Claim, Idle
    <3> QED
      BY <1>1, <3>1
  <2> QED
    BY <1>8, <2>1, <2>2
<1>9. ASSUME FailBegin(w) PROVE FALSE
  <2>1. run'[w].wrote = {} /\ run'[w].at = "failing"
    BY <1>0, <1>9 DEF Goes, FailBegin, Run, LoopIsInBody, InLoop
  <2> QED
    BY <1>1, <2>1
<1> QED
  BY <1>2, <1>3, <1>4, <1>5, <1>6, <1>7, <1>8, <1>9
  DEF WorkerNext, BodyNext, BodyRefuses, Insert, BudgetStops, ProviderFails, Commit,
      CompletionRefused, DeadlockAborts, FailCommit, Die

LEMMA LocksStep ==
    ASSUME TypeOK, LoopInv, LocksAreExclusive, [Next]_vars
    PROVE  LocksAreExclusive'
<1>1. ASSUME run' = run PROVE LocksAreExclusive'
  BY <1>1, RestingLocks DEF LocksAreExclusive
<1>2. ASSUME NEW w \in Worker, WorkerNext(w), \A u \in Worker \ {w} : run'[u] = run[u]
      PROVE  LocksAreExclusive'
  <2>1. \A u \in Worker \ {w} : Holds(u)' \subseteq Holds(u)
    BY <1>2, RestingLocks
  <2>2. \A u \in Worker \ {w} : Holds(w)' \cap Holds(u)' = {}
    BY <1>2, <2>1, NewLocks DEF LocksAreExclusive, HeldByOther
  <2> QED
    BY <2>1, <2>2 DEF LocksAreExclusive
<1> QED
  BY <1>1, <1>2, OneMoves

(* The order in which every run takes artifact rows: the scenes of its own *)
(* set; a scene of an earlier set, when that is the slot its manifest      *)
(* closes; the whole set's slot.                                           *)
Sooner(x, y) ==
    \/ x # Trigger /\ y = Trigger
    \/ /\ x # Trigger /\ y # Trigger
       /\ \E i, k \in 1 .. Len(SceneSets) :
             /\ x \in SceneSets[i] /\ y \in SceneSets[k]
             /\ k < i \/ (k = i /\ Before(x, y))

(* What a waiting run wants comes after all it holds. *)
LEMMA WaitsAscend ==
    ASSUME TypeOK, LoopInv, LocksAreExclusive,
           NEW u \in Worker, NEW v \in Worker, u # v,
           NEW x \in Holds(u), NEW y \in Wants(u) \cap Holds(v)
    PROVE  Sooner(x, y)
<1>0. /\ run[u] \in Run /\ approved_set \in 1 .. Len(SceneSets) /\ HasJob(u)
      /\ LoopIsInBody(u) /\ LoopIsForASet(u) /\ LoopIsInOrder(u)
  BY DEF TypeOK, LoopInv, LoopOK
<1>1. y \notin Holds(u) /\ x # y
  BY DEF LocksAreExclusive
<1>2. InLoop(u) /\ run[u].at # "closing" /\ run[u].at # "flushing"
  BY DEF Wants, InLoop, AtEnd
<1>3. PICK i \in 1 .. approved_set :
          /\ run[u].wrote \cup Ahead(u) = Selected(run[u].job, SceneSets[i])
          /\ NamesSceneOf(run[u].job, i)
  BY <1>0, <1>2 DEF LoopIsForASet
<1>4. i \in 1 .. Len(SceneSets) /\ Len(SceneSets) \in Nat
  BY <1>0, FanoutAssumption, LenProperties
<1>5. SceneSets[i] \subseteq Scene /\ Trigger \notin Scene /\ NoScene \notin Scene
  BY <1>4, SetsAreScenes, FanoutAssumption
<1>6. CASE run[u].at \in {"inserting", "found"}
  <2>1. y = run[u].scene /\ y \in Scene
    BY <1>0, <1>6 DEF Wants, AtEnd, LoopIsInBody
  <2>2. x \in run[u].wrote
    BY <1>1, <1>6, <2>1 DEF Holds
  <2>3. y \in Ahead(u)
    BY <1>5, <2>1 DEF Ahead
  <2>4. Before(x, y)
    BY <1>0, <2>2, <2>3 DEF LoopIsInOrder
  <2>5. x \in SceneSets[i] /\ y \in SceneSets[i]
    BY <1>3, <2>2, <2>3 DEF Selected
  <2> QED
    BY <1>4, <1>5, <2>4, <2>5 DEF Sooner
<1>7. CASE run[u].at \notin {"inserting", "found"}
  <2>1. AtEnd(u) /\ Closes(run[u].job) /\ y = job[run[u].job].slot /\ y \in Slot
    BY <1>0, <1>7 DEF Wants, LoopIsInBody
  <2>2. Ahead(u) = {}
    BY <1>0, <2>1 DEF AtEnd, Ahead, LoopIsInBody
  <2>3. run[u].wrote = Selected(run[u].job, SceneSets[i])
    BY <1>3, <2>2
  <2>4. x \in run[u].wrote /\ x \in SceneSets[i]
    BY <1>7, <2>1, <2>3 DEF Holds, AtEnd, Selected
  <2>5. CASE y = Trigger
    BY <1>5, <2>4, <2>5 DEF Sooner
  <2>6. CASE y # Trigger
    <3>1. PICK k \in 1 .. i : y \in SceneSets[k]
      BY <1>3, <2>1, <2>6 DEF NamesSceneOf
    <3>2. y \notin SceneSets[i]
      BY <1>1, <2>1, <2>3, <2>6 DEF Closes, Selected, Holds
    <3>3. k \in 1 .. Len(SceneSets) /\ k < i
      BY <1>4, <3>1, <3>2
    <3> QED
      BY <1>4, <1>5, <2>4, <2>6, <3>1, <3>3 DEF Sooner
  <2> QED
    BY <2>5, <2>6
<1> QED
  BY <1>6, <1>7

LEMMA BeforeIsAnOrder ==
    ASSUME NEW x \in Scene, NEW y \in Scene, NEW z \in Scene
    PROVE  ~Before(x, x) /\ (Before(x, y) /\ Before(y, z) => Before(x, z))
<1>1. SceneIndex[x] \in Nat /\ SceneIndex[y] \in Nat /\ SceneIndex[z] \in Nat
  BY FanoutAssumption
<1> HIDE DEF Free
<1> QED
  BY <1>1 DEF Before

LEMMA SoonerIsAnOrder ==
    ASSUME NEW x \in Slot, NEW y \in Slot, NEW z \in Slot
    PROVE  ~Sooner(x, x) /\ (Sooner(x, y) /\ Sooner(y, z) => Sooner(x, z))
<1>0. \A i, k \in 1 .. Len(SceneSets) : i # k => SceneSets[i] \cap SceneSets[k] = {}
  BY FanoutAssumption
<1>1. ~Sooner(x, x)
  <2>1. CASE x = Trigger
    BY <2>1 DEF Sooner
  <2>2. CASE x # Trigger
    BY <1>0, <2>2, BeforeIsAnOrder DEF Sooner, Slot
  <2> QED
    BY <2>1, <2>2
<1>2. ASSUME Sooner(x, y), Sooner(y, z) PROVE Sooner(x, z)
  <2>1. CASE z = Trigger
    BY <1>2, <2>1 DEF Sooner
  <2>2. CASE z # Trigger
    <3>1. x # Trigger /\ y # Trigger
      BY <1>2, <2>2 DEF Sooner
    <3>2. PICK i, k \in 1 .. Len(SceneSets) :
              /\ x \in SceneSets[i] /\ y \in SceneSets[k]
              /\ k < i \/ (k = i /\ Before(x, y))
      BY <1>2, <3>1 DEF Sooner
    <3>3. PICK l, m \in 1 .. Len(SceneSets) :
              /\ y \in SceneSets[l] /\ z \in SceneSets[m]
              /\ m < l \/ (m = l /\ Before(y, z))
      BY <1>2, <2>2, <3>1 DEF Sooner
    <3>4. k = l
      BY <1>0, <3>2, <3>3
    <3>5. x \in Scene /\ y \in Scene /\ z \in Scene
      BY <2>2, <3>1 DEF Slot
    <3>6. m < i \/ (m = i /\ Before(x, z))
      BY <3>2, <3>3, <3>4, <3>5, BeforeIsAnOrder
    <3> QED
      BY <2>2, <3>1, <3>2, <3>3, <3>6 DEF Sooner
  <2> QED
    BY <2>1, <2>2
<1> QED
  BY <1>1, <1>2

(* A set of artifacts has a last one in that order. *)
LEMMA LastSlot ==
    ASSUME NEW slots \in SUBSET Slot, slots # {}
    PROVE  \E x \in slots : \A y \in slots : ~Sooner(x, y)
<1> DEFINE After(x) == {y \in Slot : Sooner(x, y)}
           Count(x) == Cardinality(After(x))
           Counts == {Count(x) : x \in slots}
           Less == {pair \in Nat \X Nat : pair[1] < pair[2]}
<1>0. IsFiniteSet(Slot)
  BY FanoutAssumption, FS_AddElement DEF Slot
<1>1. \A x \in Slot : IsFiniteSet(After(x)) /\ Count(x) \in Nat
  BY <1>0, FS_Subset, FS_CardinalityType
<1>2. ASSUME NEW x \in Slot, NEW y \in Slot, Sooner(x, y) PROVE Count(y) < Count(x)
  <2>1. After(y) \in SUBSET After(x) /\ y \in After(x) /\ y \notin After(y)
    BY <1>2, SoonerIsAnOrder
  <2>2. Cardinality(After(y)) <= Cardinality(After(x))
        /\ Cardinality(After(x)) # Cardinality(After(y))
    BY <1>1, <2>1, FS_Subset
  <2> QED
    BY <1>1, <2>2
<1>3. IsWellFoundedOn(Less, Nat)
  BY NatLessThanWellFounded, Zenon DEF OpToRel
<1>4. Counts \subseteq Nat /\ Counts # {}
  <2>1. \A x \in slots : Count(x) \in Nat
    BY <1>1
  <2> HIDE DEF Count
  <2> QED
    BY <2>1
<1> HIDE DEF Less
<1>5. PICK n \in Counts : \A m \in Counts : ~(<<m, n>> \in Less)
  <2> HIDE DEF Counts
  <2> QED
    BY <1>3, <1>4, WFMin, Zenon
<1>6. PICK x \in slots : n = Count(x)
  BY <1>5
<1>7. ASSUME NEW y \in slots PROVE ~Sooner(x, y)
  <2>1. ~(<<Count(y), Count(x)>> \in Less)
    BY <1>5, <1>6
  <2> HIDE DEF Count
  <2> QED
    BY <1>1, <1>2, <2>1 DEF Less
<1> QED
  BY <1>7

(* A ring in which nobody waits for the project row would be a set of      *)
(* artifacts without a last one.                                           *)
LEMMA NoRing == TypeOK /\ LoopInv /\ LocksAreExclusive => OnlyThePhaseDeadlocks
<1> SUFFICES ASSUME TypeOK, LoopInv, LocksAreExclusive,
                    NEW ring \in SUBSET Worker, Ring(ring),
                    \A w, u \in ring : ~WaitsForProject(w, u)
             PROVE  FALSE
  BY DEF OnlyThePhaseDeadlocks
<1> DEFINE Between(w, u) == Wants(w) \cap Holds(u)
           slots == UNION {Between(pair[1], pair[2]) : pair \in {p \in ring \X ring : p[1] # p[2]}}
<1>1. ASSUME NEW w \in ring
      PROVE  \E u \in ring : u # w /\ Between(w, u) # {}
  BY DEF Ring, WaitsFor, WaitsForArtifact
<1>2. \A x : x \in slots <=> \E w, u \in ring : w # u /\ x \in Between(w, u)
  <2> HIDE DEF Between
  <2>1. ASSUME NEW x, NEW w \in ring, NEW u \in ring, w # u, x \in Between(w, u)
        PROVE  x \in slots
    <3>1. <<w, u>> \in {p \in ring \X ring : p[1] # p[2]}
      BY <2>1
    <3>2. Between(w, u) \in {Between(pair[1], pair[2]) :
                               pair \in {p \in ring \X ring : p[1] # p[2]}}
      BY <3>1
    <3> QED
      BY <2>1, <3>2
  <2> QED
    BY <2>1
<1> HIDE DEF slots
<1>3. slots \in SUBSET Slot /\ slots # {}
  <2>1. \A w \in ring : Wants(w) \subseteq Slot
    <3>1. \A w \in ring : run[w] \in Run
      BY DEF TypeOK
    <3> QED
      BY <3>1 DEF Wants, Run, Slot
  <2>2. \E w : w \in ring
    BY DEF Ring
  <2> QED
    BY <1>1, <1>2, <2>1, <2>2
<1>4. PICK x \in slots : \A y \in slots : ~Sooner(x, y)
  BY <1>3, LastSlot
<1>5. PICK w \in ring, u \in ring : w # u /\ x \in Between(w, u)
  BY <1>2, <1>4
<1>6. PICK v \in ring : v # u /\ Between(u, v) # {}
  BY <1>1
<1>7. PICK y : y \in Between(u, v)
  BY <1>6
<1>8. y \in slots
  BY <1>2, <1>6, <1>7
<1>9. Sooner(x, y)
  BY <1>5, <1>6, <1>7, WaitsAscend
<1> QED
  BY <1>4, <1>8, <1>9

-----------------------------------------------------------------------------
(* Whole or nothing.                                                       *)

LEMMA OwedKept ==
    ASSUME JobsAreKept, NEW j \in Job, job[j].status # Absent, NEW scenes
    PROVE  Owed(j, scenes)' = Owed(j, scenes)
<1>1. Selected(j, scenes)' = Selected(j, scenes)
  BY SelectedKept
<1> QED
  BY <1>1 DEF Owed, Closes, JobsAreKept

(* A step that writes no version, and neither finishes nor reopens a job. *)
LEMMA WholeKept ==
    ASSUME TypeOK, JobsAreKept, WholeOrNothing, NEW j \in Job,
           VersionsBy(j)' = VersionsBy(j),
           job'[j].status = "SUCCEEDED" <=> job[j].status = "SUCCEEDED"
    PROVE  IF job'[j].status = "SUCCEEDED"
           THEN \E i \in 1 .. approved_set' :
                   /\ {v.slot : v \in VersionsBy(j)'} = Owed(j, SceneSets[i])'
                   /\ \A v1, v2 \in VersionsBy(j)' : v1.slot = v2.slot => v1 = v2
           ELSE VersionsBy(j)' = {}
<1>0. approved_set \in Nat
  BY FanoutAssumption DEF TypeOK
<1>1. CASE job[j].status # "SUCCEEDED"
  BY <1>1 DEF WholeOrNothing
<1>2. CASE job[j].status = "SUCCEEDED"
  <2>1. PICK i \in 1 .. approved_set :
            /\ {v.slot : v \in VersionsBy(j)} = Owed(j, SceneSets[i])
            /\ \A v1, v2 \in VersionsBy(j) : v1.slot = v2.slot => v1 = v2
    BY <1>2 DEF WholeOrNothing
  <2>2. i \in 1 .. approved_set'
    BY <1>0 DEF JobsAreKept
  <2>3. Owed(j, SceneSets[i])' = Owed(j, SceneSets[i])
    BY <1>2, OwedKept DEF Absent
  <2> QED
    BY <1>2, <2>1, <2>2, <2>3
<1> QED
  BY <1>1, <1>2

(* At the end of its loop a body has written what its job is for, so that  *)
(* its transaction writes what the job owes.                               *)
LEMMA EndOfLoop ==
    ASSUME TypeOK, LoopInv, NEW w \in Worker, Ended(w)
    PROVE  \E i \in 1 .. approved_set :
              /\ run[w].wrote = Selected(run[w].job, SceneSets[i])
              /\ Written(w) = Owed(run[w].job, SceneSets[i])
<1>1. LoopIsInBody(w) /\ LoopIsForASet(w)
  BY DEF LoopInv, LoopOK
<1>2. InLoop(w) /\ Ahead(w) = {}
  BY <1>1 DEF Ended, AtEnd, InLoop, LoopIsInBody, Ahead
<1>3. PICK i \in 1 .. approved_set :
          run[w].wrote \cup Ahead(w) = Selected(run[w].job, SceneSets[i])
  BY <1>1, <1>2 DEF LoopIsForASet
<1> QED
  BY <1>2, <1>3 DEF Written, Owed

LEMMA WholeStep ==
    ASSUME TypeOK, LoopInv, WholeOrNothing, [Next]_vars
    PROVE  WholeOrNothing'
<1>1. JobsAreKept
  BY StepsKeepJobs
<1>2. ASSUME version' = version,
             \A j \in Job : job'[j].status = "SUCCEEDED" <=> job[j].status = "SUCCEEDED"
      PROVE  WholeOrNothing'
  <2>1. \A j \in Job : VersionsBy(j)' = VersionsBy(j)
    BY <1>2 DEF VersionsBy
  <2> QED
    BY <1>1, <1>2, <2>1, WholeKept DEF WholeOrNothing
<1>3. ASSUME NEW w \in Worker, Commit(w) PROVE WholeOrNothing'
  <2>1. PICK j \in Job : run[w].job = j
    BY <1>3, RunsAreOwned DEF Commit, Ended, AtEnd, LoopInv, LoopOK
  <2>2. job[j].status = "RUNNING" /\ job'[j].status = "SUCCEEDED"
    BY <1>3, <2>1, JobMoves DEF Commit, TypeOK, JobRow
  <2>3. PICK i \in 1 .. approved_set : Written(w) = Owed(j, SceneSets[i])
    BY <1>3, <2>1, EndOfLoop DEF Commit
  <2>4. i \in 1 .. approved_set' /\ Owed(j, SceneSets[i])' = Owed(j, SceneSets[i])
    BY <1>1, <1>3, <2>2, OwedKept DEF Commit, Absent
  <2>5. VersionsBy(j) = {}
    BY <2>2 DEF WholeOrNothing
  <2>6. VersionsBy(j)' =
           {[slot |-> x, version_no |-> current_version_no[x] + 1, job |-> j] :
               x \in Written(w)}
    BY <1>3, <2>1, <2>5 DEF VersionsBy, Commit
  <2>7. {v.slot : v \in VersionsBy(j)'} = Owed(j, SceneSets[i])'
    <3> DEFINE row(x) == [slot |-> x, version_no |-> current_version_no[x] + 1, job |-> j]
    <3>1. \A x : row(x).slot = x
      OBVIOUS
    <3>2. VersionsBy(j)' = {row(x) : x \in Written(w)}
      BY <2>6
    <3> HIDE DEF row
    <3>3. {v.slot : v \in VersionsBy(j)'} = Written(w)
      BY <3>1, <3>2
    <3> QED
      BY <2>3, <2>4, <3>3
  <2>8. \A v1, v2 \in VersionsBy(j)' : v1.slot = v2.slot => v1 = v2
    BY <2>6
  <2>9. ASSUME NEW k \in Job \ {j}
        PROVE  VersionsBy(k)' = VersionsBy(k) /\ job'[k] = job[k]
    BY <1>3, <2>1 DEF VersionsBy, Commit, TypeOK
  <2>10. ASSUME NEW k \in Job \ {j}
         PROVE  IF job'[k].status = "SUCCEEDED"
                THEN \E h \in 1 .. approved_set' :
                        /\ {v.slot : v \in VersionsBy(k)'} = Owed(k, SceneSets[h])'
                        /\ \A v1, v2 \in VersionsBy(k)' : v1.slot = v2.slot => v1 = v2
                ELSE VersionsBy(k)' = {}
    BY <1>1, <2>9, WholeKept
  <2> QED
    BY <2>2, <2>4, <2>7, <2>8, <2>10 DEF WholeOrNothing
<1>4. ASSUME NEW j \in Job, NEW x \in Slot, NEW op \in {"start", "regenerate"},
             NEW n \in {0, 1}, RequestCreates(j, x, op, n)
      PROVE  WholeOrNothing'
  BY <1>2, <1>4 DEF RequestCreates, TypeOK, Absent
<1>5. ASSUME NEW x \in Slot, Release(x) PROVE WholeOrNothing'
  <2>1. \A j \in Job : job'[j].status = "SUCCEEDED" <=> job[j].status = "SUCCEEDED"
    BY <1>5, JobMoves DEF Release, TypeOK, JobRow
  <2> QED
    BY <1>2, <1>5, <2>1 DEF Release
<1>6. ASSUME NEW w \in Worker, NEW j \in Job, Claim(w, j) PROVE WholeOrNothing'
  BY <1>2, <1>6, JobMoves DEF Claim, TypeOK, JobRow, rows
<1>7. ASSUME NEW w \in Worker, FailCommit(w) PROVE WholeOrNothing'
  BY <1>2, <1>7, JobMoves DEF FailCommit, TypeOK, JobRow
<1>8. ASSUME UNCHANGED <<version, job>> PROVE WholeOrNothing'
  BY <1>2, <1>8
<1> QED
  BY <1>3, <1>4, <1>5, <1>6, <1>7, <1>8
  DEF Next, ApiNext, WorkerNext, BodyNext, Reject, ApproveRemaining, ApproveSceneSet,
      DayPasses, BodyBegin, BodyRefuses, Find, Insert, Draw, Flush, Close, BudgetStops,
      ProviderFails, CompletionRefused, DeadlockAborts, FailBegin, Die, Keeps, rows, vars

-----------------------------------------------------------------------------
(* The spinners.                                                           *)

LEMMA AnswerKept ==
    ASSUME NEW j \in Job, NEW x \in Slot, Answers(j, x),
           job'[j].slot = job[j].slot, job'[j].status \in {"QUEUED", "RUNNING"},
           \A w \in Worker :
               run'[w].at = "failing" /\ run'[w].job = j =>
                   run'[w] = run[w] \/ run'[w].seen = "GENERATING"
    PROVE  Answers(j, x)'
  BY DEF Answers

(* A body that commits for a job takes the spinner of the job's own        *)
(* artifact away.                                                          *)
LEMMA CommitWritesSlot ==
    ASSUME TypeOK, LoopInv, NEW w \in Worker, Ended(w)
    PROVE  job[run[w].job].slot \in Written(w)
<1>1. CASE Closes(run[w].job)
  BY <1>1 DEF Written
<1>2. CASE ~Closes(run[w].job)
  <2>1. PICK i \in 1 .. approved_set : run[w].wrote = Selected(run[w].job, SceneSets[i])
    BY EndOfLoop
  <2>2. \A x \in run[w].wrote : x = job[run[w].job].slot
    BY <1>2, <2>1 DEF Selected, Closes
  <2>3. AtEnd(w)
    BY <1>2 DEF Ended, LoopInv, LoopOK, LoopIsInBody
  <2> QED
    BY <2>2, <2>3 DEF Written, AtEnd
<1> QED
  BY <1>1, <1>2

LEMMA SpinnersStep ==
    ASSUME TypeOK, LoopInv, SpinnersAreAnswered, [Next]_vars
    PROVE  SpinnersAreAnswered'
<1>0. /\ run \in [Worker -> Run] /\ job \in [Job -> JobRow]
      /\ state \in [Slot -> ArtifactState \cup {Absent}]
  BY DEF TypeOK
<1>1. ASSUME \A x \in Slot : state'[x] = "GENERATING" => state[x] = "GENERATING",
             \A x \in Slot, j \in Job :
                 state'[x] = "GENERATING" /\ state[x] = "GENERATING" /\ Answers(j, x)
                     => Answers(j, x)'
      PROVE  SpinnersAreAnswered'
  BY <1>1 DEF SpinnersAreAnswered
<1>2. ASSUME \A x \in Slot : state'[x] = "GENERATING" => state[x] = "GENERATING",
             job' = job,
             \A w \in Worker : run'[w] = run[w] \/ run'[w].at # "failing"
      PROVE  SpinnersAreAnswered'
  <2>1. ASSUME NEW x \in Slot, NEW j \in Job, Answers(j, x) PROVE Answers(j, x)'
    BY <1>2, <2>1, AnswerKept DEF Answers
  <2> QED
    BY <1>1, <1>2, <2>1
<1>3. ASSUME NEW j \in Job, NEW x \in Slot, NEW op \in {"start", "regenerate"},
             NEW n \in {0, 1}, RequestCreates(j, x, op, n)
      PROVE  SpinnersAreAnswered'
  <2>1. job'[j].slot = x /\ job'[j].status = "QUEUED" /\ run' = run /\ job[j].status = Absent
    BY <1>0, <1>3 DEF RequestCreates
  <2>2. Answers(j, x)'
    BY <2>1 DEF Answers, LoopInv, LoopOK, HasJob
  <2>3. ASSUME NEW y \in Slot, y # x, state'[y] = "GENERATING"
        PROVE  \E k \in Job : Answers(k, y)'
    <3>1. state[y] = "GENERATING"
      BY <1>0, <1>3, <2>3 DEF RequestCreates
    <3>2. PICK k \in Job : Answers(k, y)
      BY <3>1 DEF SpinnersAreAnswered
    <3>3. job'[k] = job[k]
      BY <1>0, <1>3, <2>1, <3>2 DEF RequestCreates, Answers, Absent
    <3> QED
      BY <2>1, <3>2, <3>3, AnswerKept DEF Answers
  <2> QED
    BY <2>2, <2>3 DEF SpinnersAreAnswered
<1>4. ASSUME NEW x \in Slot, Release(x) PROVE SpinnersAreAnswered'
  <2>1. \A y \in Slot : state'[y] = "GENERATING" => y # x /\ state[y] = "GENERATING"
    BY <1>0, <1>4, ArtifactTargets DEF Release
  <2>2. ASSUME NEW y \in Slot, y # x, NEW k \in Job, Answers(k, y) PROVE Answers(k, y)'
    <3>1. job'[k] = job[k]
      BY <1>0, <1>4, <2>2 DEF Release, Holders, Answers
    <3> QED
      BY <1>4, <2>2, <3>1, AnswerKept DEF Answers, Release
  <2> QED
    BY <1>1, <2>1, <2>2
<1>5. ASSUME NEW x \in Slot, Reject(x) PROVE SpinnersAreAnswered'
  BY <1>0, <1>2, <1>5, ArtifactTargets DEF Reject
<1>6. ASSUME ApproveRemaining PROVE SpinnersAreAnswered'
  BY <1>0, <1>2, <1>6, ArtifactTargets DEF ApproveRemaining
<1>7. ASSUME UNCHANGED <<state, job, run>> PROVE SpinnersAreAnswered'
  BY <1>2, <1>7
<1>8. ASSUME NEW w \in Worker, WorkerNext(w), \A u \in Worker \ {w} : run'[u] = run[u]
      PROVE  SpinnersAreAnswered'
  <2>1. ASSUME NEW j \in Job, Claim(w, j) PROVE SpinnersAreAnswered'
    <3>1. run'[w].at = "claimed" /\ state' = state
      BY <1>0, <2>1 DEF Claim, Goes, Idle, rows
    <3>2. \A k \in Job : /\ job'[k].slot = job[k].slot
                         /\ job'[k].status \in {job[k].status, "RUNNING"}
      BY <1>0, <2>1, JobMoves DEF Claim, JobRow
    <3>3. ASSUME NEW x \in Slot, NEW k \in Job, Answers(k, x) PROVE Answers(k, x)'
      BY <1>8, <3>1, <3>2, <3>3, AnswerKept DEF Answers
    <3> QED
      BY <1>1, <3>1, <3>3
  <2>2. ASSUME Commit(w) PROVE SpinnersAreAnswered'
    <3>1. \A x \in Slot : state'[x] = "GENERATING" =>
                              x \notin Written(w) /\ state[x] = "GENERATING"
      BY <1>0, <2>2, FinishedTarget DEF Commit
    <3>2. run'[w].at = "idle"
      BY <1>0, <2>2 DEF Commit, Goes, Idle
    <3>3. ASSUME NEW x \in Slot, x \notin Written(w), NEW k \in Job, Answers(k, x)
          PROVE  Answers(k, x)'
      <4>1. k # run[w].job
        BY <2>2, <3>3, CommitWritesSlot DEF Commit, Answers
      <4>2. job'[k] = job[k]
        BY <1>0, <2>2, <4>1 DEF Commit
      <4> QED
        BY <1>8, <3>2, <3>3, <4>2, AnswerKept DEF Answers
    <3> QED
      BY <1>1, <3>1, <3>3
  <2>3. ASSUME FailBegin(w) PROVE SpinnersAreAnswered'
    <3>1. /\ state' = state /\ job' = job
          /\ run'[w].job = run[w].job /\ run'[w].seen = state[job[run[w].job].slot]
      BY <1>0, <2>3 DEF FailBegin, Goes, Run, Keeps, rows
    <3>2. ASSUME NEW x \in Slot, NEW k \in Job, state[x] = "GENERATING", Answers(k, x)
          PROVE  Answers(k, x)'
      <4>1. run[w].job = k => run'[w].seen = "GENERATING"
        BY <3>1, <3>2 DEF Answers
      <4> QED
        BY <1>8, <3>1, <3>2, <4>1, AnswerKept DEF Answers
    <3> QED
      BY <1>1, <3>1, <3>2
  <2>4. ASSUME FailCommit(w) PROVE SpinnersAreAnswered'
    <3>1. run'[w].at = "idle"
      BY <1>0, <2>4 DEF FailCommit, Goes, Idle
    <3>2. \A x \in Slot : state'[x] = "GENERATING" => state[x] = "GENERATING"
      BY <1>0, <2>4, ArtifactTargets DEF FailCommit
    <3>3. ASSUME NEW x \in Slot, NEW k \in Job, state'[x] = "GENERATING", Answers(k, x)
          PROVE  Answers(k, x)'
      <4>1. k # run[w].job
        <5>1. SUFFICES ASSUME k = run[w].job PROVE FALSE
          OBVIOUS
        <5>2. run[w].seen = "GENERATING" /\ job[run[w].job].slot = x
          BY <2>4, <3>3, <5>1 DEF Answers, FailCommit
        <5>3. state'[x] = Target("GENERATION_FAILED")
          BY <1>0, <2>4, <5>2, ArtifactSources DEF FailCommit
        <5> QED
          BY <3>3, <5>3, ArtifactTargets
      <4>2. job'[k] = job[k]
        BY <1>0, <2>4, <4>1 DEF FailCommit
      <4> QED
        BY <1>8, <3>1, <3>3, <4>2, AnswerKept DEF Answers
    <3> QED
      BY <1>1, <3>2, <3>3
  <2>5. ASSUME UNCHANGED <<state, job>>, run'[w].at # "failing" PROVE SpinnersAreAnswered'
    BY <1>2, <1>8, <2>5
  <2>6. ASSUME Keeps \/ BudgetStops(w), Goes(w, Idle) \/ Raises(w) \/ BodyBegin(w)
        PROVE  SpinnersAreAnswered'
    <3>0. UNCHANGED <<state, job>>
      BY <2>6 DEF Keeps, BudgetStops, rows
    <3>1. run'[w].at # "failing"
      <4>1. CASE Goes(w, Idle)
        BY <1>0, <4>1 DEF Goes, Idle
      <4>2. CASE Raises(w)
        BY <1>0, <4>2 DEF Goes, Raises, Idle
      <4>3. CASE BodyBegin(w)
        BY <1>0, <4>3 DEF Goes, BodyBegin, Idle
      <4> QED
        BY <2>6, <4>1, <4>2, <4>3
    <3> QED
      BY <2>5, <3>0, <3>1
  <2>7. ASSUME Find(w) \/ Draw(w) \/ Flush(w) \/ Close(w)
                 \/ (Insert(w) /\ Goes(w, HasRow(w, run[w].scene)))
        PROVE  SpinnersAreAnswered'
    <3>0. LoopIsInBody(w)
      BY DEF LoopInv, LoopOK
    <3>1. run'[w].at # "failing"
      <4>1. CASE Find(w)
        BY <4>1, FindMoves DEF Find
      <4>2. CASE Draw(w) \/ Flush(w) \/ Close(w)
        BY <3>0, <4>2, DrawMoves, FlushMoves, CloseMoves DEF Draw, LoopIsInBody
      <4>3. CASE Insert(w) /\ Goes(w, HasRow(w, run[w].scene))
        BY <3>0, <4>3, HasRowMoves DEF Insert, LoopIsInBody
      <4> QED
        BY <2>7, <4>1, <4>2, <4>3
    <3> QED
      BY <2>5, <2>7, <3>1 DEF Find, Draw, Flush, Close, Insert, Keeps, rows
  <2> QED
    BY <1>8, <2>1, <2>2, <2>3, <2>4, <2>6, <2>7
    DEF WorkerNext, BodyNext, BodyBegin, BodyRefuses, BudgetStops, Insert, ProviderFails,
        CompletionRefused, DeadlockAborts, Die
<1>9. ASSUME run' = run PROVE SpinnersAreAnswered' \/ \E w \in Worker : WorkerNext(w)
  BY <1>3, <1>4, <1>5, <1>6, <1>7, <1>9
  DEF Next, ApiNext, ApproveSceneSet, DayPasses, rows, vars
<1>10. ASSUME NEW w \in Worker, WorkerNext(w)
       PROVE  \A u \in Worker \ {w} : run'[u] = run[u]
  BY <1>10, WorkerMovesAlone
<1> QED
  BY <1>8, <1>9, <1>10, OneMoves

-----------------------------------------------------------------------------
(* The spend.                                                              *)

(* A relation with finite domain and at most "bound" values for each of    *)
(* its points has at most that many pairs per point.                       *)
LEMMA FibreBound ==
    ASSUME NEW U, IsFiniteSet(U), NEW T, IsFiniteSet(T), NEW pairs \in SUBSET (U \X T),
           NEW bound \in Nat,
           \A u \in U : Cardinality({x \in T : <<u, x>> \in pairs}) <= bound
    PROVE  /\ IsFiniteSet(pairs)
           /\ Cardinality(pairs) <= Cardinality(U) * bound
<1> DEFINE Fibre(u) == {x \in T : <<u, x>> \in pairs}
           Numbering(u) == Injection(Fibre(u), 1 .. bound)
<1>1. ASSUME NEW u \in U PROVE \E f : f \in Numbering(u)
  <2>1. IsFiniteSet(Fibre(u)) /\ Cardinality(Fibre(u)) \in Nat
    BY FS_Subset, FS_CardinalityType
  <2> DEFINE n == Cardinality(Fibre(u))
  <2>2. ExistsBijection(Fibre(u), 1 .. n)
    <3>1. ExistsBijection(1 .. n, Fibre(u))
      BY <2>1, FS_CardinalityType
    <3> QED
      BY <3>1, Fun_ExistsBijSymmetric
  <2>3. PICK f \in Bijection(Fibre(u), 1 .. n) : TRUE
    BY <2>2 DEF ExistsBijection
  <2>4. n \in Nat /\ n <= bound
    BY <2>1
  <2> HIDE DEF n, Fibre
  <2>5. 1 .. n \subseteq 1 .. bound
    BY <2>4
  <2> QED
    BY <2>3, <2>5 DEF Bijection, Injection, IsInjective
<1> DEFINE number == [u \in U |-> CHOOSE f : f \in Numbering(u)]
           code == [p \in pairs |-> <<p[1], number[p[1]][p[2]]>>]
<1>2. \A u \in U : number[u] \in Injection(Fibre(u), 1 .. bound)
  BY <1>1
<1> HIDE DEF number
<1>3. \A p \in pairs : p[1] \in U /\ p[2] \in Fibre(p[1]) /\ p = <<p[1], p[2]>>
  OBVIOUS
<1> HIDE DEF Fibre
<1>4. code \in [pairs -> U \X (1 .. bound)]
  BY <1>2, <1>3 DEF Injection, IsInjective
<1>5. ASSUME NEW p \in pairs, NEW q \in pairs, code[p] = code[q] PROVE p = q
  <2>1. p[1] = q[1] /\ number[p[1]][p[2]] = number[p[1]][q[2]]
    BY <1>5
  <2>2. p[2] = q[2]
    BY <1>2, <1>3, <2>1 DEF Injection, IsInjective
  <2> QED
    BY <1>3, <2>1, <2>2
<1>6. code \in Injection(pairs, U \X (1 .. bound))
  BY <1>4, <1>5 DEF Injection, IsInjective
<1>7. IsFiniteSet(1 .. bound) /\ Cardinality(1 .. bound) = bound
  BY FS_Interval
<1>8. /\ IsFiniteSet(U \X (1 .. bound))
      /\ Cardinality(U \X (1 .. bound)) = Cardinality(U) * bound
  BY <1>7, FS_Product
<1> QED
  BY <1>6, <1>8, FS_Injection

(* The day's committed rows are among those require_budget sums.           *)
LEMMA RowsAreSummed ==
    ASSUME IsFiniteSet(usage), NEW d, d \in 0 .. MaxDay
    PROVE  /\ IsFiniteSet(Rows(d)) /\ Cardinality(Rows(d)) \in Nat
           /\ SpentSince(d) \in Nat /\ Cardinality(Rows(d)) <= SpentSince(d)
<1> DEFINE since == {u \in usage : u.day >= d}
<1>1. IsFiniteSet(since)
  BY FS_Subset
<1>2. Rows(d) \in SUBSET since
  BY FanoutAssumption DEF Rows
<1>3. /\ IsFiniteSet(Rows(d)) /\ Cardinality(Rows(d)) \in Nat
      /\ Cardinality(since) \in Nat /\ Cardinality(Rows(d)) <= Cardinality(since)
  BY <1>1, <1>2, FS_Subset, FS_CardinalityType
<1> QED
  BY <1>3 DEF SpentSince

LEMMA OpenedTyped ==
    ASSUME TypeOK, LoopInv, NEW w \in Worker
    PROVE  /\ Opened(w) \subseteq Scene /\ IsFiniteSet(Opened(w))
           /\ Cardinality(Opened(w)) \in Nat
           /\ Calls(w) \subseteq Opened(w) /\ IsFiniteSet(Calls(w))
           /\ Cardinality(Calls(w)) \in Nat
<1>1. Opened(w) \subseteq Scene /\ Calls(w) \subseteq Opened(w)
  BY DEF Opened, Calls, LoopInv, LoopOK, LoopIsInBody, TypeOK, Run
<1> HIDE DEF Opened, Calls
<1>2. IsFiniteSet(Opened(w))
  BY <1>1, FanoutAssumption, FS_Subset
<1>3. IsFiniteSet(Calls(w))
  BY <1>1, <1>2, FS_Subset
<1> QED
  BY <1>1, <1>2, <1>3, FS_CardinalityType

LEMMA ShareTyped ==
    ASSUME TypeOK
    PROVE  /\ setup.limit \in Nat /\ Share \in Nat
           /\ Cardinality(Worker) \in Nat /\ Cardinality(Worker) * Share \in Nat
<1>1. setup.limit \in Nat /\ Share \in Nat
  <2>1. setup.limit \in Nat
    BY FanoutAssumption DEF TypeOK, Setup
  <2>2. CASE setup.stage = "prompt"
    BY <2>1, <2>2 DEF Share
  <2>3. CASE setup.stage # "prompt"
    BY <2>1, <2>3 DEF Share
  <2> QED
    BY <2>1, <2>2, <2>3
<1>2. Cardinality(Worker) \in Nat
  BY FanoutAssumption, FS_CardinalityType
<1> QED
  BY <1>1, <1>2

LEMMA InFlightTyped ==
    ASSUME NEW d
    PROVE  /\ IsFiniteSet(InFlight(d)) /\ Cardinality(InFlight(d)) \in Nat
<1>1. IsFiniteSet(Worker \X Scene)
  BY FanoutAssumption, FS_Product
<1>2. InFlight(d) \in SUBSET (Worker \X Scene)
  BY DEF InFlight
<1> HIDE DEF InFlight
<1> QED
  BY <1>1, <1>2, FS_Subset, FS_CardinalityType

(* The calls of the other workers: a share each, at most. *)
LEMMA OthersShare ==
    ASSUME NEW W, IsFiniteSet(W), NEW w \in W, NEW pairs \in SUBSET ((W \ {w}) \X Scene),
           NEW bound \in Nat,
           \A u \in W \ {w} : Cardinality({x \in Scene : <<u, x>> \in pairs}) <= bound
    PROVE  /\ IsFiniteSet(pairs) /\ Cardinality(pairs) \in Nat
           /\ Cardinality(pairs) + bound <= Cardinality(W) * bound
<1> DEFINE n == Cardinality(W)
<1>1. /\ IsFiniteSet(W \ {w}) /\ Cardinality(W \ {w}) = n - 1 /\ n \in Nat
      /\ Cardinality(W \ {w}) \in Nat
  BY FS_RemoveElement, FS_CardinalityType
<1>2. IsFiniteSet(pairs) /\ Cardinality(pairs) <= Cardinality(W \ {w}) * bound
  BY <1>1, FibreBound, FanoutAssumption
<1>3. Cardinality(pairs) \in Nat
  BY <1>2, FS_CardinalityType
<1> HIDE DEF n
<1>4. (n - 1) * bound + bound = n * bound
  BY <1>1
<1> QED
  BY <1>1, <1>2, <1>3, <1>4 DEF n

LEMMA EmptyHasNone ==
    ASSUME NEW S, S = {}
    PROVE  IsFiniteSet(S) /\ Cardinality(S) = 0
  BY FS_EmptySet, Zenon

LEMMA ProductWithOne ==
    ASSUME NEW w, NEW calls, IsFiniteSet(calls)
    PROVE  /\ IsFiniteSet({w} \X calls)
           /\ Cardinality({w} \X calls) = Cardinality(calls)
<1>1. IsFiniteSet({w}) /\ Cardinality({w}) = 1
  BY FS_Singleton
<1>2. Cardinality(calls) \in Nat
  BY FS_CardinalityType
<1> QED
  BY <1>1, <1>2, FS_Product

(* A step in which nobody pays or commits. *)
LEMMA QuietSpend ==
    ASSUME TypeOK, LoopInv, SpendIsShared, setup' = setup, usage' = usage,
           \A u \in Worker : /\ Opened(u)' \subseteq Opened(u)
                             /\ Opened(u)' # {} => run'[u].day = run[u].day
    PROVE  SpendIsShared'
<1>1. Share' = Share
  BY DEF Share
<1>2. \A d : Rows(d)' = Rows(d)
  BY DEF Rows
<1>3. ASSUME NEW u \in Worker
      PROVE  Cardinality(Opened(u)') \in Nat /\ Cardinality(Opened(u)') <= Cardinality(Opened(u))
  <2>1. IsFiniteSet(Opened(u)) /\ Opened(u)' \in SUBSET Opened(u)
    BY OpenedTyped
  <2> QED
    BY <2>1, FS_Subset, FS_CardinalityType
<1>4. ASSUME NEW d PROVE Cardinality(InFlight(d)') <= Cardinality(InFlight(d))
  <2>1. InFlight(d)' \in SUBSET InFlight(d)
    BY DEF InFlight
  <2> QED
    BY <2>1, InFlightTyped, FS_Subset
<1>5. SUFFICES ASSUME setup.limit > 0
               PROVE  /\ \A u \in Worker : Cardinality(Opened(u)') <= Share
                      /\ \A d \in 0 .. MaxDay :
                            Cardinality(Rows(d)) + Cardinality(InFlight(d)')
                                <= Cardinality(Worker) * Share
  BY <1>1, <1>2 DEF SpendIsShared
<1>6. ASSUME NEW u \in Worker PROVE Cardinality(Opened(u)') <= Share
  BY <1>3, <1>5, <1>6, OpenedTyped, ShareTyped DEF SpendIsShared
<1>7. ASSUME NEW d \in 0 .. MaxDay
      PROVE  Cardinality(Rows(d)) + Cardinality(InFlight(d)') <= Cardinality(Worker) * Share
  <2>1. Cardinality(Rows(d)) \in Nat /\ Cardinality(InFlight(d)) \in Nat
    BY RowsAreSummed, InFlightTyped DEF SpendIsShared
  <2>2. IsFiniteSet(InFlight(d)') /\ Cardinality(InFlight(d)') \in Nat
    <3>1. InFlight(d)' \in SUBSET InFlight(d)
      BY DEF InFlight
    <3> QED
      BY <3>1, InFlightTyped, FS_Subset, FS_CardinalityType
  <2>3. Cardinality(Rows(d)) + Cardinality(InFlight(d)) <= Cardinality(Worker) * Share
    BY <1>5 DEF SpendIsShared
  <2> QED
    BY <1>4, <2>1, <2>2, <2>3, ShareTyped
<1> QED
  BY <1>6, <1>7

(* A worker opens a call the budget has allowed. *)
LEMMA PaySpend ==
    ASSUME TypeOK, LoopInv, SpendIsShared, setup' = setup, usage' = usage,
           NEW w \in Worker, \A u \in Worker \ {w} : run'[u] = run[u],
           run'[w].day = run[w].day,
           Opened(w)' \subseteq Scene,
           setup.limit > 0 => Cardinality(Rows(run[w].day)) + Cardinality(Opened(w)') <= Share
    PROVE  SpendIsShared'
<1>1. Share' = Share
  BY DEF Share
<1>2. \A d : Rows(d)' = Rows(d)
  BY DEF Rows
<1>3. \A u \in Worker \ {w} : Opened(u)' = Opened(u)
  BY DEF Opened, Calls, Free
<1>4. IsFiniteSet(Opened(w)') /\ Cardinality(Opened(w)') \in Nat
  BY FanoutAssumption, FS_Subset, FS_CardinalityType
<1>5. SUFFICES ASSUME setup.limit > 0
               PROVE  /\ \A u \in Worker : Cardinality(Opened(u)') <= Share
                      /\ \A d \in 0 .. MaxDay :
                            Cardinality(Rows(d)) + Cardinality(InFlight(d)')
                                <= Cardinality(Worker) * Share
  BY <1>1, <1>2 DEF SpendIsShared
<1>6. run[w].day \in 0 .. MaxDay
  BY DEF TypeOK, Run
<1>7. \A d \in 0 .. MaxDay : Cardinality(Rows(d)) \in Nat
  BY RowsAreSummed DEF SpendIsShared
<1>8. ASSUME NEW u \in Worker PROVE Cardinality(Opened(u)') <= Share
  <2>1. CASE u = w
    BY <1>4, <1>5, <1>6, <1>7, <2>1, ShareTyped
  <2>2. CASE u # w
    BY <1>3, <1>5, <2>2 DEF SpendIsShared
  <2> QED
    BY <2>1, <2>2
<1>9. ASSUME NEW d \in 0 .. MaxDay
      PROVE  Cardinality(Rows(d)) + Cardinality(InFlight(d)') <= Cardinality(Worker) * Share
  <2>1. CASE d # run[w].day
    <3>1. InFlight(d)' = InFlight(d)
      BY <1>3, <2>1 DEF InFlight
    <3> QED
      BY <1>5, <3>1 DEF SpendIsShared
  <2>2. CASE d = run[w].day
    <3> DEFINE others == {p \in (Worker \ {w}) \X Scene : p \in InFlight(d)}
    <3>1. InFlight(d)' = others \cup ({w} \X Opened(w)')
      BY <1>3, <2>2 DEF InFlight
    <3>2. ASSUME NEW u \in Worker \ {w}
          PROVE  Cardinality({x \in Scene : <<u, x>> \in others}) <= Share
      <4>1. {x \in Scene : <<u, x>> \in others} \in SUBSET Opened(u)
        BY DEF InFlight
      <4>2. /\ IsFiniteSet(Opened(u)) /\ Cardinality(Opened(u)) <= Share
            /\ Cardinality(Opened(u)) \in Nat
        BY <1>5, OpenedTyped DEF SpendIsShared
      <4> HIDE DEF others
      <4>3. /\ Cardinality({x \in Scene : <<u, x>> \in others}) <= Cardinality(Opened(u))
            /\ Cardinality({x \in Scene : <<u, x>> \in others}) \in Nat
        BY <4>1, <4>2, FS_Subset, FS_CardinalityType
      <4> QED
        BY <4>2, <4>3, ShareTyped
    <3>3. others \in SUBSET ((Worker \ {w}) \X Scene)
      OBVIOUS
    <3> HIDE DEF others
    <3>4. /\ IsFiniteSet(others) /\ Cardinality(others) \in Nat
          /\ Cardinality(others) + Share <= Cardinality(Worker) * Share
      BY <3>2, <3>3, OthersShare, ShareTyped, FanoutAssumption
    <3>5. /\ IsFiniteSet({w} \X Opened(w)')
          /\ Cardinality({w} \X Opened(w)') = Cardinality(Opened(w)')
      BY <1>4, ProductWithOne
    <3>6. Cardinality(InFlight(d)') <= Cardinality(others) + Cardinality(Opened(w)')
          /\ Cardinality(InFlight(d)') \in Nat
      <4> DEFINE mine == {w} \X Opened(w)'
      <4>1. IsFiniteSet(others \cap mine) /\ Cardinality(others \cap mine) \in Nat
        BY <3>4, FS_Intersection, FS_CardinalityType
      <4>2. /\ IsFiniteSet(others \cup mine)
            /\ Cardinality(others \cup mine) =
                  Cardinality(others) + Cardinality(mine) - Cardinality(others \cap mine)
        BY <3>4, <3>5, FS_Union
      <4>3. Cardinality(others \cup mine) \in Nat
        BY <4>2, FS_CardinalityType
      <4> QED
        BY <1>4, <3>1, <3>4, <3>5, <4>1, <4>2, <4>3
    <3> QED
      BY <1>4, <1>5, <1>7, <2>2, <3>4, <3>6, ShareTyped
  <2> QED
    BY <2>1, <2>2
<1> QED
  BY <1>8, <1>9

(* What was in flight of a body becomes rows when it commits. *)
LEMMA CommitSpend ==
    ASSUME TypeOK, LoopInv, SpendIsShared, NEW w \in Worker, Commit(w)
    PROVE  SpendIsShared'
<1> DEFINE j == run[w].job
           new == {[job |-> j, slot |-> x, day |-> run[w].day] : x \in Calls(w)}
<1>1. setup' = setup /\ Share' = Share /\ usage' = usage \cup new /\ run'[w] = Idle
  BY DEF Commit, Share, Goes, TypeOK
<1>2. \A u \in Worker \ {w} : Opened(u)' = Opened(u) /\ run'[u] = run[u]
  BY DEF Commit, Goes, TypeOK, Opened, Calls, Free
<1>3. Opened(w)' = {}
  BY <1>1 DEF Opened, Calls, Idle
<1>4. run[w].day \in 0 .. MaxDay
  BY DEF TypeOK, Run
<1>5. /\ IsFiniteSet(Calls(w)) /\ Cardinality(Calls(w)) \in Nat
      /\ Calls(w) \subseteq Opened(w) /\ Calls(w) \subseteq Scene
  BY OpenedTyped
<1>6. IsFiniteSet(new) /\ Cardinality(new) \in Nat /\ Cardinality(new) <= Cardinality(Calls(w))
  <2> DEFINE f == [u \in new |-> u.slot]
  <2>1. f \in Injection(new, Calls(w))
    BY DEF Injection, IsInjective
  <2> HIDE DEF f, new
  <2>2. IsFiniteSet(new) /\ Cardinality(new) <= Cardinality(Calls(w))
    BY <1>5, <2>1, FS_Injection
  <2> QED
    BY <2>2, FS_CardinalityType
<1>7. \A u \in new : u.day = run[w].day
  OBVIOUS
<1> HIDE DEF new, j
<1>8. IsFiniteSet(usage')
  BY <1>1, <1>6, FS_Union DEF SpendIsShared
<1>9. SUFFICES ASSUME setup.limit > 0
               PROVE  /\ \A u \in Worker : Cardinality(Opened(u)') <= Share
                      /\ \A d \in 0 .. MaxDay :
                            Cardinality(Rows(d)') + Cardinality(InFlight(d)')
                                <= Cardinality(Worker) * Share
  BY <1>1, <1>8 DEF SpendIsShared
<1>10. ASSUME NEW u \in Worker PROVE Cardinality(Opened(u)') <= Share
  <2>1. CASE u = w
    <3>1. Cardinality(Opened(u)') = 0
      BY <1>3, <2>1, EmptyHasNone
    <3> QED
      BY <3>1, ShareTyped
  <2>2. CASE u # w
    BY <1>2, <1>9, <2>2 DEF SpendIsShared
  <2> QED
    BY <2>1, <2>2
<1>11. ASSUME NEW d \in 0 .. MaxDay
       PROVE  Cardinality(Rows(d)') + Cardinality(InFlight(d)') <= Cardinality(Worker) * Share
  <2>1. /\ IsFiniteSet(Rows(d)) /\ Cardinality(Rows(d)) \in Nat
        /\ IsFiniteSet(InFlight(d)) /\ Cardinality(InFlight(d)) \in Nat
    BY RowsAreSummed, InFlightTyped DEF SpendIsShared
  <2>2. Cardinality(Rows(d)) + Cardinality(InFlight(d)) <= Cardinality(Worker) * Share
    BY <1>9 DEF SpendIsShared
  <2>3. InFlight(d)' \in SUBSET InFlight(d)
    BY <1>2, <1>3 DEF InFlight
  <2>4. /\ IsFiniteSet(InFlight(d)') /\ Cardinality(InFlight(d)') \in Nat
        /\ Cardinality(InFlight(d)') <= Cardinality(InFlight(d))
    BY <2>1, <2>3, FS_Subset, FS_CardinalityType
  <2>5. CASE d # run[w].day
    <3>1. Rows(d)' = Rows(d)
      BY <1>1, <1>7, <2>5 DEF Rows
    <3> QED
      BY <2>1, <2>2, <2>4, <3>1, ShareTyped
  <2>6. CASE d = run[w].day
    <3> DEFINE mine == {w} \X Calls(w)
               after == InFlight(d)'
    <3>1. Rows(d)' = Rows(d) \cup new
      BY <1>1, <1>7, <2>6 DEF Rows
    <3>2. /\ IsFiniteSet(Rows(d)') /\ Cardinality(Rows(d)') \in Nat
          /\ Cardinality(Rows(d)') <= Cardinality(Rows(d)) + Cardinality(Calls(w))
      <4>1. IsFiniteSet(Rows(d) \cap new) /\ Cardinality(Rows(d) \cap new) \in Nat
        BY <2>1, FS_Intersection, FS_CardinalityType
      <4>2. /\ IsFiniteSet(Rows(d) \cup new)
            /\ Cardinality(Rows(d) \cup new) =
                  Cardinality(Rows(d)) + Cardinality(new) - Cardinality(Rows(d) \cap new)
        BY <1>6, <2>1, FS_Union
      <4> QED
        BY <1>5, <1>6, <2>1, <3>1, <4>1, <4>2, FS_CardinalityType
    <3>3. IsFiniteSet(mine) /\ Cardinality(mine) = Cardinality(Calls(w))
      BY <1>5, ProductWithOne
    <3>4. after \cap mine = {}
      BY <1>3 DEF InFlight
    <3>5. after \cup mine \in SUBSET InFlight(d)
      BY <1>5, <2>3, <2>6 DEF InFlight
    <3>9. IsFiniteSet(after) /\ Cardinality(after) \in Nat
      BY <2>4
    <3> HIDE DEF mine, after
    <3>6. Cardinality(after \cup mine) = Cardinality(after) + Cardinality(mine)
      <4>1. Cardinality(after \cup mine) =
               Cardinality(after) + Cardinality(mine) - Cardinality(after \cap mine)
        BY <3>3, <3>9, FS_Union
      <4>2. Cardinality(after \cap mine) = 0
        BY <3>4, EmptyHasNone
      <4> QED
        BY <1>5, <3>3, <3>9, <4>1, <4>2
    <3>7. Cardinality(after \cup mine) <= Cardinality(InFlight(d))
      BY <2>1, <3>5, FS_Subset
    <3>8. Cardinality(after) + Cardinality(Calls(w)) <= Cardinality(InFlight(d))
      BY <3>3, <3>6, <3>7
    <3> QED
      BY <1>5, <2>1, <2>2, <2>4, <3>2, <3>8, ShareTyped DEF after
  <2> QED
    BY <2>5, <2>6
<1> QED
  BY <1>10, <1>11

(* The check before an image is for one call more than those made. *)
LEMMA ImageIsAllowed ==
    ASSUME TypeOK, LoopInv, SpendIsShared, NEW w \in Worker, setup.stage = "image",
           BudgetAllows(w, Cardinality(Calls(w))), setup.limit > 0
    PROVE  Cardinality(Rows(run[w].day)) + Cardinality(Calls(w)) + 1 <= Share
<1>1. run[w].day \in 0 .. MaxDay
  BY DEF TypeOK, Run
<1> DEFINE d == run[w].day
<1>2. /\ Cardinality(Rows(d)) \in Nat /\ SpentSince(d) \in Nat
      /\ Cardinality(Rows(d)) <= SpentSince(d)
  BY <1>1, RowsAreSummed DEF SpendIsShared
<1>3. Cardinality(Calls(w)) \in Nat /\ setup.limit \in Nat
  BY OpenedTyped, ShareTyped
<1>4. SpentSince(d) + Cardinality(Calls(w)) < setup.limit
  BY <1>3 DEF BudgetAllows
<1>5. Share = setup.limit
  BY <1>3 DEF Share
<1> QED
  BY <1>2, <1>3, <1>4, <1>5

(* The check before a prompt may miss the last of those made. *)
LEMMA PromptIsAllowed ==
    ASSUME TypeOK, LoopInv, SpendIsShared, NEW w \in Worker, setup.stage = "prompt",
           BudgetAllows(w, OwnSpend(w)), setup.limit > 0
    PROVE  Cardinality(Rows(run[w].day)) + Cardinality(Calls(w)) + 1 <= Share
<1>1. run[w].day \in 0 .. MaxDay
  BY DEF TypeOK, Run
<1> DEFINE d == run[w].day
<1>2. /\ Cardinality(Rows(d)) \in Nat /\ SpentSince(d) \in Nat
      /\ Cardinality(Rows(d)) <= SpentSince(d)
  BY <1>1, RowsAreSummed DEF SpendIsShared
<1>3. Cardinality(Calls(w)) \in Nat /\ setup.limit \in Nat
  BY OpenedTyped, ShareTyped
<1>4. SpentSince(d) + OwnSpend(w) < setup.limit
  BY <1>3 DEF BudgetAllows
<1>5. Share = setup.limit + 1
  BY <1>3 DEF Share
<1>6. OwnSpend(w) \in Nat /\ Cardinality(Calls(w)) <= OwnSpend(w) + 1
  <2>1. CASE state[run[w].scene] = Absent \/ Cardinality(Calls(w)) = 0
    BY <1>3, <2>1 DEF OwnSpend
  <2>2. CASE ~(state[run[w].scene] = Absent \/ Cardinality(Calls(w)) = 0)
    BY <1>3, <2>2 DEF OwnSpend
  <2> QED
    BY <2>1, <2>2
<1> QED
  BY <1>2, <1>3, <1>4, <1>5, <1>6

LEMMA OneMoreCall ==
    ASSUME TypeOK, LoopInv, SpendIsShared, NEW w \in Worker, NEW x,
           Opened(w)' = Calls(w) \cup {x},
           Cardinality(Rows(run[w].day)) + Cardinality(Calls(w)) + 1 <= Share
    PROVE  Cardinality(Rows(run[w].day)) + Cardinality(Opened(w)') <= Share
<1>1. run[w].day \in 0 .. MaxDay
  BY DEF TypeOK, Run
<1>2. Cardinality(Rows(run[w].day)) \in Nat
  BY <1>1, RowsAreSummed DEF SpendIsShared
<1>3. IsFiniteSet(Calls(w)) /\ Cardinality(Calls(w)) \in Nat
  BY OpenedTyped
<1>4. /\ Cardinality(Opened(w)') \in Nat
      /\ Cardinality(Opened(w)') <= Cardinality(Calls(w)) + 1
  <2>1. /\ IsFiniteSet(Calls(w) \cup {x})
        /\ Cardinality(Calls(w) \cup {x}) =
              IF x \in Calls(w) THEN Cardinality(Calls(w)) ELSE Cardinality(Calls(w)) + 1
    BY <1>3, FS_AddElement
  <2> QED
    BY <1>3, <2>1, FS_CardinalityType
<1> QED
  BY <1>2, <1>3, <1>4, ShareTyped

LEMMA SpendStep ==
    ASSUME TypeOK, LoopInv, SpendIsShared, [Next]_vars
    PROVE  SpendIsShared'
<1>0. run \in [Worker -> Run] /\ setup.stage \in {"image", "prompt"}
  BY DEF TypeOK, Setup
<1>1. ASSUME setup' = setup, usage' = usage, run' = run PROVE SpendIsShared'
  <2>1. \A u \in Worker : Opened(u)' = Opened(u)
    BY <1>1 DEF Opened, Calls, Free
  <2> QED
    BY <1>1, <2>1, QuietSpend
<1>2. ASSUME NEW w \in Worker, WorkerNext(w), ~Commit(w) PROVE SpendIsShared'
  <2>1. \A u \in Worker \ {w} : run'[u] = run[u]
    BY <1>2, WorkerMovesAlone
  <2>2. setup' = setup /\ usage' = usage
    BY <1>2 DEF WorkerNext, BodyNext, Claim, BodyBegin, BodyRefuses, Find, Insert, Draw,
                Flush, Close, BudgetStops, ProviderFails, CompletionRefused, DeadlockAborts,
                FailBegin, FailCommit, Die, Keeps
  <2>3. \A u \in Worker \ {w} : Opened(u)' = Opened(u)
    BY <2>1, <2>2 DEF Opened, Calls, Free
  <2>4. ASSUME Opened(w)' \subseteq Opened(w), Opened(w)' # {} => run'[w].day = run[w].day
        PROVE  SpendIsShared'
    BY <2>1, <2>2, <2>3, <2>4, QuietSpend
  <2>5. ASSUME run'[w].wrote = {}, run'[w].scene = NoScene
        PROVE  SpendIsShared'
    <3>1. Opened(w)' = {}
      BY <2>5 DEF Opened, Calls
    <3> QED
      BY <2>4, <3>1
  <2>6. ASSUME Goes(w, Idle) PROVE SpendIsShared'
    <3>1. run'[w] = Idle
      BY <1>0, <2>6 DEF Goes
    <3> QED
      BY <2>5, <3>1 DEF Idle
  <2>7. ASSUME Raises(w) PROVE SpendIsShared'
    <3>1. run'[w] = [Idle EXCEPT !.at = "raised", !.job = run[w].job]
      BY <1>0, <2>7 DEF Goes, Raises
    <3> QED
      BY <2>5, <3>1 DEF Idle
  <2>8. ASSUME NEW j \in Job, Claim(w, j) PROVE SpendIsShared'
    <3>1. run'[w] = [Idle EXCEPT !.at = "claimed", !.job = j]
      BY <1>0, <2>8 DEF Goes, Claim
    <3> QED
      BY <2>5, <3>1 DEF Idle
  <2>9. ASSUME BodyBegin(w) PROVE SpendIsShared'
    <3>1. run'[w].wrote = {} /\ run'[w].scene = NoScene
      BY <1>0, <2>9 DEF Goes, BodyBegin, Idle
    <3> QED
      BY <2>5, <3>1
  <2>10. ASSUME FailBegin(w) PROVE SpendIsShared'
    <3>1. run'[w].wrote = {} /\ run'[w].scene = NoScene
      BY <1>0, <2>10 DEF Goes, FailBegin, Run, LoopInv, LoopOK, LoopIsInBody, InLoop
    <3> QED
      BY <2>5, <3>1
  <2>11. ASSUME (Insert(w) /\ Goes(w, HasRow(w, run[w].scene))) \/ Flush(w) \/ Close(w)
         PROVE  SpendIsShared'
    <3>1. /\ run'[w].wrote = run[w].wrote /\ run'[w].scene = run[w].scene
          /\ run'[w].day = run[w].day
      <4>1. CASE Insert(w) /\ Goes(w, HasRow(w, run[w].scene))
        BY <4>1, HasRowMoves DEF Insert, TakesUp, Stays, LoopInv, LoopOK, LoopIsInBody
      <4>2. CASE Flush(w) \/ Close(w)
        BY <4>2, FlushMoves, CloseMoves DEF Stays
      <4> QED
        BY <2>11, <4>1, <4>2
    <3>2. Opened(w)' = Opened(w)
      BY <2>2, <3>1 DEF Opened, Calls, Free
    <3> QED
      BY <2>4, <3>1, <3>2
  <2>12. ASSUME Find(w) PROVE SpendIsShared'
    <3>1. PICK x \in run[w].todo :
              /\ setup.stage = "image" => Free(x) \/ BudgetAllows(w, Cardinality(Calls(w)))
              /\ Takes(w, x)
      BY <2>12 DEF Find
    <3>2. /\ run[w].scene = NoScene /\ run'[w].wrote = run[w].wrote
          /\ run'[w].scene = x /\ run'[w].day = run[w].day /\ x \in Scene /\ x # NoScene
      BY <2>12, <3>1, FindMoves, FanoutAssumption
      DEF Find, TakesUp, Stays, LoopInv, LoopOK, LoopIsInBody
    <3>3. Opened(w) = Calls(w) /\ Calls(w)' = Calls(w)
      BY <2>2, <3>2 DEF Opened, Calls, Free
    <3>4. CASE setup.stage = "image" /\ ~Free(x)
      <4>1. Opened(w)' = Calls(w) \cup {x}
        BY <2>2, <3>2, <3>3, <3>4 DEF Opened, Free
      <4>2. Opened(w)' \subseteq Scene
        BY <3>2, <3>3, <4>1, OpenedTyped
      <4>3. setup.limit > 0 =>
               Cardinality(Rows(run[w].day)) + Cardinality(Opened(w)') <= Share
        BY <3>1, <3>4, <4>1, ImageIsAllowed, OneMoreCall
      <4> QED
        BY <2>1, <2>2, <3>2, <4>2, <4>3, PaySpend
    <3>5. CASE ~(setup.stage = "image" /\ ~Free(x))
      <4>1. Opened(w)' = Opened(w)
        BY <2>2, <3>2, <3>3, <3>5 DEF Opened, Free
      <4> QED
        BY <2>4, <3>2, <4>1
    <3> QED
      BY <3>4, <3>5
  <2>13. ASSUME Draw(w) PROVE SpendIsShared'
    <3>0. run[w].scene \in Scene
      BY <2>13 DEF Draw, LoopInv, LoopOK, LoopIsInBody
    <3>1. /\ run[w].scene \in Scene /\ run[w].scene # NoScene /\ run'[w].scene = NoScene
          /\ run'[w].wrote = run[w].wrote \cup {run[w].scene} /\ run'[w].day = run[w].day
      BY <2>13, <3>0, DrawMoves, FanoutAssumption DEF Stays
    <3>2. Opened(w)' = {x \in run[w].wrote \cup {run[w].scene} : ~Free(x)}
      BY <2>2, <3>1 DEF Opened, Calls, Free
    <3>3. CASE setup.stage = "image"
      <4>1. Opened(w)' = Opened(w)
        BY <3>1, <3>2, <3>3 DEF Opened, Calls
      <4> QED
        BY <2>4, <3>1, <4>1
    <3>4. CASE setup.stage = "prompt"
      <4>1. Opened(w)' = Calls(w) \cup {run[w].scene}
        BY <3>2, <3>4 DEF Calls, Free
      <4>2. Opened(w)' \subseteq Scene
        BY <3>1, <4>1, OpenedTyped
      <4>3. setup.limit > 0 =>
               Cardinality(Rows(run[w].day)) + Cardinality(Opened(w)') <= Share
        BY <2>13, <3>4, <4>1, PromptIsAllowed, OneMoreCall DEF Draw
      <4> QED
        BY <2>1, <2>2, <3>1, <4>2, <4>3, PaySpend
    <3> QED
      BY <1>0, <3>3, <3>4
  <2> QED
    BY <1>2, <2>6, <2>7, <2>8, <2>9, <2>10, <2>11, <2>12, <2>13
    DEF WorkerNext, BodyNext, BodyRefuses, Insert, BudgetStops, ProviderFails,
        CompletionRefused, DeadlockAborts, FailCommit, Die
<1>3. ASSUME NEW w \in Worker, Commit(w) PROVE SpendIsShared'
  BY <1>3, CommitSpend
<1>4. ASSUME ApiNext \/ DayPasses \/ UNCHANGED vars PROVE SpendIsShared'
  BY <1>1, <1>4 DEF ApiNext, RequestCreates, Release, Reject, ApproveRemaining,
                    ApproveSceneSet, DayPasses, vars
<1> QED
  BY <1>2, <1>3, <1>4 DEF Next

LEMMA CapIsNear == TypeOK /\ SpendIsShared => SpendNearCap
<1> SUFFICES ASSUME TypeOK, SpendIsShared, setup.limit > 0, NEW d \in 0 .. MaxDay
             PROVE  Cardinality(Rows(d)) <= Cardinality(Worker) * Share
  BY DEF SpendNearCap, Rows
<1>1. Cardinality(Rows(d)) \in Nat /\ Cardinality(InFlight(d)) \in Nat
  BY RowsAreSummed, InFlightTyped DEF SpendIsShared
<1>2. Cardinality(Rows(d)) + Cardinality(InFlight(d)) <= Cardinality(Worker) * Share
  BY DEF SpendIsShared
<1> QED
  BY <1>1, <1>2, ShareTyped

-----------------------------------------------------------------------------
(* The invariant, and what follows from it.                                *)

LEMMA InvInit == Init => IInv
<1> SUFFICES ASSUME Init PROVE IInv
  OBVIOUS
<1>1. TypeOK
  BY TypeInit
<1>0. JobsNameScenes
  BY DEF Init, JobsNameScenes
<1>2. \A w \in Worker : run[w] = Idle
  BY DEF Init
<1>3. LoopInv
  BY <1>2 DEF LoopInv, LoopOK, HasJob, LoopIsInBody, LoopIsForASet, LoopIsInOrder, InLoop,
              Ahead, Idle
<1>4. LocksAreExclusive
  BY <1>2 DEF LocksAreExclusive, Holds, Idle
<1>5. WholeOrNothing
  BY DEF Init, WholeOrNothing, VersionsBy, Absent
<1>6. SpinnersAreAnswered
  BY DEF Init, SpinnersAreAnswered, Absent
<1>7. SpendIsShared
  <2>1. \A w \in Worker : Opened(w) = {}
    BY <1>2 DEF Opened, Calls, Idle
  <2>2. \A d : InFlight(d) = {} /\ Rows(d) = {}
    BY <2>1 DEF Init, InFlight, Rows
  <2>3. IsFiniteSet(usage)
    BY EmptyHasNone DEF Init
  <2>4. \A w \in Worker : Cardinality(Opened(w)) = 0
    BY <2>1, EmptyHasNone
  <2>5. \A d : Cardinality(InFlight(d)) = 0 /\ Cardinality(Rows(d)) = 0
    BY <2>2, EmptyHasNone
  <2> QED
    BY <1>1, <2>3, <2>4, <2>5, ShareTyped DEF SpendIsShared
<1> QED
  BY <1>0, <1>1, <1>3, <1>4, <1>5, <1>6, <1>7 DEF IInv

LEMMA TypeStep ==
    ASSUME TypeOK, LoopInv, [Next]_vars
    PROVE  TypeOK'
<1>1. ASSUME UNCHANGED vars PROVE TypeOK'
  BY <1>1 DEF TypeOK, vars
<1> QED
  BY <1>1, ApiTyped, WorkerTyped DEF Next

(* The inductive invariant holds in every reachable state: every loop is   *)
(* the work of its job, row locks are exclusive, every spinner is answered *)
(* for, calls in flight are counted with the committed ones.               *)
THEOREM Invariance == Spec => []IInv
<1>1. Init => IInv
  BY InvInit
<1>2. IInv /\ [Next]_vars => IInv'
  BY TypeStep, NamesStep, LoopInvStep, LocksStep, WholeStep, SpinnersStep, SpendStep
  DEF IInv
<1> QED
  BY <1>1, <1>2, PTL DEF Spec

(* The columns, the rows and the workers keep their types.                 *)
THEOREM TypeCorrect == Spec => []TypeOK
<1>1. IInv => TypeOK
  BY DEF IInv
<1> QED
  BY <1>1, Invariance, PTL

(* A fan-out lands whole or not at all: a SUCCEEDED job has one version of *)
(* every scene it was for, any other job none (run_job commits the body    *)
(* and the completion in one transaction).                                 *)
THEOREM LandsWhole == Spec => []WholeOrNothing
<1>1. IInv => WholeOrNothing
  BY DEF IInv
<1> QED
  BY <1>1, Invariance, PTL

(* However many workers check the cap without seeing each other's open     *)
(* transactions, the recorded spend of a day stays within a share for each *)
(* of them (require_budget).                                               *)
THEOREM SpendStaysNear == Spec => []SpendNearCap
<1>1. IInv => SpendNearCap
  BY CapIsNear DEF IInv
<1> QED
  BY <1>1, Invariance, PTL

(* Whatever shows "Generating..." has a job that is queued or running for  *)
(* it (release, _fail_artifact and the commits of other jobs).             *)
THEOREM SpinnersHaveJobs == Spec => []GeneratingHasJob
<1>1. IInv => GeneratingHasJob
  BY DEF IInv, SpinnersAreAnswered, Answers, GeneratingHasJob
<1> QED
  BY <1>1, Invariance, PTL

(* However many fan-outs lock the same scenes, a ring of waits among them  *)
(* goes through the project row: artifact rows are taken in one order      *)
(* (for_approved_set, cards first, the manifest last).                     *)
THEOREM RingsNeedThePhase == Spec => []OnlyThePhaseDeadlocks
<1>1. IInv => OnlyThePhaseDeadlocks
  BY NoRing DEF IInv
<1> QED
  BY <1>1, Invariance, PTL
=============================================================================
