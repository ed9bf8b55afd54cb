------------------------------- MODULE Fanout -------------------------------
(***************************************************************************)
(* One job, many artifacts: the image and the prompt stage of a project.   *)
(*                                                                         *)
(* A job for the whole scene set (images.py, prompts_stage.py) writes one  *)
(* artifact per scene and closes the project-wide artifact it was asked    *)
(* for with a manifest; a job for one scene writes that scene's artifact.  *)
(* The whole body is one transaction: what it writes is invisible until it *)
(* commits, is lost when it raises, and the rows it has written are locked *)
(* meanwhile.  Before each paid call the body asks whether the day's spend *)
(* has reached the cap; the sum sees committed usage and its own.          *)
(*                                                                         *)
(* Every completion also recomputes the project's phase.  When it moves,   *)
(* the next flush updates the video_project row, which stays locked until  *)
(* the transaction ends, like the rows of the artifacts: runs wait for     *)
(* each other, and Postgres aborts one of those that wait in a ring.       *)
(*                                                                         *)
(* API transactions and the failure transaction's commit are single steps  *)
(* here: Generation and Review pull them apart.  Messages, retries and     *)
(* human edits are left to Generation.                                     *)
(***************************************************************************)
EXTENDS Naturals, FiniteSets, Sequences, Lifecycles

CONSTANTS Scene,       \* scenes, of every scene set the project will have
          Card,        \* the card scenes: drawn locally, free
          SceneIndex,  \* scene.index, the position of a scene in its set
          SceneSets,   \* the scene sets, in the order they get approved
          Job,         \* identities the generation_job table can hand out
          Worker,      \* worker processes
          Limit,       \* daily limits to consider, in paid calls; 0 is no cap
          MaxDay       \* bound: UTC days that pass

Absent == "ABSENT"
Trigger == "whole_set"
NoJob == "no_job"
NoScene == "no_scene"
Slot == Scene \cup {Trigger}

ASSUME FanoutAssumption ==
    /\ Trigger \notin Scene /\ NoScene \notin Scene
    /\ NoJob \notin Job
    /\ IsFiniteSet(Scene) /\ IsFiniteSet(Worker)
    /\ Card \subseteq Scene
    /\ SceneIndex \in [Scene -> Nat]
    /\ SceneSets \in Seq(SUBSET Scene) /\ SceneSets # <<>>
    \* UNIQUE (scene_set_id, index)
    /\ \A i \in 1 .. Len(SceneSets) : \A x, y \in SceneSets[i] :
          SceneIndex[x] = SceneIndex[y] => x = y
    \* a scene is a row of one version of the scene set
    /\ \A i, k \in 1 .. Len(SceneSets) : i # k => SceneSets[i] \cap SceneSets[k] = {}
    /\ Limit \subseteq Nat
    /\ MaxDay \in Nat

VARIABLES setup,              \* the stage, its approval policy, the daily limit
          approved_set,       \* which scene set is the approved one
          state,              \* artifact.state by slot; ABSENT before the row exists
          current_version_no, \* artifact.current_version_no by slot
          version,            \* rows of artifact_version
          job,                \* rows of generation_job
          usage,              \* committed rows of provider_usage, with their day
          day,                \* the database's UTC day
          refused,            \* days on which require_budget has refused a call
          run                 \* what each worker is doing

rows == <<state, current_version_no, version>>
vars == <<setup, approved_set, state, current_version_no, version, job, usage, day,
          refused, run>>

Setup == [stage : {"image", "prompt"}, auto : BOOLEAN, limit : Limit]
Version == [slot : Slot, version_no : Nat, job : Job]
JobRow == [status : JobStatus \cup {Absent}, slot : Slot, from_version_no : Nat,
           max_scenes : Nat]
UsageRow == [job : Job, slot : Scene, day : 0 .. MaxDay]

(* A worker: its place in run_job and in the loop over the scenes, the     *)
(* trigger's state as load_artifact found it, the scenes still to do, the  *)
(* loop's scene, those it has written, the day its transaction began, and  *)
(* the project row: untouched, to be written at the next flush, or written *)
(* and so locked.                                                          *)
Idle == [at |-> "idle", job |-> NoJob, seen |-> Absent, todo |-> {}, scene |-> NoScene,
         wrote |-> {}, day |-> 0, project |-> "clean"]
Run == [at : {"idle", "claimed", "body", "inserting", "flushing", "found", "closing",
              "raised", "failing"},
        job : Job \cup {NoJob}, seen : ArtifactState \cup {Absent}, todo : SUBSET Scene,
        scene : Scene \cup {NoScene}, wrote : SUBSET Scene, day : 0 .. MaxDay,
        project : {"clean", "dirty", "held"}]

Init ==
    /\ setup \in Setup
    /\ approved_set = 1
    /\ state = [x \in Slot |-> Absent]
    /\ current_version_no = [x \in Slot |-> 0]
    /\ version = {}
    /\ job = [j \in Job |-> [status |-> Absent, slot |-> Trigger, from_version_no |-> 0,
                             max_scenes |-> 0]]
    /\ usage = {}
    /\ day = 0
    /\ refused = {}
    /\ run = [w \in Worker |-> Idle]

-----------------------------------------------------------------------------
(* Queries.                                                                *)

Live(j) == job[j].status \in JobStatus \ DeadStatuses

(* live_by_idempotency_key(task, x, n). *)
Holders(x, n) == {j \in Job : Live(j) /\ job[j].slot = x /\ job[j].from_version_no + 1 = n}

(* The artifact rows a body holds until it ends: those it has given a      *)
(* version, the one it has just inserted for the scene it is drawing, and  *)
(* the one it closes.                                                      *)
Holds(w) ==
    LET r == run[w] IN
    r.wrote
      \cup {x \in {r.scene} \ {NoScene} : r.at \in {"found", "flushing"} /\ state[x] = Absent}
      \cup {x \in Slot : r.at = "closing" /\ x = job[r.job].slot}

HeldByOther(w, x) == \E u \in Worker \ {w} : x \in Holds(u)
Held(x) == \E w \in Worker : x \in Holds(w)

(* The video_project row. *)
HoldsProject(w) == run[w].project = "held"
ProjectHeldByOther(w) == \E u \in Worker \ {w} : HoldsProject(u)
ProjectHeld == \E w \in Worker : HoldsProject(w)

(* refresh_project_state after a completion: the phase depends on every    *)
(* artifact of the project and may have moved.                             *)
Refreshed(r, moves) ==
    [r EXCEPT !.project = IF @ = "clean" /\ moves THEN "dirty" ELSE @]

(* A flush: UPDATE video_project, where another run's may have to end. *)
Flushed(w, r) ==
    IF r.project # "dirty" THEN r
    ELSE IF ProjectHeldByOther(w) THEN [r EXCEPT !.at = "flushing"]
    ELSE [r EXCEPT !.project = "held"]

(* images_body: card scenes never reach a provider; prompts_body asks the  *)
(* LLM for every scene, cards included.                                    *)
Free(x) == setup.stage = "image" /\ x \in Card

(* How many scenes of the set for_approved_set returns before x. *)
Position(x, scenes) == Cardinality({y \in scenes : SceneIndex[y] < SceneIndex[x]})

(* scene_ref and max_scenes: the scenes of the set a job is for.           *)
(* prompts_body looks at neither of the two inputs.                        *)
Selected(j, scenes) ==
    {x \in scenes :
        \/ setup.stage = "prompt"
        \/ job[j].slot = x
        \/ job[j].slot = Trigger
           /\ (job[j].max_scenes = 0 \/ Position(x, scenes) < job[j].max_scenes)}

(* Cards before everything that costs, each group in scene order. *)
Before(x, y) ==
    \/ Free(x) /\ ~Free(y)
    \/ (Free(x) <=> Free(y)) /\ SceneIndex[x] < SceneIndex[y]

IsNext(x, scenes) == x \in scenes /\ \A y \in scenes \ {x} : Before(x, y)

(* The paid calls of a body: one for every scene it has written, but cards. *)
Calls(w) == {x \in run[w].wrote : ~Free(x)}

(* spend_today: committed rows stamped since the midnight before this      *)
(* transaction began.                                                      *)
SpentSince(d) == Cardinality({u \in usage : u.day >= d})

(* Mutant: require_budget sums the rows of finished runs only.             *)
BudgetAllowsCommitted(w, own) ==
    setup.limit = 0 \/ SpentSince(run[w].day) < setup.limit

(* require_budget, where "own" is what this transaction has flushed. *)
BudgetAllows(w, own) ==
    setup.limit = 0 \/ SpentSince(run[w].day) + own < setup.limit

(* images_body flushes after each scene; prompts_body flushes the previous *)
(* scene's usage row only when it has just inserted the next artifact.     *)
OwnSpend(w) ==
    LET paid == Cardinality(Calls(w)) IN
    IF setup.stage = "image" \/ state[run[w].scene] = Absent \/ paid = 0
    THEN paid ELSE paid - 1

-----------------------------------------------------------------------------
(* The API.                                                                *)

RequestEvent == [start |-> "GENERATION_STARTED", regenerate |-> "REGENERATE_REQUESTED"]
StateAsked(x) == IF state[x] = Absent THEN "PENDING" ELSE state[x]

(* POST /generations for the set, for its first scenes, or for one scene of *)
(* a set that is or was approved; a duplicate or a refusal writes nothing.  *)
RequestCreates(j, x, op, n) ==
    /\ job[j].status = Absent
    /\ x = Trigger \/ (n = 0 /\ \E i \in 1 .. approved_set : x \in SceneSets[i])
    /\ ~Held(x)
    /\ Holders(x, current_version_no[x] + 1) = {}
    /\ MayApply(RequestEvent[op], StateAsked(x))
    /\ job' = [job EXCEPT ![j] = [status |-> "QUEUED", slot |-> x, max_scenes |-> n,
                                  from_version_no |-> current_version_no[x]]]
    /\ state' = [state EXCEPT ![x] = Target(RequestEvent[op])]
    /\ UNCHANGED <<setup, approved_set, current_version_no, version, usage, day, refused, run>>

(* A worker's failure transaction has updated the job row already. *)
JobLocked(j) == \E w \in Worker : run[w].at = "failing" /\ run[w].job = j

(* POST /release: the holder of the key request would compute is cancelled, *)
(* and the artifact leaves GENERATING whether there is one or not.          *)
Release(x) ==
    LET found == {j \in Holders(x, current_version_no[x] + 1) :
                      MayApplyJob("CANCELLED", job[j].status)} IN
    /\ MayApply("ORPHANED", state[x])
    /\ ~Held(x)
    /\ \A j \in found : ~JobLocked(j)
    /\ job' = [j \in Job |-> IF j \in found
                             THEN [job[j] EXCEPT !.status = JobTarget("CANCELLED")]
                             ELSE job[j]]
    /\ state' = [state EXCEPT ![x] = Target("ORPHANED")]
    /\ UNCHANGED <<setup, approved_set, current_version_no, version, usage, day, refused, run>>

(* The contact sheet's batch: every tile of the approved set that can be   *)
(* approved, and the project-wide artifact with its manifest.              *)
Pending ==
    {x \in SceneSets[approved_set] \cup {Trigger} : MayApply("APPROVED", state[x])}

(* POST /reviews/approve-remaining, with the batch the sheet computed. *)
ApproveRemaining ==
    /\ Pending # {}
    /\ \A x \in Pending : ~Held(x)
    /\ Trigger \in Pending => ~ProjectHeld
    /\ state' = [x \in Slot |-> IF x \in Pending THEN Target("APPROVED") ELSE state[x]]
    /\ UNCHANGED <<setup, approved_set, current_version_no, version, job, usage, day,
                   refused, run>>

(* POST /reviews on one tile. *)
Reject(x) ==
    /\ MayApply("REJECTED", state[x])
    /\ ~Held(x)
    /\ state' = [state EXCEPT ![x] = Target("REJECTED")]
    /\ UNCHANGED <<setup, approved_set, current_version_no, version, job, usage, day,
                   refused, run>>

(* Another version of the scene set is approved: other scenes, other slots. *)
ApproveSceneSet ==
    /\ approved_set < Len(SceneSets)
    /\ ~ProjectHeld
    /\ approved_set' = approved_set + 1
    /\ UNCHANGED <<setup, rows, job, usage, day, refused, run>>

(* Only the cap looks at the day: without one, no midnight is taken. *)
DayPasses ==
    /\ setup.limit # 0
    /\ day < MaxDay
    /\ day' = day + 1
    /\ UNCHANGED <<setup, approved_set, rows, job, usage, refused, run>>

-----------------------------------------------------------------------------
(* The worker.                                                             *)

Goes(w, r) == run' = [run EXCEPT ![w] = r]
Raises(w) == Goes(w, [Idle EXCEPT !.at = "raised", !.job = run[w].job])
Keeps == UNCHANGED <<setup, approved_set, rows, job, usage, day, refused>>

Claim(w, j) ==
    /\ run[w].at = "idle"
    /\ MayApplyJob("CLAIMED", job[j].status)
    /\ job' = [job EXCEPT ![j].status = JobTarget("CLAIMED")]
    /\ Goes(w, [Idle EXCEPT !.at = "claimed", !.job = j])
    /\ UNCHANGED <<setup, approved_set, rows, usage, day, refused>>

(* load_artifact and for_approved_set: the rest of the body uses what they *)
(* returned.                                                               *)
BodyBegin(w) ==
    LET j == run[w].job IN
    /\ run[w].at = "claimed"
    /\ Goes(w, [Idle EXCEPT !.at = "body", !.job = j, !.seen = state[job[j].slot],
                            !.day = day,
                            !.todo = Selected(j, SceneSets[approved_set])])
    /\ Keeps

(* "scene ... is not in the approved scene set": the set has moved on. *)
BodyRefuses(w) ==
    /\ run[w].at = "body" /\ run[w].todo = {} /\ run[w].wrote = {}
    /\ Raises(w)
    /\ Keeps

(* The scene's row is there, found or inserted.  The flush that inserts it *)
(* writes the project row too, if an earlier scene has moved the phase:    *)
(* prompts_body has not flushed since.                                     *)
HasRow(w, x) ==
    LET r == [run[w] EXCEPT !.at = "found", !.scene = x, !.todo = @ \ {x}] IN
    IF state[x] = Absent THEN Flushed(w, r) ELSE r

Takes(w, x) ==
    Goes(w, IF state[x] = Absent /\ HeldByOther(w, x)
            THEN [run[w] EXCEPT !.at = "inserting", !.scene = x, !.todo = @ \ {x}]
            ELSE HasRow(w, x))

(* Mutant: for_approved_set forgets its ORDER BY.                          *)
FindUnordered(w) ==
    /\ run[w].at = "body"
    /\ \E x \in run[w].todo :
          /\ setup.stage = "image" => Free(x) \/ BudgetAllows(w, Cardinality(Calls(w)))
          /\ Takes(w, x)
    /\ Keeps

(* The next scene: its artifact is found, or inserted; an insert waits for *)
(* another transaction that is inserting the same row.                     *)
Find(w) ==
    /\ run[w].at = "body"
    /\ \E x \in run[w].todo :
          /\ IsNext(x, run[w].todo)
          /\ setup.stage = "image" => Free(x) \/ BudgetAllows(w, Cardinality(Calls(w)))
          /\ Takes(w, x)
    /\ Keeps

(* The other one is over.  When it committed, the row is a duplicate. *)
Insert(w) ==
    /\ run[w].at = "inserting"
    /\ ~HeldByOther(w, run[w].scene)
    /\ IF state[run[w].scene] = Absent
       THEN Goes(w, HasRow(w, run[w].scene))
       ELSE Raises(w)
    /\ Keeps

(* The provider answers and the version is written: complete_generation,   *)
(* or complete_stored_generation after the object is stored.  A card costs *)
(* nothing.  images_body flushes after every scene; prompts_body leaves    *)
(* the phase to the flush inside the next version's write.                 *)
Draw(w) ==
    /\ run[w].at = "found"
    /\ setup.stage = "prompt" => BudgetAllows(w, OwnSpend(w))
    /\ ~HeldByOther(w, run[w].scene)
    /\ \E moves \in BOOLEAN :
          LET r == [run[w] EXCEPT !.at = "body", !.scene = NoScene,
                                  !.wrote = @ \cup {run[w].scene}] IN
          Goes(w, IF setup.stage = "image" THEN Flushed(w, Refreshed(r, moves))
                                           ELSE Refreshed(Flushed(w, r), moves))
    /\ Keeps

(* The run that had updated the project row is over. *)
Flush(w) ==
    /\ run[w].at = "flushing"
    /\ ~ProjectHeldByOther(w)
    /\ Goes(w, [run[w] EXCEPT !.at = IF run[w].scene = NoScene THEN "body" ELSE "found",
                              !.project = "held"])
    /\ Keeps

(* require_budget raises. *)
BudgetStops(w) ==
    /\ \/ /\ run[w].at = "body" /\ setup.stage = "image"
          /\ \E x \in run[w].todo : IsNext(x, run[w].todo) /\ ~Free(x)
          /\ ~BudgetAllows(w, Cardinality(Calls(w)))
       \/ run[w].at = "found" /\ setup.stage = "prompt" /\ ~BudgetAllows(w, OwnSpend(w))
    /\ refused' = refused \cup {run[w].day}
    /\ Raises(w)
    /\ UNCHANGED <<setup, approved_set, rows, job, usage, day>>

(* The provider raises, storage refuses, a template is missing. *)
ProviderFails(w) ==
    /\ run[w].at \in {"body", "found"}
    /\ Raises(w)
    /\ Keeps

(* Who closes the project-wide artifact: the whole-set image run, and any  *)
(* prompt run.                                                             *)
Closes(j) == setup.stage = "prompt" \/ job[j].slot = Trigger

(* An artifact the loop has written already is not generating any more     *)
(* when the end of the body completes it again.                            *)
MayClose(w) ==
    /\ job[run[w].job].slot \notin run[w].wrote
    /\ MayApply("GENERATION_SUCCEEDED", run[w].seen)

AtEnd(w) == run[w].at = "body" /\ run[w].todo = {} /\ run[w].wrote # {}

(* approve_without_human sets the project's pointer, but not for a scene. *)
Points(x) == setup.auto /\ x = Trigger

(* The manifest becomes a version of the job's artifact. *)
Close(w) ==
    LET x == job[run[w].job].slot IN
    /\ AtEnd(w) /\ Closes(run[w].job) /\ MayClose(w)
    /\ ~HeldByOther(w, x)
    /\ \E moves \in BOOLEAN :
          Goes(w, Refreshed([run[w] EXCEPT !.at = "closing"], moves \/ Points(x)))
    /\ Keeps

(* The body has returned. *)
Ended(w) == run[w].at = "closing" \/ (AtEnd(w) /\ ~Closes(run[w].job))

(* What is left to flush at the commit. *)
ProjectIsFree(w) == run[w].project = "dirty" => ~ProjectHeldByOther(w)

Written(w) ==
    run[w].wrote \cup (IF Closes(run[w].job) THEN {job[run[w].job].slot} ELSE {})

(* _maybe_auto_approve, and approve_without_human for a card. *)
Finished(x) == Target(IF setup.auto \/ Free(x) THEN "APPROVED" ELSE "GENERATION_SUCCEEDED")

(* Mutant: mark_succeeded's result is ignored.                             *)
CommitAnyway(w) ==
    LET j == run[w].job IN
    /\ Ended(w)
    /\ ProjectIsFree(w)
    /\ state' = [x \in Slot |-> IF x \in Written(w) THEN Finished(x) ELSE state[x]]
    /\ current_version_no' = [x \in Slot |-> current_version_no[x] +
                                             (IF x \in Written(w) THEN 1 ELSE 0)]
    /\ version' = version \cup
          {[slot |-> x, version_no |-> current_version_no[x] + 1, job |-> j] : x \in Written(w)}
    /\ job' = [job EXCEPT ![j].status = IF MayApplyJob("SUCCEEDED", @)
                                        THEN JobTarget("SUCCEEDED") ELSE @]
    /\ usage' = usage \cup {[job |-> j, slot |-> x, day |-> run[w].day] : x \in Calls(w)}
    /\ Goes(w, Idle)
    /\ UNCHANGED <<setup, approved_set, day, refused>>

(* Everything the body has written becomes visible at once, with the job.  *)
Commit(w) ==
    LET j == run[w].job IN
    /\ Ended(w)
    /\ MayApplyJob("SUCCEEDED", job[j].status)
    /\ ProjectIsFree(w)
    /\ state' = [x \in Slot |-> IF x \in Written(w) THEN Finished(x) ELSE state[x]]
    /\ current_version_no' = [x \in Slot |-> current_version_no[x] +
                                             (IF x \in Written(w) THEN 1 ELSE 0)]
    /\ version' = version \cup
          {[slot |-> x, version_no |-> current_version_no[x] + 1, job |-> j] : x \in Written(w)}
    /\ job' = [job EXCEPT ![j].status = JobTarget("SUCCEEDED")]
    /\ usage' = usage \cup {[job |-> j, slot |-> x, day |-> run[w].day] : x \in Calls(w)}
    /\ Goes(w, Idle)
    /\ UNCHANGED <<setup, approved_set, day, refused>>

CompletionRefused(w) ==
    /\ \/ AtEnd(w) /\ Closes(run[w].job) /\ ~MayClose(w)
       \/ Ended(w) /\ ~MayApplyJob("SUCCEEDED", job[run[w].job].status)
    /\ Raises(w)
    /\ Keeps

-----------------------------------------------------------------------------
(* Waiting.                                                                *)

(* The artifact row a run asks for next: its scene's, or the one it closes. *)
Wants(w) ==
    {x \in {run[w].scene} \ {NoScene} : run[w].at \in {"inserting", "found"}}
      \cup {x \in Slot : AtEnd(w) /\ Closes(run[w].job) /\ x = job[run[w].job].slot}

WaitsForArtifact(w, u) == u # w /\ Wants(w) \cap Holds(u) # {}

WaitsForProject(w, u) ==
    /\ u # w /\ HoldsProject(u)
    /\ \/ run[w].at = "flushing"
       \/ run[w].at = "closing" /\ run[w].project = "dirty"

WaitsFor(w, u) == WaitsForArtifact(w, u) \/ WaitsForProject(w, u)

Ring(ring) == ring # {} /\ \A w \in ring : \E u \in ring : WaitsFor(w, u)

(* Postgres aborts a transaction of a ring of waits: an error in the body. *)
DeadlockAborts(w) ==
    /\ \E ring \in SUBSET Worker : w \in ring /\ Ring(ring)
    /\ Raises(w)
    /\ Keeps

-----------------------------------------------------------------------------

(* Third transaction: mark_failed, guarded; _fail_artifact reads the job's *)
(* own artifact and no other, and writes what it read as GENERATING.       *)
FailBegin(w) ==
    /\ run[w].at = "raised"
    /\ Goes(w, [run[w] EXCEPT !.at = "failing", !.seen = state[job[run[w].job].slot]])
    /\ Keeps

(* Mutant: run_job fails the job and leaves the artifact to nobody.        *)
FailCommitJobOnly(w) ==
    LET j == run[w].job IN
    /\ run[w].at = "failing"
    /\ job' = [job EXCEPT ![j].status = IF MayApplyJob("FAILED", @) THEN "FAILED" ELSE @]
    /\ Goes(w, Idle)
    /\ UNCHANGED <<setup, approved_set, rows, usage, day, refused>>

FailCommit(w) ==
    LET j == run[w].job
        x == job[j].slot
        fails == MayApply("GENERATION_FAILED", run[w].seen) IN
    /\ run[w].at = "failing"
    /\ fails => ~HeldByOther(w, x)
    /\ job' = [job EXCEPT ![j].status = IF MayApplyJob("FAILED", @) THEN JobTarget("FAILED")
                                        ELSE @]
    /\ state' = IF fails THEN [state EXCEPT ![x] = Target("GENERATION_FAILED")] ELSE state
    /\ Goes(w, Idle)
    /\ UNCHANGED <<setup, approved_set, current_version_no, version, usage, day, refused>>

(* The process is killed: its open transaction rolls back. *)
Die(w) ==
    /\ run[w].at # "idle"
    /\ Goes(w, Idle)
    /\ Keeps

-----------------------------------------------------------------------------
ApiNext ==
    \/ \E j \in Job, x \in Slot, op \in {"start", "regenerate"}, n \in {0, 1} :
          RequestCreates(j, x, op, n)
    \/ \E x \in Slot : Release(x) \/ Reject(x)
    \/ ApproveRemaining
    \/ ApproveSceneSet

BodyNext(w) ==
    \/ BodyBegin(w)
    \/ BodyRefuses(w)
    \/ Find(w)
    \/ Insert(w)
    \/ Draw(w)
    \/ Flush(w)
    \/ BudgetStops(w)
    \/ ProviderFails(w)
    \/ Close(w)
    \/ Commit(w)
    \/ CompletionRefused(w)
    \/ DeadlockAborts(w)

WorkerNext(w) ==
    \/ \E j \in Job : Claim(w, j)
    \/ BodyNext(w)
    \/ FailBegin(w)
    \/ FailCommit(w)
    \/ Die(w)

Next == ApiNext \/ DayPasses \/ \E w \in Worker : WorkerNext(w)

Spec == Init /\ [][Next]_vars

-----------------------------------------------------------------------------
(* Properties.                                                             *)

TypeOK ==
    /\ setup \in Setup
    /\ approved_set \in 1 .. Len(SceneSets)
    /\ state \in [Slot -> ArtifactState \cup {Absent}]
    /\ current_version_no \in [Slot -> Nat]
    /\ version \subseteq Version
    /\ job \in [Job -> JobRow]
    /\ usage \subseteq UsageRow
    /\ day \in 0 .. MaxDay
    /\ refused \subseteq 0 .. MaxDay
    /\ run \in [Worker -> Run]

VersionsBy(j) == {v \in version : v.job = j}

(* What a job that succeeds must have written, for a scene set. *)
Owed(j, scenes) ==
    Selected(j, scenes) \cup (IF Closes(j) THEN {job[j].slot} ELSE {})

(* A fan-out lands whole or not at all, although it writes one artifact at *)
(* a time for minutes, is released, killed, refused by the budget and run  *)
(* again meanwhile: a SUCCEEDED job has exactly one version of every scene *)
(* it was for, and of the manifest when it closes the set; a job in any    *)
(* other status has none (run_job: body and completion in one transaction).*)
WholeOrNothing ==
    \A j \in Job :
        IF job[j].status = "SUCCEEDED"
        THEN \E i \in 1 .. approved_set :
                /\ {v.slot : v \in VersionsBy(j)} = Owed(j, SceneSets[i])
                /\ \A v1, v2 \in VersionsBy(j) : v1.slot = v2.slot => v1 = v2
        ELSE VersionsBy(j) = {}

(* What a run may have spent when the cap stops it. *)
Share == setup.limit + (IF setup.stage = "prompt" THEN 1 ELSE 0)

(* The recorded spend of a day cannot pass the cap by more than the runs   *)
(* in flight can each spend unseen: one whole limit per further worker     *)
(* (and, for prompts, one call that is not flushed when the next is        *)
(* checked).  The sum require_budget reads leaves out what others have     *)
(* open.                                                                   *)
SpendNearCap ==
    setup.limit > 0 =>
        \A d \in 0 .. MaxDay :
            Cardinality({u \in usage : u.day = d}) <= Cardinality(Worker) * Share

(* A scene or a set that shows "Generating..." has a job that is queued or *)
(* running for it: whatever a job for the whole set, a job for that scene, *)
(* a release and a failure commit in between (images.py:455 moves scene    *)
(* artifacts without asking the lifecycle).                                *)
GeneratingHasJob ==
    \A x \in Slot :
        state[x] = "GENERATING" =>
            \E j \in Job : job[j].slot = x /\ job[j].status \in {"QUEUED", "RUNNING"}

(* Two fan-outs over the same scenes, as a released job and its successor  *)
(* are, lock rows for minutes.  Every run takes artifact rows in the one   *)
(* order for_approved_set, the cards-first split and the closing manifest  *)
(* give it, so a ring of waits, which costs one of them all it has drawn,  *)
(* needs the project row: a run that holds it and goes on to a scene, and  *)
(* one that has drawn that scene and is about to write the phase.          *)
OnlyThePhaseDeadlocks ==
    \A ring \in SUBSET Worker :
        Ring(ring) => \E w, u \in ring : WaitsForProject(w, u)

(* The message of the refusal: "no further calls will be made today".      *)
RefusalEndsTheDay ==
    [][\A w \in Worker :
          Calls(w)' \subseteq Calls(w) \/ run[w].day \notin refused]_vars
=============================================================================
