----------------------------- MODULE Lifecycles -----------------------------
(***************************************************************************)
(* The two finite-state machines every transition of the platform goes     *)
(* through: the artifact lifecycle (artifact_lifecycle.py) and the job     *)
(* lifecycle (job_lifecycle.py).  Both are tables in the source; both are  *)
(* indexed here by event, because in both of them an event has a single    *)
(* target whatever state it starts from.  A missing (state, event) pair is *)
(* the source's "illegal transition".                                      *)
(***************************************************************************)

ArtifactState == {"PENDING", "GENERATING", "AWAITING_APPROVAL", "APPROVED",
                  "REJECTED", "FAILED"}

JobStatus == {"QUEUED", "RUNNING", "SUCCEEDED", "FAILED", "CANCELLED", "ORPHANED"}

(* _TABLE of artifact_lifecycle.py, regrouped by event. *)
ArtifactTable ==
    [ GENERATION_STARTED   |-> [from |-> {"PENDING"}, to |-> "GENERATING"],
      GENERATION_SUCCEEDED |-> [from |-> {"GENERATING"}, to |-> "AWAITING_APPROVAL"],
      GENERATION_FAILED    |-> [from |-> {"GENERATING"}, to |-> "FAILED"],
      ORPHANED             |-> [from |-> {"GENERATING"}, to |-> "FAILED"],
      APPROVED             |-> [from |-> {"AWAITING_APPROVAL"}, to |-> "APPROVED"],
      REJECTED             |-> [from |-> {"AWAITING_APPROVAL"}, to |-> "REJECTED"],
      REGENERATE_REQUESTED |-> [from |-> {"AWAITING_APPROVAL", "REJECTED", "FAILED", "APPROVED"},
                                to |-> "GENERATING"],
      HUMAN_EDITED         |-> [from |-> ArtifactState \ {"GENERATING"},
                                to |-> "AWAITING_APPROVAL"] ]

(* apply_event: whether it raises, and where it lands when it does not. *)
MayApply(event, state) == state \in ArtifactTable[event].from
Target(event) == ArtifactTable[event].to

(* _TABLE of job_lifecycle.py, regrouped by event. *)
JobTable ==
    [ CLAIMED   |-> [from |-> {"QUEUED"}, to |-> "RUNNING"],
      SUCCEEDED |-> [from |-> {"RUNNING"}, to |-> "SUCCEEDED"],
      FAILED    |-> [from |-> {"RUNNING"}, to |-> "FAILED"],
      CANCELLED |-> [from |-> {"QUEUED", "RUNNING"}, to |-> "CANCELLED"],
      ORPHANED  |-> [from |-> {"RUNNING"}, to |-> "ORPHANED"],
      REQUEUED  |-> [from |-> {"FAILED", "ORPHANED"}, to |-> "QUEUED"] ]

MayApplyJob(event, status) == status \in JobTable[event].from
JobTarget(event) == JobTable[event].to

(* GenerationJob._DEAD_STATUSES: the statuses the partial unique index      *)
(* leaves out, so that the idempotency key becomes free again.              *)
DeadStatuses == {"FAILED", "CANCELLED", "ORPHANED"}
=============================================================================
