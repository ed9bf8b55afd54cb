----------------------------- MODULE Migrations -----------------------------
(***************************************************************************)
(* The Alembic chain of database/migrations/versions: what each revision's *)
(* upgrade and downgrade do to the catalogue.  Revision 0 is the empty     *)
(* baseline 3a471aac7638; revision n is the n-th file after it.            *)
(***************************************************************************)
EXTENDS Catalog, Naturals

(***************************************************************************)
(* 1  747ca6bd5ff6  core schema                                            *)
(***************************************************************************)
_ENUM_TYPES ==
    [user_role |-> {"OWNER", "EDITOR", "VIEWER"},
     project_phase |->
        {"DRAFT", "RESEARCHING", "RESEARCH_REVIEW", "SCRIPTING", "SCRIPT_REVIEW",
         "SCENING", "SCENES_REVIEW", "MEDIA_GENERATION", "MEDIA_REVIEW",
         "TIMELINE_READY", "RENDERING", "RENDER_REVIEW", "PACKAGING",
         "READY_TO_PUBLISH", "PUBLISHED"},
     artifact_kind |->
        {"research", "script", "scene_set", "scene", "prompt", "image", "voice",
         "timeline", "render", "package", "music"},
     artifact_state |->
        {"PENDING", "GENERATING", "AWAITING_APPROVAL", "APPROVED", "REJECTED", "FAILED"},
     version_origin |-> {"generated", "human_edit", "import"},
     job_status |-> {"QUEUED", "RUNNING", "SUCCEEDED", "FAILED", "CANCELLED", "ORPHANED"},
     review_decision_kind |-> {"APPROVE", "REJECT"},
     subject_type |-> {"project_phase", "artifact", "job"},
     transition_cause |->
        {"job_succeeded", "job_failed", "review", "edit", "system", "reconciler"}]

_IMMUTABLE_TABLES ==
    {"artifact_version", "review_decision", "state_transition", "audit_event",
     "provider_usage"}

outbox_event ==
    Table(Kept \cup {"event_type", "payload", "correlation_id", "published_at"},
          {"correlation_id", "published_at"}, {}, {}, {})

workspace == Table(Mutable \cup {"name", "settings"}, {}, {}, {}, {})

app_user ==
    Table(Mutable \cup {"workspace_id", "email", "display_name", "role"}, {},
          {Fk("workspace_id", "workspace", "CASCADE")},
          {Unique({"workspace_id", "email"})}, {})

series ==
    Table(Mutable \cup {"workspace_id", "title", "style_preset", "voice_preset",
                        "music_policy", "hashtag_template", "auto_approve_policy"},
          {"hashtag_template"},
          {Fk("workspace_id", "workspace", "CASCADE")}, {}, {})

audit_event ==
    Table(Kept \cup {"event_type", "subject_type", "subject_id", "actor_id", "payload",
                     "correlation_id"},
          {"actor_id", "correlation_id"},
          {Fk("actor_id", "app_user", "SET_NULL")}, {}, {})

video_project ==
    Table(Mutable \cup {"workspace_id", "series_id", "topic", "title", "phase",
                        "phase_updated_at", "active_pointers", "settings"},
          {"series_id", "title"},
          {Fk("workspace_id", "workspace", "CASCADE"), Fk("series_id", "series", "SET_NULL")},
          {}, {})

artifact ==
    Table(Mutable \cup {"project_id", "kind", "scene_ref", "state", "current_version_no",
                        "stale_since"},
          {"scene_ref", "stale_since"},
          {Fk("project_id", "video_project", "CASCADE")},
          {UniqueNulls({"project_id", "kind", "scene_ref"})}, {})

generation_job ==
    Table(Mutable \cup {"project_id", "artifact_id", "task_name", "queue", "status",
                        "attempt", "max_attempts", "celery_task_id", "input_snapshot",
                        "error", "idempotency_key", "queued_at", "started_at",
                        "finished_at"},
          {"artifact_id", "celery_task_id", "error", "started_at", "finished_at"},
          {Fk("project_id", "video_project", "CASCADE"),
           Fk("artifact_id", "artifact", "CASCADE")},
          {Unique({"idempotency_key"})},
          {"attempt_non_negative", "max_attempts_positive"})

artifact_version ==
    Table(Kept \cup {"artifact_id", "version_no", "origin", "generation_job_id",
                     "parent_version_id", "storage_key", "content_hash", "inline_content",
                     "meta", "prompt_template_ref", "provider_ref", "created_by"},
          {"generation_job_id", "parent_version_id", "storage_key", "inline_content",
           "prompt_template_ref", "provider_ref", "created_by"},
          {Fk("artifact_id", "artifact", "CASCADE"), Fk("created_by", "app_user", "SET_NULL"),
           Fk("generation_job_id", "generation_job", "SET_NULL"),
           Fk("parent_version_id", "artifact_version", "SET_NULL")},
          {Unique({"artifact_id", "version_no"})},
          {"content_in_exactly_one_place", "version_no_positive", "parent_is_not_self"})

provider_usage ==
    Table(Kept \cup {"job_id", "provider", "model", "operation", "input_tokens",
                     "output_tokens", "images", "audio_seconds", "unit_cost_estimate",
                     "latency_ms", "raw_meta"},
          {"input_tokens", "output_tokens", "images", "audio_seconds"},
          {Fk("job_id", "generation_job", "CASCADE")}, {}, {})

state_transition ==
    Table(Kept \cup {"subject_type", "subject_id", "from_state", "to_state", "cause",
                     "actor_id", "job_id", "correlation_id"},
          {"from_state", "actor_id", "job_id", "correlation_id"},
          {Fk("actor_id", "app_user", "SET_NULL"), Fk("job_id", "generation_job", "SET_NULL")},
          {}, {})

comment ==
    Table(Mutable \cup {"artifact_version_id", "author_id", "body", "anchor"},
          {"author_id", "anchor"},
          {Fk("artifact_version_id", "artifact_version", "CASCADE"),
           Fk("author_id", "app_user", "SET_NULL")}, {}, {})

review_decision ==
    Table(Kept \cup {"artifact_version_id", "decision", "comment", "reviewer_id",
                     "decided_at"},
          {"comment", "reviewer_id"},
          {Fk("artifact_version_id", "artifact_version", "CASCADE"),
           Fk("reviewer_id", "app_user", "SET_NULL")}, {}, {})

CoreTables ==
    [outbox_event |-> outbox_event, workspace |-> workspace, app_user |-> app_user,
     series |-> series, audit_event |-> audit_event, video_project |-> video_project,
     artifact |-> artifact, generation_job |-> generation_job,
     artifact_version |-> artifact_version, provider_usage |-> provider_usage,
     state_transition |-> state_transition, comment |-> comment,
     review_decision |-> review_decision]

core_schema_upgrade(c) ==
    [Guard(CreateTables(CreateTypes(c, _ENUM_TYPES), CoreTables), _IMMUTABLE_TABLES)
        EXCEPT !.view = @ \cup {"artifact_version_status"}]

core_schema_downgrade(c) ==
    [DropTypes(DropTables(Unguard(c, _IMMUTABLE_TABLES), DOMAIN CoreTables),
               DOMAIN _ENUM_TYPES)
        EXCEPT !.view = @ \ {"artifact_version_status"}]

(***************************************************************************)
(* 2  83fa1410a747  immutable tables never use ON DELETE SET NULL          *)
(***************************************************************************)

(* Mutant: the reference of state_transition to its actor is forgotten.    *)
immutable_fks_upgrade_forgets(c) ==
    LET v == AddFks(DropFks(c, "artifact_version",
                            {"parent_version_id", "created_by", "generation_job_id"}),
                    "artifact_version",
                    {Fk("parent_version_id", "artifact_version", "CASCADE"),
                     Fk("generation_job_id", "generation_job", "CASCADE")})
        s == AddFks(DropFks(v, "state_transition", {"job_id"}), "state_transition",
                    {Fk("job_id", "generation_job", "CASCADE")})
    IN  DropFks(DropFks(s, "audit_event", {"actor_id"}), "review_decision", {"reviewer_id"})

(* Mutant: the author of a version is kept as a cascading reference.       *)
immutable_fks_upgrade_cascades(c) ==
    LET v == AddFks(DropFks(c, "artifact_version",
                            {"parent_version_id", "created_by", "generation_job_id"}),
                    "artifact_version",
                    {Fk("parent_version_id", "artifact_version", "CASCADE"),
                     Fk("created_by", "app_user", "CASCADE"),
                     Fk("generation_job_id", "generation_job", "CASCADE")})
        s == AddFks(DropFks(v, "state_transition", {"actor_id", "job_id"}),
                    "state_transition", {Fk("job_id", "generation_job", "CASCADE")})
    IN  DropFks(DropFks(s, "audit_event", {"actor_id"}), "review_decision", {"reviewer_id"})

immutable_fks_upgrade(c) ==
    LET v == AddFks(DropFks(c, "artifact_version",
                            {"parent_version_id", "created_by", "generation_job_id"}),
                    "artifact_version",
                    {Fk("parent_version_id", "artifact_version", "CASCADE"),
                     Fk("generation_job_id", "generation_job", "CASCADE")})
        s == AddFks(DropFks(v, "state_transition", {"actor_id", "job_id"}),
                    "state_transition", {Fk("job_id", "generation_job", "CASCADE")})
    IN  DropFks(DropFks(s, "audit_event", {"actor_id"}), "review_decision", {"reviewer_id"})

(* Mutant: the reference of audit_event to its actor is not restored.      *)
immutable_fks_downgrade_forgets(c) ==
    LET s == AddFks(DropFks(c, "state_transition", {"job_id"}), "state_transition",
                    {Fk("job_id", "generation_job", "SET_NULL"),
                     Fk("actor_id", "app_user", "SET_NULL")})
        d == AddFks(s, "review_decision", {Fk("reviewer_id", "app_user", "SET_NULL")})
    IN  AddFks(DropFks(d, "artifact_version", {"generation_job_id", "parent_version_id"}),
               "artifact_version",
               {Fk("generation_job_id", "generation_job", "SET_NULL"),
                Fk("created_by", "app_user", "SET_NULL"),
                Fk("parent_version_id", "artifact_version", "SET_NULL")})

immutable_fks_downgrade(c) ==
    LET s == AddFks(DropFks(c, "state_transition", {"job_id"}), "state_transition",
                    {Fk("job_id", "generation_job", "SET_NULL"),
                     Fk("actor_id", "app_user", "SET_NULL")})
        d == AddFks(s, "review_decision", {Fk("reviewer_id", "app_user", "SET_NULL")})
        e == AddFks(d, "audit_event", {Fk("actor_id", "app_user", "SET_NULL")})
    IN  AddFks(DropFks(e, "artifact_version", {"generation_job_id", "parent_version_id"}),
               "artifact_version",
               {Fk("generation_job_id", "generation_job", "SET_NULL"),
                Fk("created_by", "app_user", "SET_NULL"),
                Fk("parent_version_id", "artifact_version", "SET_NULL")})

(***************************************************************************)
(* 3  20bbda6ac985  drop series.style_preset                               *)
(***************************************************************************)

(* Mutant: the column is kept.                                             *)
style_preset_upgrade_keeps(c) == c

style_preset_upgrade(c) == DropColumns(c, "series", {"style_preset"})
style_preset_downgrade(c) == AddColumns(c, "series", {"style_preset"}, {})

(***************************************************************************)
(* 4  d9f8efce2586  scene_set and scene, artifact.scene_ref                *)
(***************************************************************************)
scene_set ==
    Table(Kept \cup {"artifact_version_id", "script_version_id"}, {},
          {Fk("artifact_version_id", "artifact_version", "CASCADE"),
           Fk("script_version_id", "artifact_version", "CASCADE")},
          {Unique({"artifact_version_id"})}, {})

scene ==
    Table(Kept \cup {"scene_set_id", "index", "narration_text", "visual_brief",
                     "target_duration_ms"}, {},
          {Fk("scene_set_id", "scene_set", "CASCADE")},
          {Unique({"scene_set_id", "index"})},
          {"index_is_one_based", "duration_is_positive"})

_NEW_IMMUTABLE_TABLES == {"scene_set", "scene"}

scenes_upgrade(c) ==
    Guard(AddFks(CreateTables(c, [scene_set |-> scene_set, scene |-> scene]),
                 "artifact", {Fk("scene_ref", "scene", "CASCADE")}),
          _NEW_IMMUTABLE_TABLES)

scenes_downgrade(c) ==
    DropTables(DropFks(Unguard(c, _NEW_IMMUTABLE_TABLES), "artifact", {"scene_ref"}),
               {"scene", "scene_set"})

(***************************************************************************)
(* 5  16dae6463a8a  a dead job must not hold its idempotency key           *)
(* 6  82d7b9b94a67  data only (Schema!Repaired)                            *)
(***************************************************************************)
live_key_upgrade(c) ==
    SetUniques(c, "generation_job", {UniqueAmong("live", {"idempotency_key"})})
live_key_downgrade(c) ==
    SetUniques(c, "generation_job", {Unique({"idempotency_key"})})

(***************************************************************************)
(* 7  cb5ec31b3165  series branding                                        *)
(***************************************************************************)
_BRANDING_STATUS_LABELS == {"PENDING", "AWAITING_APPROVAL", "APPROVED", "SUPERSEDED"}
_NEW_SUBJECT_TYPES == {"series_character", "series_style"}

series_character ==
    Table(Mutable \cup {"series_id", "version_no", "name", "immutable_traits",
                        "variable_traits", "status", "approved_reference_group_id"},
          {"approved_reference_group_id"},
          {Fk("series_id", "series", "CASCADE")},
          {Unique({"series_id", "version_no"}), UniqueAmong("approved", {"series_id"})}, {})

series_style ==
    Table(Mutable \cup {"series_id", "version_no", "name", "fields", "prompt_block", "status"},
          {},
          {Fk("series_id", "series", "CASCADE")},
          {Unique({"series_id", "version_no"}), UniqueAmong("approved", {"series_id"})}, {})

character_reference ==
    Table(Mutable \cup {"character_id", "group_id", "index", "storage_key", "content_hash",
                        "mime_type", "width", "height", "pose", "angle", "expression",
                        "shot_type", "generation_job_id", "generation_snapshot"},
          {"generation_job_id"},
          {Fk("character_id", "series_character", "CASCADE")},
          {Unique({"group_id", "index"})}, {})

BrandingTables ==
    [series_character |-> series_character, series_style |-> series_style,
     character_reference |-> character_reference]

branding_upgrade(c) ==
    CreateTables(AddLabels(CreateTypes(c, [branding_status |-> _BRANDING_STATUS_LABELS]),
                           "subject_type", _NEW_SUBJECT_TYPES),
                 BrandingTables)

(* The labels stay: PostgreSQL has no ALTER TYPE ... DROP VALUE.           *)
branding_downgrade(c) ==
    DropTypes(DropTables(c, DOMAIN BrandingTables), {"branding_status"})

(***************************************************************************)
(* 8  9de46eb84901  pin branding versions on video_project                 *)
(***************************************************************************)
Pins == {"character_version_id", "style_version_id"}
pins_upgrade(c) == AddColumns(c, "video_project", Pins, Pins)
pins_downgrade(c) == DropColumns(c, "video_project", Pins)

(***************************************************************************)
(* 9  40baa694d406  series-scoped generation jobs                          *)
(***************************************************************************)
series_jobs_upgrade(c) ==
    LET wide == AddColumns(c, "generation_job", {"series_id"}, {"series_id", "project_id"})
        owned == AddFks(wide, "generation_job", {Fk("series_id", "series", "CASCADE")})
    IN  AddChecks(owned, "generation_job", {"scope"})

series_jobs_downgrade(c) ==
    LET free == DropFks(DropChecks(c, "generation_job", {"scope"}), "generation_job",
                        {"series_id"})
    IN  DropColumns(SetNotNull(free, "generation_job", {"project_id"}),
                    "generation_job", {"series_id"})

(***************************************************************************)
(* 10  7c1e4a09b2d3  structured rejection reasons                          *)
(***************************************************************************)
reasons_upgrade(c) == AddColumns(c, "review_decision", {"reasons"}, {})
reasons_downgrade(c) == DropColumns(c, "review_decision", {"reasons"})

(***************************************************************************)
(* 11  a1f4c8d90e21  scene kind: illustration or card                      *)
(***************************************************************************)
CardChecks == {"card_text_matches_kind", "card_text_fits_a_card"}

scene_kind_upgrade(c) ==
    AddChecks(AddColumns(CreateTypes(c, [scene_kind |-> {"illustration", "card"}]),
                         "scene", {"kind", "card_text"}, {"card_text"}),
              "scene", CardChecks)

scene_kind_downgrade(c) ==
    DropTypes(DropColumns(DropChecks(c, "scene", CardChecks), "scene", {"card_text", "kind"}),
              {"scene_kind"})

(***************************************************************************)
(* 12  b6d2e7c14f38  caption and thumbnail artifact kinds                  *)
(***************************************************************************)
_NEW_KINDS == {"caption", "thumbnail"}
kinds_upgrade(c) == AddLabels(c, "artifact_kind", _NEW_KINDS)
kinds_downgrade(c) == c

(***************************************************************************)
(* 13  c9a3f1e57b24  publishing_package                                    *)
(***************************************************************************)
publishing_package ==
    Table(Kept \cup {"artifact_version_id", "zip_key", "manifest"}, {},
          {Fk("artifact_version_id", "artifact_version", "CASCADE")},
          {Unique({"artifact_version_id"})}, {})

package_upgrade(c) ==
    Guard(CreateTables(c, [publishing_package |-> publishing_package]), {"publishing_package"})
package_downgrade(c) ==
    DropTables(Unguard(c, {"publishing_package"}), {"publishing_package"})

(***************************************************************************)
(* The chain.                                                              *)
(***************************************************************************)
HeadRevision == 13

Up(n, c) ==
    CASE n = 1 -> core_schema_upgrade(c)
      [] n = 2 -> immutable_fks_upgrade(c)
      [] n = 3 -> style_preset_upgrade(c)
      [] n = 4 -> scenes_upgrade(c)
      [] n = 5 -> live_key_upgrade(c)
      [] n = 6 -> c
      [] n = 7 -> branding_upgrade(c)
      [] n = 8 -> pins_upgrade(c)
      [] n = 9 -> series_jobs_upgrade(c)
      [] n = 10 -> reasons_upgrade(c)
      [] n = 11 -> scene_kind_upgrade(c)
      [] n = 12 -> kinds_upgrade(c)
      [] n = 13 -> package_upgrade(c)

Down(n, c) ==
    CASE n = 1 -> core_schema_downgrade(c)
      [] n = 2 -> immutable_fks_downgrade(c)
      [] n = 3 -> style_preset_downgrade(c)
      [] n = 4 -> scenes_downgrade(c)
      [] n = 5 -> live_key_downgrade(c)
      [] n = 6 -> c
      [] n = 7 -> branding_downgrade(c)
      [] n = 8 -> pins_downgrade(c)
      [] n = 9 -> series_jobs_downgrade(c)
      [] n = 10 -> reasons_downgrade(c)
      [] n = 11 -> scene_kind_downgrade(c)
      [] n = 12 -> kinds_downgrade(c)
      [] n = 13 -> package_downgrade(c)

(* What the first upgrade to each revision builds.                         *)
Built[n \in 0 .. HeadRevision] == IF n = 0 THEN Empty ELSE Up(n, Built[n - 1])
=============================================================================
