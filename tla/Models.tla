------------------------------- MODULE Models -------------------------------
(***************************************************************************)
(* The ORM's declaration of the schema (videoforge_persistence/models and  *)
(* sql.py), one definition per mapped class.  Base.metadata is Tables.     *)
(***************************************************************************)
EXTENDS Catalog

Workspace == Table(Mutable \cup {"name", "settings"}, {}, {}, {}, {})

AppUser ==
    Table(Mutable \cup {"workspace_id", "email", "display_name", "role"}, {},
          {Fk("workspace_id", "workspace", "CASCADE")},
          {Unique({"workspace_id", "email"})}, {})

Series ==
    Table(Mutable \cup {"workspace_id", "title", "voice_preset", "music_policy",
                        "hashtag_template", "auto_approve_policy"},
          {"hashtag_template"},
          {Fk("workspace_id", "workspace", "CASCADE")}, {}, {})

VideoProject ==
    Table(Mutable \cup {"workspace_id", "series_id", "topic", "title", "phase",
                        "phase_updated_at", "active_pointers", "settings",
                        "character_version_id", "style_version_id"},
          {"series_id", "title", "character_version_id", "style_version_id"},
          {Fk("workspace_id", "workspace", "CASCADE"), Fk("series_id", "series", "SET_NULL")},
          {}, {})

Artifact ==
    Table(Mutable \cup {"project_id", "kind", "scene_ref", "state", "current_version_no",
                        "stale_since"},
          {"scene_ref", "stale_since"},
          {Fk("project_id", "video_project", "CASCADE"), Fk("scene_ref", "scene", "CASCADE")},
          {UniqueNulls({"project_id", "kind", "scene_ref"})}, {})

ArtifactVersion ==
    Table(Kept \cup {"artifact_id", "version_no", "origin", "generation_job_id",
                     "parent_version_id", "storage_key", "content_hash", "inline_content",
                     "meta", "prompt_template_ref", "provider_ref", "created_by"},
          {"generation_job_id", "parent_version_id", "storage_key", "inline_content",
           "prompt_template_ref", "provider_ref", "created_by"},
          {Fk("artifact_id", "artifact", "CASCADE"),
           Fk("generation_job_id", "generation_job", "CASCADE"),
           Fk("parent_version_id", "artifact_version", "CASCADE")},
          {Unique({"artifact_id", "version_no"})},
          {"content_in_exactly_one_place", "version_no_positive", "parent_is_not_self"})

GenerationJob ==
    Table(Mutable \cup {"project_id", "series_id", "artifact_id", "task_name", "queue",
                        "status", "attempt", "max_attempts", "celery_task_id",
                        "input_snapshot", "error", "idempotency_key", "queued_at",
                        "started_at", "finished_at"},
          {"project_id", "series_id", "artifact_id", "celery_task_id", "error", "started_at",
           "finished_at"},
          {Fk("project_id", "video_project", "CASCADE"), Fk("series_id", "series", "CASCADE"),
           Fk("artifact_id", "artifact", "CASCADE")},
          {UniqueAmong("live", {"idempotency_key"})},
          {"attempt_non_negative", "max_attempts_positive", "scope"})

ProviderUsage ==
    Table(Kept \cup {"job_id", "provider", "model", "operation", "input_tokens",
                     "output_tokens", "images", "audio_seconds", "unit_cost_estimate",
                     "latency_ms", "raw_meta"},
          {"input_tokens", "output_tokens", "images", "audio_seconds"},
          {Fk("job_id", "generation_job", "CASCADE")}, {}, {})

ReviewDecision ==
    Table(Kept \cup {"artifact_version_id", "decision", "comment", "reasons", "reviewer_id",
                     "decided_at"},
          {"comment", "reviewer_id"},
          {Fk("artifact_version_id", "artifact_version", "CASCADE")}, {}, {})

Comment ==
    Table(Mutable \cup {"artifact_version_id", "author_id", "body", "anchor"},
          {"author_id", "anchor"},
          {Fk("artifact_version_id", "artifact_version", "CASCADE"),
           Fk("author_id", "app_user", "SET_NULL")}, {}, {})

SceneSet ==
    Table(Kept \cup {"artifact_version_id", "script_version_id"}, {},
          {Fk("artifact_version_id", "artifact_version", "CASCADE"),
           Fk("script_version_id", "artifact_version", "CASCADE")},
          {Unique({"artifact_version_id"})}, {})

Scene ==
    Table(Kept \cup {"scene_set_id", "index", "narration_text", "visual_brief", "kind",
                     "card_text", "target_duration_ms"},
          {"card_text"},
          {Fk("scene_set_id", "scene_set", "CASCADE")},
          {Unique({"scene_set_id", "index"})},
          {"index_is_one_based", "duration_is_positive", "card_text_matches_kind",
           "card_text_fits_a_card"})

SeriesCharacter ==
    Table(Mutable \cup {"series_id", "version_no", "name", "immutable_traits",
                        "variable_traits", "status", "approved_reference_group_id"},
          {"approved_reference_group_id"},
          {Fk("series_id", "series", "CASCADE")},
          {Unique({"series_id", "version_no"}), UniqueAmong("approved", {"series_id"})}, {})

CharacterReference ==
    Table(Mutable \cup {"character_id", "group_id", "index", "storage_key", "content_hash",
                        "mime_type", "width", "height", "pose", "angle", "expression",
                        "shot_type", "generation_job_id", "generation_snapshot"},
          {"generation_job_id"},
          {Fk("character_id", "series_character", "CASCADE")},
          {Unique({"group_id", "index"})}, {})

SeriesStyle ==
    Table(Mutable \cup {"series_id", "version_no", "name", "fields", "prompt_block", "status"},
          {},
          {Fk("series_id", "series", "CASCADE")},
          {Unique({"series_id", "version_no"}), UniqueAmong("approved", {"series_id"})}, {})

PublishingPackage ==
    Table(Kept \cup {"artifact_version_id", "zip_key", "manifest"}, {},
          {Fk("artifact_version_id", "artifact_version", "CASCADE")},
          {Unique({"artifact_version_id"})}, {})

StateTransition ==
    Table(Kept \cup {"subject_type", "subject_id", "from_state", "to_state", "cause",
                     "actor_id", "job_id", "correlation_id"},
          {"from_state", "actor_id", "job_id", "correlation_id"},
          {Fk("job_id", "generation_job", "CASCADE")}, {}, {})

AuditEvent ==
    Table(Kept \cup {"event_type", "subject_type", "subject_id", "actor_id", "payload",
                     "correlation_id"},
          {"actor_id", "correlation_id"}, {}, {}, {})

OutboxEvent ==
    Table(Kept \cup {"event_type", "payload", "correlation_id", "published_at"},
          {"correlation_id", "published_at"}, {}, {}, {})

Tables ==
    [workspace |-> Workspace, app_user |-> AppUser, series |-> Series,
     video_project |-> VideoProject, artifact |-> Artifact,
     artifact_version |-> ArtifactVersion, generation_job |-> GenerationJob,
     provider_usage |-> ProviderUsage, review_decision |-> ReviewDecision,
     comment |-> Comment, scene_set |-> SceneSet, scene |-> Scene,
     series_character |-> SeriesCharacter, character_reference |-> CharacterReference,
     series_style |-> SeriesStyle, publishing_package |-> PublishingPackage,
     state_transition |-> StateTransition, audit_event |-> AuditEvent,
     outbox_event |-> OutboxEvent]

IMMUTABLE_TABLES ==
    {"artifact_version", "review_decision", "state_transition", "audit_event",
     "provider_usage", "scene_set", "scene", "publishing_package"}

(* enums.py, through the types of enum_types.py.                           *)
UserRole == {"OWNER", "EDITOR", "VIEWER"}
ProjectPhase ==
    {"DRAFT", "RESEARCHING", "RESEARCH_REVIEW", "SCRIPTING", "SCRIPT_REVIEW", "SCENING",
     "SCENES_REVIEW", "MEDIA_GENERATION", "MEDIA_REVIEW", "TIMELINE_READY", "RENDERING",
     "RENDER_REVIEW", "PACKAGING", "READY_TO_PUBLISH", "PUBLISHED"}
ArtifactKind ==
    {"research", "script", "scene_set", "scene", "prompt", "image", "voice", "timeline",
     "render", "caption", "thumbnail", "package", "music"}
ArtifactState ==
    {"PENDING", "GENERATING", "AWAITING_APPROVAL", "APPROVED", "REJECTED", "FAILED"}
VersionOrigin == {"generated", "human_edit", "import"}
JobStatus == {"QUEUED", "RUNNING", "SUCCEEDED", "FAILED", "CANCELLED", "ORPHANED"}
ReviewDecisionKind == {"APPROVE", "REJECT"}
SubjectType == {"project_phase", "artifact", "job", "series_character", "series_style"}
TransitionCause ==
    {"job_succeeded", "job_failed", "review", "edit", "system", "reconciler"}
BrandingStatus == {"PENDING", "AWAITING_APPROVAL", "APPROVED", "SUPERSEDED"}
SceneKind == {"illustration", "card"}

EnumTypes ==
    [user_role |-> UserRole, project_phase |-> ProjectPhase, artifact_kind |-> ArtifactKind,
     artifact_state |-> ArtifactState, version_origin |-> VersionOrigin,
     job_status |-> JobStatus, review_decision_kind |-> ReviewDecisionKind,
     subject_type |-> SubjectType, transition_cause |-> TransitionCause,
     branding_status |-> BrandingStatus, scene_kind |-> SceneKind]
=============================================================================
