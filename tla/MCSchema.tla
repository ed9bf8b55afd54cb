------------------------------ MODULE MCSchema ------------------------------
(* Small databases: one per way in which deletes and migrations can clash. *)
EXTENDS Schema

None == << >>
R(table, refs, vals, under) == [table |-> table, refs |-> refs, vals |-> vals, under |-> under]

MCRows ==
    [ w  |-> R("workspace", None, None, {}),
      u  |-> R("app_user", [workspace_id |-> "w"], [email |-> "m"], {"w"}),
      s  |-> R("series", [workspace_id |-> "w"], None, {"w"}),
      p  |-> R("video_project", [workspace_id |-> "w"], None, {"w"}),
      q  |-> R("video_project", [workspace_id |-> "w"], None, {"w"}),
      a  |-> R("artifact", [project_id |-> "p"],
               [kind |-> "script", state |-> "GENERATING"], {"w", "p"}),
      j  |-> R("generation_job", [project_id |-> "p", artifact_id |-> "a"],
               [idempotency_key |-> "key", status |-> "QUEUED"], {"w", "p"}),
      j2 |-> R("generation_job", [project_id |-> "p", artifact_id |-> "a"],
               [idempotency_key |-> "key", status |-> "QUEUED"], {"w", "p"}),
      v  |-> R("artifact_version",
               [artifact_id |-> "a", generation_job_id |-> "j", created_by |-> "u"],
               [version_no |-> 1], {"w", "p"}),
      t  |-> R("state_transition", [job_id |-> "j", actor_id |-> "u"], None, {"w", "p"}),
      e  |-> R("audit_event", [actor_id |-> "u"], None, {}),
      d  |-> R("review_decision", [artifact_version_id |-> "v", reviewer_id |-> "u"],
               [decision |-> "APPROVE"], {"w", "p"}),
      n  |-> R("comment", [artifact_version_id |-> "v", author_id |-> "u"], None, {"w", "p"}),
      h  |-> R("artifact_version", [artifact_id |-> "a"], [version_no |-> 1], {"w", "p"}),
      x  |-> R("scene_set", [artifact_version_id |-> "h", script_version_id |-> "h"], None,
               {"w", "p"}),
      c  |-> R("scene", [scene_set_id |-> "x"], [index |-> 1], {"w", "p"}),
      b  |-> R("artifact", [project_id |-> "p", scene_ref |-> "c"],
               [kind |-> "image", state |-> "APPROVED"], {"w", "p"}),
      bq |-> R("artifact", [project_id |-> "q"],
               [kind |-> "script", state |-> "APPROVED"], {"w", "q"}),
      pk |-> R("publishing_package", [artifact_version_id |-> "h"], None, {"w", "p"}),
      f  |-> R("video_project",
               [workspace_id |-> "w", series_id |-> "s", character_version_id |-> "ch"],
               None, {"w"}),
      k  |-> R("generation_job", [series_id |-> "s"],
               [idempotency_key |-> "sheets", status |-> "QUEUED"], {"w", "s"}),
      g  |-> R("provider_usage", [job_id |-> "k"], None, {"w", "s"}),
      ch |-> R("series_character", [series_id |-> "s"],
               [version_no |-> 1, status |-> "PENDING"], {"w", "s"}),
      ch2 |-> R("series_character", [series_id |-> "s"],
               [version_no |-> 2, status |-> "PENDING"], {"w", "s"}),
      cr |-> R("character_reference", [character_id |-> "ch", generation_job_id |-> "k"],
               [group_id |-> "one", index |-> 1], {"w", "s"}) ]

(* People and the trail; scenes; jobs and their keys; branding.            *)
MCWorlds ==
    { {"w", "u", "p", "a", "j", "v", "t", "e", "d", "n"},
      {"w", "p", "q", "a", "h", "x", "c", "b", "bq", "pk"},
      {"w", "p", "a", "j", "j2", "s", "k"},
      {"w", "s", "f", "k", "g", "ch", "ch2", "cr"} }

(* Branding versions approved and superseded, and writers that would       *)
(* rewrite history in place: a verdict, a version, a scene.                *)
MCUpdates ==
    { [row |-> "ch", column |-> "status", to |-> "APPROVED"],
      [row |-> "ch", column |-> "status", to |-> "SUPERSEDED"],
      [row |-> "ch2", column |-> "status", to |-> "APPROVED"],
      [row |-> "d", column |-> "decision", to |-> "REJECT"],
      [row |-> "h", column |-> "version_no", to |-> 2],
      [row |-> "c", column |-> "index", to |-> 2] }

MCRoots == {"workspace", "app_user", "series", "video_project"}
=============================================================================
