------------------------------- MODULE Schema -------------------------------
(***************************************************************************)
(* A VideoForge database through its life: operators migrate it up and     *)
(* down the Alembic chain, the program writes rows, and people, projects,  *)
(* series and workspaces are erased while the append-only triggers and the *)
(* ON DELETE actions of the foreign keys pull in different directions.     *)
(*                                                                         *)
(* A row is what the constraints see of it: `refs`, the ids it holds, and  *)
(* `vals`, the scalars that keys and checks compare.                       *)
(***************************************************************************)
EXTENDS Migrations, FiniteSets

CONSTANTS
    Rows,       \* [row -> [table, refs, vals, under]]: every row that may be written
    Worlds,     \* sets of rows; each behaviour plays in one of them
    Updates,    \* [row, column, to]: the statements that would change a row
    Roots       \* tables whose rows somebody deletes

M == INSTANCE Models

Home(r) == Rows[r].table

(* The columns that say whom a row belongs to.  Who wrote or decided it    *)
(* (created_by, actor_id, reviewer_id, author_id), the series an episode   *)
(* is part of and the branding it pins do not.                             *)
Owning ==
    [workspace |-> {}, audit_event |-> {}, outbox_event |-> {},
     app_user |-> {"workspace_id"}, series |-> {"workspace_id"},
     video_project |-> {"workspace_id"},
     artifact |-> {"project_id", "scene_ref"},
     generation_job |-> {"project_id", "artifact_id", "series_id"},
     artifact_version |-> {"artifact_id", "generation_job_id", "parent_version_id"},
     provider_usage |-> {"job_id"}, state_transition |-> {"job_id"},
     comment |-> {"artifact_version_id"}, review_decision |-> {"artifact_version_id"},
     publishing_package |-> {"artifact_version_id"},
     scene_set |-> {"artifact_version_id", "script_version_id"},
     scene |-> {"scene_set_id"},
     series_character |-> {"series_id"}, series_style |-> {"series_id"},
     character_reference |-> {"character_id"}]

Owners(r) == {Rows[r].refs[column] : column \in DOMAIN Rows[r].refs \cap Owning[Home(r)]}

(* Rows refer to rows; one is under the roots among its owners, and under  *)
(* whatever its owners are under.                                          *)
ASSUME RowsAssumption ==
    \A r \in DOMAIN Rows :
        /\ Home(r) \in DOMAIN Owning
        /\ \A column \in DOMAIN Rows[r].refs : Rows[r].refs[column] \in DOMAIN Rows
        /\ Rows[r].under =
              {y \in Owners(r) : Home(y) \in Roots} \cup UNION {Rows[y].under : y \in Owners(r)}

ASSUME WorldsAssumption == \A w \in Worlds : w \subseteq DOMAIN Rows /\ IsFiniteSet(w)

(* Jobs are asked for in QUEUED, those of an artifact in its project and   *)
(* for no series (JobService.request).                                     *)
ASSUME JobsAssumption ==
    \A r \in DOMAIN Rows : Home(r) = "generation_job" =>
        /\ "status" \in DOMAIN Rows[r].vals /\ Rows[r].vals.status = "QUEUED"
        /\ "error" \notin DOMAIN Rows[r].vals
        /\ "artifact_id" \in DOMAIN Rows[r].refs =>
              LET a == Rows[r].refs.artifact_id IN
              /\ Home(a) = "artifact"
              /\ "series_id" \notin DOMAIN Rows[r].refs
              /\ "project_id" \in DOMAIN Rows[r].refs \cap DOMAIN Rows[a].refs
              /\ Rows[r].refs.project_id = Rows[a].refs.project_id

ASSUME ArtifactsAssumption ==
    \A r \in DOMAIN Rows : Home(r) = "artifact" => "state" \in DOMAIN Rows[r].vals

(* Jobs and artifacts change by the actions below alone.                   *)
ASSUME UpdatesAssumption ==
    \A u \in Updates :
        /\ u.row \in DOMAIN Rows /\ u.column \in DOMAIN Rows[u.row].vals
        /\ Home(u.row) \notin {"generation_job", "artifact"}

(* Nobody deletes a job: it goes with what it was asked for.               *)
ASSUME RootsAssumption == "generation_job" \notin Roots

VARIABLES
    world,
    revision,   \* alembic_version, as a position in the chain
    catalog,
    row         \* the rows that exist, as they are now

database == <<world, revision, catalog, row>>

Of(t, rows) == {r \in DOMAIN rows : Home(r) = t}
Dead == {"FAILED", "CANCELLED", "ORPHANED"}

SchemaInit ==
    /\ world \in Worlds
    /\ revision = 0
    /\ catalog = Empty
    /\ row = << >>

-----------------------------------------------------------------------------
(* What PostgreSQL checks.                                                 *)

References(c, rows) ==
    \A r \in DOMAIN rows : \A f \in c.table[Home(r)].fks :
        /\ f.column \in DOMAIN rows[r].refs => rows[r].refs[f.column] \in DOMAIN rows
        /\ f.column \in DOMAIN rows[r].refs \cup c.table[Home(r)].nullable

Null == "null"
Value(rows, r, column) ==
    IF column \in DOMAIN rows[r].refs THEN rows[r].refs[column]
    ELSE IF column \in DOMAIN rows[r].vals THEN rows[r].vals[column] ELSE Null

Among(which, rows, r) ==
    CASE which = "all" -> TRUE
      [] which = "live" -> rows[r].vals.status \notin Dead
      [] which = "approved" -> rows[r].vals.status = "APPROVED"

Clash(u, rows, r, s) ==
    /\ Among(u.among, rows, r) /\ Among(u.among, rows, s)
    /\ \A column \in u.columns :
          /\ Value(rows, r, column) = Value(rows, s, column)
          /\ u.nulls = "equal" \/ Value(rows, r, column) # Null

Keys(c, rows) ==
    \A r, s \in DOMAIN rows : r # s /\ Home(r) = Home(s) =>
        \A u \in c.table[Home(r)].uniques : ~Clash(u, rows, r, s)

Scope(c, rows) ==
    "scope" \in c.table["generation_job"].checks =>
        \A j \in Of("generation_job", rows) :
            ("project_id" \in DOMAIN rows[j].refs) # ("series_id" \in DOMAIN rows[j].refs)

Sound(c, rows) ==
    /\ References(c, rows)
    /\ Keys(c, rows)
    /\ "generation_job" \in DOMAIN c.table => Scope(c, rows)

-----------------------------------------------------------------------------
(* Migrations.  One revision at a time: an upgrade across several is one   *)
(* transaction that stands or falls with the first it is refused at.       *)

(* What is left of the rows when tables and columns are dropped.           *)
Fit(c, rows) ==
    [r \in {x \in DOMAIN rows : Home(x) \in DOMAIN c.table} |->
        [refs |-> Restrict(rows[r].refs, DOMAIN rows[r].refs \cap c.table[Home(r)].columns),
         vals |-> Restrict(rows[r].vals, DOMAIN rows[r].vals \cap c.table[Home(r)].columns)]]

Parked(rows, j) == rows[j].vals.status = "QUEUED" /\ "error" \in DOMAIN rows[j].vals
JobsOf(rows, a) ==
    {j \in Of("generation_job", rows) :
        "artifact_id" \in DOMAIN rows[j].refs /\ rows[j].refs.artifact_id = a}

(* Mutant: only the jobs are released.                                     *)
RepairedJobsOnly(rows) ==
    [r \in DOMAIN rows |->
        IF Home(r) = "generation_job" /\ Parked(rows, r)
        THEN [rows[r] EXCEPT !.vals.status = "FAILED"] ELSE rows[r]]

(* 82d7b9b94a67: jobs parked in QUEUED with an error fail, and artifacts   *)
(* left GENERATING by dead jobs alone fail with them.                      *)
Repaired(rows) ==
    LET after == [r \in DOMAIN rows |->
            IF Home(r) = "generation_job" /\ Parked(rows, r)
            THEN [rows[r] EXCEPT !.vals.status = "FAILED"] ELSE rows[r]]
        Stranded(a) ==
            /\ rows[a].vals.state = "GENERATING"
            /\ \E j \in JobsOf(after, a) : after[j].vals.status \in Dead
            /\ \A j \in JobsOf(after, a) : after[j].vals.status \notin {"QUEUED", "RUNNING"}
    IN  [r \in DOMAIN rows |->
            IF Home(r) = "artifact" /\ Stranded(r)
            THEN [after[r] EXCEPT !.vals.state = "FAILED"] ELSE after[r]]

MigrateTo(n, c, rows) ==
    /\ \A t \in DOMAIN c.table : \A f \in c.table[t].fks : f.to \in DOMAIN c.table
    /\ Sound(c, rows)
    /\ revision' = n
    /\ catalog' = c
    /\ row' = rows
    /\ UNCHANGED world

Upgrade ==
    /\ revision < HeadRevision
    /\ LET c == Up(revision + 1, catalog) IN
       MigrateTo(revision + 1, c, IF revision + 1 = 6 THEN Repaired(row) ELSE row)

Downgrade ==
    /\ revision > 0
    /\ LET c == Down(revision, catalog) IN MigrateTo(revision - 1, c, Fit(c, row))

-----------------------------------------------------------------------------
(* The program.                                                            *)

Written(r, rows) ==
    Over([x \in {r} |-> [refs |-> Rows[r].refs, vals |-> Rows[r].vals]], rows)

(* A row is written by a version of the program that knows its columns,    *)
(* with ids it has read.                                                   *)
Insert(r) ==
    /\ r \in world \ DOMAIN row
    /\ Home(r) \in DOMAIN catalog.table
    /\ DOMAIN Rows[r].refs \cup DOMAIN Rows[r].vals \subseteq catalog.table[Home(r)].columns
    /\ \A column \in DOMAIN Rows[r].refs : Rows[r].refs[column] \in DOMAIN row
    /\ row' = Written(r, row)
    /\ Sound(catalog, row')
    /\ UNCHANGED <<world, revision, catalog>>

(* An UPDATE of one column; the trigger refuses it on append-only tables.  *)
Update(u) ==
    /\ u.row \in DOMAIN row
    /\ Home(u.row) \notin catalog.trigger
    /\ row[u.row].vals[u.column] # u.to
    /\ row' = [row EXCEPT ![u.row].vals[u.column] = u.to]
    /\ Sound(catalog, row')
    /\ UNCHANGED <<world, revision, catalog>>

(* A failing job.  Before revision 6 the worker parked it in QUEUED or     *)
(* failed it, and left its artifact GENERATING; since then both fail.      *)
JobFails(j) ==
    /\ Home(j) = "generation_job"
    /\ row[j].vals.status = "QUEUED"
    /\ \/ /\ revision < 6
          /\ \/ row' = [row EXCEPT ![j].vals = Over([error |-> "raised"], @)]
             \/ row' = [row EXCEPT ![j].vals.status = "FAILED"]
       \/ /\ revision >= 6
          /\ row' = [r \in DOMAIN row |->
                IF r = j THEN [row[r] EXCEPT !.vals.status = "FAILED"]
                ELSE IF j \in JobsOf(row, r) /\ row[r].vals.state = "GENERATING"
                     THEN [row[r] EXCEPT !.vals.state = "FAILED"]
                     ELSE row[r]]
    /\ Sound(catalog, row')
    /\ UNCHANGED <<world, revision, catalog>>

(* A retry of an artifact that has failed: its next job is asked for.      *)
Retry(a, j) ==
    /\ Home(a) = "artifact" /\ Home(j) = "generation_job"
    /\ j \in world \ DOMAIN row
    /\ "artifact_id" \in DOMAIN Rows[j].refs /\ Rows[j].refs.artifact_id = a
    /\ row[a].vals.state = "FAILED"
    /\ row' = Written(j, [row EXCEPT ![a].vals.state = "GENERATING"])
    /\ Sound(catalog, row')
    /\ UNCHANGED <<world, revision, catalog>>

-----------------------------------------------------------------------------
(* DELETE, and what follows from it.                                       *)

RowsHeldBy(gone, action) ==
    {x \in DOMAIN row : \E f \in catalog.table[Home(x)].fks :
        /\ f.action = action
        /\ f.column \in DOMAIN row[x].refs /\ row[x].refs[f.column] \in gone}

Doomed(r) ==
    LET Fall[n \in 0 .. Cardinality(DOMAIN row)] ==
            IF n = 0 THEN {r}
            ELSE LET gone == Fall[n - 1] IN gone \cup RowsHeldBy(gone, "CASCADE")
    IN  Fall[Cardinality(DOMAIN row)]

(* SET NULL is an UPDATE, and the trigger fires per statement: it raises   *)
(* for a deleted row even when nothing refers to it.                       *)
Refused(gone) ==
    LET homes == {Home(x) : x \in gone} IN
    \E t \in catalog.trigger : \E f \in catalog.table[t].fks :
        f.to \in homes /\ f.action = "SET_NULL"

Lost(x, gone) ==
    {column \in DOMAIN row[x].refs :
        /\ row[x].refs[column] \in gone
        /\ \E f \in catalog.table[Home(x)].fks : f.action = "SET_NULL" /\ f.column = column}

Left(gone) ==
    [x \in DOMAIN row \ gone |->
        [row[x] EXCEPT !.refs = Restrict(@, DOMAIN @ \ Lost(x, gone))]]

Delete(r) ==
    /\ Home(r) \in Roots
    /\ LET gone == Doomed(r) IN ~Refused(gone) /\ row' = Left(gone)
    /\ Sound(catalog, row')
    /\ UNCHANGED <<world, revision, catalog>>

SchemaNext ==
    \/ Upgrade
    \/ Downgrade
    \/ \E r \in world : Insert(r)
    \/ \E u \in Updates : Update(u)
    \/ \E r \in DOMAIN row : JobFails(r) \/ Delete(r)
    \/ \E a \in DOMAIN row, j \in world : Retry(a, j)

SchemaSpec == SchemaInit /\ [][SchemaNext]_database

-----------------------------------------------------------------------------
(* Properties.                                                             *)

(* Whatever was migrated up and down before, the schema at a revision is   *)
(* the one the chain builds there: no downgrade forgets a constraint its   *)
(* upgrade touched.  Only enum labels stay behind, as the downgrades of    *)
(* cb5ec31b3165 and b6d2e7c14f38 say.                                      *)
RoundTrip ==
    LET plain == Built[revision] IN
    /\ catalog.table = plain.table
    /\ catalog.trigger = plain.trigger
    /\ catalog.view = plain.view
    /\ DOMAIN catalog.type = DOMAIN plain.type
    /\ \A t \in DOMAIN plain.type : plain.type[t] \subseteq catalog.type[t]

(* At the head of the chain the database is what the models declare:       *)
(* columns, references with their ON DELETE action, unique constraints,    *)
(* checks, types and the append-only tables (test_models_match_migrations, *)
(* but after every history of migrations).                                 *)
ModelsMatchSchema ==
    revision = HeadRevision =>
        /\ catalog.table = M!Tables
        /\ catalog.trigger = M!IMMUTABLE_TABLES
        /\ catalog.type = M!EnumTypes

(* From revision 83fa1410a747 on, a workspace, user, series or project can *)
(* always be deleted: no cascade runs into an append-only trigger, a check *)
(* or a key (finding M1-04a).                                              *)
AlwaysErasable ==
    revision >= 2 =>
        \A r \in DOMAIN row : Home(r) \in Roots =>
            LET gone == Doomed(r) IN ~Refused(gone) /\ Sound(catalog, Left(gone))

(* A delete takes only what belongs to the thing deleted: erasing a user   *)
(* leaves what they wrote and approved, deleting a series leaves its       *)
(* episodes and their pins, deleting a project leaves the other projects   *)
(* and the trail.                                                          *)
DeletesAreContained ==
    [][revision' = revision =>
        LET gone == DOMAIN row \ DOMAIN row' IN
        \A x \in gone : \E root \in gone :
            Home(root) \in Roots /\ (x = root \/ root \in Rows[x].under)]_database

(* From revision 82d7b9b94a67 on, an artifact that is GENERATING has a job *)
(* that is still to run: none is stranded behind a dead or parked one.     *)
NothingIsStranded ==
    revision >= 6 =>
        \A a \in Of("artifact", row) :
            row[a].vals.state = "GENERATING" /\ JobsOf(row, a) # {} =>
                \E j \in JobsOf(row, a) : row[j].vals.status = "QUEUED" /\ ~Parked(row, j)
=============================================================================
