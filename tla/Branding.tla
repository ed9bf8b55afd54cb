------------------------------ MODULE Branding ------------------------------
(***************************************************************************)
(* What every episode of a series is drawn against: versions of its        *)
(* character and of its style (repositories/branding.py, api/series.py),   *)
(* the reference sheets a series job draws for a character version         *)
(* (references.py, JobService.request_series_job), and the pin a project   *)
(* takes of both with its first image job (admission.py, pin_branding).    *)
(*                                                                         *)
(* Approving supersedes the incumbent with an UPDATE by status and then    *)
(* sets the row the session has loaded: the ORM writes the status only if  *)
(* it differs from what was loaded.  A partial unique index allows one     *)
(* approved row of a kind.  The sheets of a group are written by one       *)
(* transaction, so a group is one element here.                            *)
(***************************************************************************)
EXTENDS Naturals, FiniteSets, Lifecycles

CONSTANTS Character,  \* identities of character versions, of one series
          Style,      \* identities of style versions, of the same series
          Project,    \* the episodes of the series
          Job,        \* identities of the series' reference-sheet jobs
          Session,    \* API requests served at the same time
          Worker      \* worker processes

Absent == "ABSENT"
Nothing == "nothing"
Item == Character \cup Style

ASSUME BrandingAssumption ==
    /\ Character \cap Style = {}
    /\ Nothing \notin Item \cup Project \cup Job
    /\ IsFiniteSet(Item)

BrandingStatus == {"PENDING", "AWAITING_APPROVAL", "APPROVED", "SUPERSEDED"}

VARIABLES status,          \* series_character.status, series_style.status
          version_no,      \* their version numbers; 0 before the row exists
          job,             \* the series' rows of generation_job
          sheets,          \* character_reference: the groups that have their sheets
          pin,             \* video_project.character_version_id, style_version_id
          wanted,          \* projects with an image job a worker may take
          frames,          \* scene images: the project and what they were drawn against
          run,             \* what each worker is doing
          txn              \* what each API transaction has read

items == <<status, version_no>>
vars == <<items, job, sheets, pin, wanted, frames, run, txn>>

Kin(i) == IF i \in Character THEN Character ELSE Style

(* A group is named by the job whose request minted its id. *)
JobRow == [status : JobStatus \cup {Absent}, character : Character \cup {Nothing}]
Sheet == [group : Job, character : Character, style : Style]
Pin == [character : Character \cup {Nothing}, style : Style \cup {Nothing}]
Frame == [project : Project, character : Character, style : Style]

NoPin == [character |-> Nothing, style |-> Nothing]
Closed == [op |-> "none", on |-> Nothing, seen |-> Absent, no |-> 0, old |-> {},
           pin |-> NoPin]
Idle == [at |-> "idle", of |-> Nothing, seen |-> Absent, style |-> Nothing,
         pin |-> NoPin]

Init ==
    /\ status = [i \in Item |-> Absent]
    /\ version_no = [i \in Item |-> 0]
    /\ job = [j \in Job |-> [status |-> Absent, character |-> Nothing]]
    /\ sheets = {}
    /\ pin = [p \in Project |-> NoPin]
    /\ wanted = {}
    /\ frames = {}
    /\ run = [w \in Worker |-> Idle]
    /\ txn = [s \in Session |-> Closed]

-----------------------------------------------------------------------------
(* Queries.                                                                *)

(* approved_character, approved_style. *)
Approved(kin) == {i \in kin : status[i] = "APPROVED"}

(* coalesce(max(version_no), 0) + 1 over the series' rows of the kind. *)
NextNo(i) == Cardinality({k \in Kin(i) : status[k] # Absent}) + 1

(* The key of a sheet run is the character version; a finished run keeps   *)
(* it, a failed one gives it back.                                         *)
Holders(c) == {j \in Job : job[j].status \in JobStatus \ DeadStatuses /\ job[j].character = c}

Open(s, t) == txn' = [txn EXCEPT ![s] = t]
Close(s) == txn' = [txn EXCEPT ![s] = Closed]
Goes(w, r) == run' = [run EXCEPT ![w] = r]

-----------------------------------------------------------------------------
(* A new version of the character or the style.                            *)

(* Mutant: the number is taken without the lock on the series row.         *)
CreateBeginUnlocked(s, i) ==
    /\ txn[s].op = "none"
    /\ status[i] = Absent
    /\ Open(s, [Closed EXCEPT !.op = "create", !.on = i, !.no = NextNo(i)])
    /\ UNCHANGED <<items, job, sheets, pin, wanted, frames, run>>

(* _lock_series: another transaction that is adding a version of either    *)
(* kind to the series is waited for; then the number is read.              *)
CreateBegin(s, i) ==
    /\ txn[s].op = "none"
    /\ status[i] = Absent
    /\ \A o \in Session : txn[o].op # "create"
    /\ Open(s, [Closed EXCEPT !.op = "create", !.on = i, !.no = NextNo(i)])
    /\ UNCHANGED <<items, job, sheets, pin, wanted, frames, run>>

CreateCommit(s) ==
    LET t == txn[s] IN
    /\ t.op = "create"
    /\ \A k \in Kin(t.on) : version_no[k] # t.no
    /\ status' = [status EXCEPT ![t.on] = "PENDING"]
    /\ version_no' = [version_no EXCEPT ![t.on] = t.no]
    /\ Close(s)
    /\ UNCHANGED <<job, sheets, pin, wanted, frames, run>>

-----------------------------------------------------------------------------
(* POST /characters/{id}/approve, POST /styles/{id}/approve.               *)

(* The row is loaded.  (The group a character may be approved with is a    *)
(* column no decision here looks at.)                                      *)
ApproveBegin(s, i) ==
    /\ txn[s].op = "none"
    /\ status[i] # Absent
    /\ Open(s, [Closed EXCEPT !.op = "approve", !.on = i, !.seen = status[i]])
    /\ UNCHANGED <<items, job, sheets, pin, wanted, frames, run>>

(* Mutant: the UPDATE forgets id != character_id.                          *)
ApproveSupersedesAll(s) ==
    LET t == txn[s] IN
    /\ t.op = "approve"
    /\ Open(s, [t EXCEPT !.op = "superseding", !.old = Approved(Kin(t.on))])
    /\ UNCHANGED <<items, job, sheets, pin, wanted, frames, run>>

(* The UPDATE of the incumbents: the rows its snapshot matches. *)
ApproveSupersedes(s) ==
    LET t == txn[s] IN
    /\ t.op = "approve"
    /\ Open(s, [t EXCEPT !.op = "superseding", !.old = Approved(Kin(t.on)) \ {t.on}])
    /\ UNCHANGED <<items, job, sheets, pin, wanted, frames, run>>

(* The rows of the kind as the transaction leaves them: a row it waited    *)
(* for and found superseded already is not matched any more; its own row   *)
(* is written if the session changed the status it had loaded.             *)
AfterApproval(t) ==
    [k \in Item |->
       IF k \in t.old /\ status[k] = "APPROVED" THEN "SUPERSEDED"
       ELSE IF k = t.on /\ t.seen # "APPROVED" THEN "APPROVED"
       ELSE status[k]]

(* uq_series_character_one_approved, uq_series_style_one_approved. *)
OneApprovedAfter(t) ==
    \A k \in Kin(t.on) \ {t.on} :
        ~(AfterApproval(t)[k] = "APPROVED" /\ AfterApproval(t)[t.on] = "APPROVED")

ApproveCommit(s) ==
    LET t == txn[s] IN
    /\ t.op = "superseding"
    /\ OneApprovedAfter(t)
    /\ status' = AfterApproval(t)
    /\ Close(s)
    /\ UNCHANGED <<version_no, job, sheets, pin, wanted, frames, run>>

(* IntegrityError: the transaction rolls back. *)
ApproveCollides(s) ==
    /\ txn[s].op = "superseding"
    /\ ~OneApprovedAfter(txn[s])
    /\ Close(s)
    /\ UNCHANGED <<items, job, sheets, pin, wanted, frames, run>>

-----------------------------------------------------------------------------
(* POST /characters/{id}/references: request_series_job.                   *)

(* Mutant: the key carries the group id the request has minted.            *)
ReferencesRequestPerGroup(c, j) ==
    /\ job[j].status = Absent
    /\ status[c] # Absent
    /\ Approved(Style) # {}
    /\ job' = [job EXCEPT ![j] = [status |-> "QUEUED", character |-> c]]
    /\ UNCHANGED <<items, sheets, pin, wanted, frames, run, txn>>

(* A duplicate writes nothing and answers with the holder's group. *)
ReferencesRequest(c, j) ==
    /\ job[j].status = Absent
    /\ status[c] # Absent
    /\ Approved(Style) # {}
    /\ Holders(c) = {}
    /\ job' = [job EXCEPT ![j] = [status |-> "QUEUED", character |-> c]]
    /\ UNCHANGED <<items, sheets, pin, wanted, frames, run, txn>>

SheetsClaim(w, j) ==
    /\ run[w].at = "idle"
    /\ MayApplyJob("CLAIMED", job[j].status)
    /\ job' = [job EXCEPT ![j].status = JobTarget("CLAIMED")]
    /\ Goes(w, [Idle EXCEPT !.at = "claimed", !.of = j])
    /\ UNCHANGED <<items, sheets, pin, wanted, frames, txn>>

(* references_body loads the character and the approved style, and then    *)
(* draws for a minute.                                                     *)
SheetsBegin(w) ==
    LET c == job[run[w].of].character IN
    /\ run[w].at = "claimed"
    /\ \E y \in Approved(Style) :
          Goes(w, [run[w] EXCEPT !.at = "sheets", !.seen = status[c], !.style = y])
    /\ UNCHANGED <<items, job, sheets, pin, wanted, frames, txn>>

(* The group lands with the job; a character that was PENDING when the run *)
(* began becomes AWAITING_APPROVAL, whatever it is by now.                 *)
SheetsCommit(w) ==
    LET j == run[w].of
        c == job[j].character IN
    /\ run[w].at = "sheets"
    /\ sheets' = sheets \cup {[group |-> j, character |-> c, style |-> run[w].style]}
    /\ status' = IF run[w].seen = "PENDING"
                 THEN [status EXCEPT ![c] = "AWAITING_APPROVAL"] ELSE status
    /\ job' = [job EXCEPT ![j].status = JobTarget("SUCCEEDED")]
    /\ Goes(w, Idle)
    /\ UNCHANGED <<version_no, pin, wanted, frames, txn>>

(* The provider, the budget or the missing style: nothing was written. *)
SheetsFail(w) ==
    /\ run[w].at \in {"claimed", "sheets"}
    /\ job' = [job EXCEPT ![run[w].of].status = JobTarget("FAILED")]
    /\ Goes(w, Idle)
    /\ UNCHANGED <<items, sheets, pin, wanted, frames, txn>>

(* The worker is killed: the row stays RUNNING and keeps its key. *)
SheetsDie(w) ==
    /\ run[w].at \in {"claimed", "sheets"}
    /\ Goes(w, Idle)
    /\ UNCHANGED <<items, job, sheets, pin, wanted, frames, txn>>

-----------------------------------------------------------------------------
(* An image request of a project: JobService.request, check_admission,     *)
(* resolve_branding, pin_branding.                                         *)

(* The project row is loaded once, with the pin it has by then.  A pinned  *)
(* project goes on with its pin; another one needs both approvals.         *)
ImageBegin(s, p) ==
    /\ txn[s].op = "none"
    /\ pin[p] = NoPin => Approved(Character) # {} /\ Approved(Style) # {}
    /\ Open(s, [Closed EXCEPT !.op = IF pin[p] = NoPin THEN "resolve" ELSE "image",
                              !.on = p])
    /\ UNCHANGED <<items, job, sheets, pin, wanted, frames, run>>

(* resolve_branding again, after the reservation: one query, then another; *)
(* an approval that is gone by now refuses the request.                    *)
ImageResolvesCharacter(s) ==
    LET t == txn[s] IN
    /\ t.op = "resolve"
    /\ IF Approved(Character) = {} THEN Close(s)
       ELSE \E c \in Approved(Character) :
               Open(s, [t EXCEPT !.op = "resolving", !.pin.character = c])
    /\ UNCHANGED <<items, job, sheets, pin, wanted, frames, run>>

ImageResolvesStyle(s) ==
    LET t == txn[s] IN
    /\ t.op = "resolving"
    /\ IF Approved(Style) = {} THEN Close(s)
       ELSE \E y \in Approved(Style) : Open(s, [t EXCEPT !.op = "pin", !.pin.style = y])
    /\ UNCHANGED <<items, job, sheets, pin, wanted, frames, run>>

(* Mutant: the pin is guarded by what the session has read, not in SQL.    *)
ImageCommitBlind(s) ==
    LET t == txn[s] IN
    /\ t.op \in {"pin", "image"}
    /\ pin' = IF t.op = "pin" THEN [pin EXCEPT ![t.on] = t.pin] ELSE pin
    /\ wanted' = wanted \cup {t.on}
    /\ Close(s)
    /\ UNCHANGED <<items, job, sheets, frames, run>>

(* pin_branding: WHERE character_version_id IS NULL. *)
ImageCommit(s) ==
    LET t == txn[s] IN
    /\ t.op \in {"pin", "image"}
    /\ pin' = IF t.op = "pin" /\ pin[t.on].character = Nothing
              THEN [pin EXCEPT ![t.on] = t.pin] ELSE pin
    /\ wanted' = wanted \cup {t.on}
    /\ Close(s)
    /\ UNCHANGED <<items, job, sheets, frames, run>>

(* images_body: _pinned_branding reads the pin; the frames of the run are  *)
(* drawn against it and land together.                                     *)
FramesBegin(w, p) ==
    /\ run[w].at = "idle"
    /\ p \in wanted
    /\ wanted' = wanted \ {p}
    /\ Goes(w, [Idle EXCEPT !.at = "frames", !.of = p, !.pin = pin[p]])
    /\ UNCHANGED <<items, job, sheets, pin, frames, txn>>

FramesCommit(w) ==
    LET r == run[w] IN
    /\ r.at = "frames"
    /\ frames' = frames \cup {[project |-> r.of, character |-> r.pin.character,
                               style |-> r.pin.style]}
    /\ Goes(w, Idle)
    /\ UNCHANGED <<items, job, sheets, pin, wanted, txn>>

(* The run fails or its worker is killed. *)
FramesFail(w) ==
    /\ run[w].at = "frames"
    /\ Goes(w, Idle)
    /\ UNCHANGED <<items, job, sheets, pin, wanted, frames, txn>>

-----------------------------------------------------------------------------
ApiNext(s) ==
    \/ \E i \in Item : CreateBegin(s, i) \/ ApproveBegin(s, i)
    \/ \E p \in Project : ImageBegin(s, p)
    \/ CreateCommit(s)
    \/ ApproveSupersedes(s)
    \/ ApproveCommit(s)
    \/ ApproveCollides(s)
    \/ ImageResolvesCharacter(s)
    \/ ImageResolvesStyle(s)
    \/ ImageCommit(s)

WorkerNext(w) ==
    \/ \E j \in Job : SheetsClaim(w, j)
    \/ SheetsBegin(w)
    \/ SheetsCommit(w)
    \/ SheetsFail(w)
    \/ SheetsDie(w)
    \/ \E p \in Project : FramesBegin(w, p)
    \/ FramesCommit(w)
    \/ FramesFail(w)

Next ==
    \/ \E s \in Session : ApiNext(s)
    \/ \E c \in Character, j \in Job : ReferencesRequest(c, j)
    \/ \E w \in Worker : WorkerNext(w)

Spec == Init /\ [][Next]_vars

-----------------------------------------------------------------------------
(* Properties.                                                             *)

TypeOK ==
    /\ status \in [Item -> BrandingStatus \cup {Absent}]
    /\ version_no \in [Item -> Nat]
    /\ job \in [Job -> JobRow]
    /\ sheets \subseteq Sheet
    /\ pin \in [Project -> Pin]
    /\ wanted \subseteq Project
    /\ frames \subseteq Frame
    /\ run \in [Worker -> [at : {"idle", "claimed", "sheets", "frames"},
                           of : Job \cup Project \cup {Nothing},
                           seen : BrandingStatus \cup {Absent},
                           style : Style \cup {Nothing}, pin : Pin]]
    /\ txn \in [Session -> [op : {"none", "create", "approve", "superseding", "resolve",
                                  "resolving", "pin", "image"},
                            on : Item \cup Project \cup {Nothing},
                            seen : BrandingStatus \cup {Absent}, no : Nat,
                            old : SUBSET Item, pin : Pin]]

(* A sheet run ends for a character that was PENDING when it began and has *)
(* been approved while it drew (references.py, the last assignment).       *)
OverwritesApproval(w, kin) ==
    /\ run[w].at = "sheets" /\ run[w].seen = "PENDING"
    /\ job[run[w].of].character \in Approved(kin)
    /\ run'[w] = Idle

(* An approval ends of a version its session loaded as APPROVED, and that  *)
(* another approval has superseded since: the ORM sees nothing to write.   *)
ForgetsItsOwn(s, kin) ==
    /\ txn[s].op = "superseding" /\ txn[s].seen = "APPROVED"
    /\ txn[s].on \in kin \ Approved(kin)
    /\ txn'[s] = Closed

(* A series that has an approved character, or style, goes on having one,  *)
(* whatever other approvals, new versions and sheet runs commit between    *)
(* the three statements of an approval (approve_character: load, supersede *)
(* the others, set the status).  There are two ways to lose the last one,  *)
(* and no other: both are a session that writes what it read too early.    *)
LastApprovalStands ==
    [][\A kin \in {Character, Style} :
          (Approved(kin) # {} /\ Approved(kin)' = {}) =>
              \/ \E w \in Worker : OverwritesApproval(w, kin)
              \/ \E s \in Session : ForgetsItsOwn(s, kin)]_vars

(* Two versions of one kind never get the same number, and the UNIQUE      *)
(* constraint behind it never fires: whoever is about to insert holds a    *)
(* number nobody has taken since (_lock_series).                           *)
NumbersAreFree ==
    /\ \A i, k \in Item :
          (i # k /\ Kin(i) = Kin(k) /\ version_no[i] # 0) => version_no[i] # version_no[k]
    /\ \A s \in Session :
          txn[s].op = "create" =>
              \A k \in Kin(txn[s].on) : version_no[k] # txn[s].no

(* Every frame of an episode is drawn against the same character and the   *)
(* same style version, the pinned ones, although the series approves other *)
(* versions meanwhile and two first image requests may resolve different   *)
(* ones (ADR-016, pin_branding).                                           *)
FramesShareBranding ==
    \A f \in frames : f.character = pin[f.project].character /\ f.style = pin[f.project].style

(* One run of sheets per character version: no two jobs are ever under way *)
(* for it, and it never has two groups, however often the operator clicks  *)
(* and whichever runs fail (generate_references).                          *)
OneGroupPerCharacter ==
    /\ \A a, b \in sheets : a.character = b.character => a = b
    /\ \A w, u \in Worker :
          (w # u /\ run[w].at = "sheets" /\ run[u].at = "sheets")
              => job[run[w].of].character # job[run[u].of].character
=============================================================================
