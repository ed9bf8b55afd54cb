------------------------------ MODULE Delivery ------------------------------
(***************************************************************************)
(* From a script to a publishing package: what the stage bodies read, when *)
(* they read it and what they pin (scenes.py, voice.py, timeline_stage.py, *)
(* render_stage.py, caption.py, thumbnail.py, package_stage.py), while     *)
(* people approve, reject, edit and regenerate any of it.                  *)
(*                                                                         *)
(* A body makes one lookup of an approved version after another, with a    *)
(* provider call or an encode in between; under READ COMMITTED each sees   *)
(* what is approved at that moment.  A version is the sequence of versions *)
(* it was built from.  A decision is one step here, its race with others   *)
(* is Review's; jobs and their failures are Generation's; how a picture is *)
(* drawn is Fanout's.                                                      *)
(*                                                                         *)
(* A series may exempt kinds of artifact from the decision of a person:    *)
(* what a job makes of them is approved when it lands, and so is a card,   *)
(* whatever the series says.  What people write is never approved so.      *)
(***************************************************************************)
EXTENDS Naturals, Sequences, Lifecycles

CONSTANTS Requires,     \* pipeline.yaml: kind -> the kinds it requires
          Scenes,       \* scenes per scene set
          Illustrations, \* those that are not typography, in order
          Policies,     \* approval policies: sets of kinds that need no person
          Worker,       \* bodies that run at the same time
          MaxVersion,   \* bound: versions per artifact
          MaxAgain      \* bound: regenerations, edits and rejections in all

Kind == {"script", "scene_set", "image", "voice", "timeline", "render", "caption",
         "thumbnail", "package"}

ASSUME DeliveryAssumption ==
    /\ Requires \in [Kind -> SUBSET Kind]
    /\ Scenes \in Nat \ {0} /\ Illustrations \in Seq(1..Scenes)
    /\ Policies \subseteq SUBSET Kind
    /\ MaxVersion \in Nat /\ MaxAgain \in Nat

VARIABLES policy,       \* series.auto_approve_policy
          state,        \* artifact.state; ABSENT before the row exists
          versions,     \* artifact -> its versions
          approvals,    \* artifact -> its versions approved and not rejected since, in order
          body,         \* worker -> the artifact it makes and the versions it found so far
          signed,       \* history: every version that a person has approved
          again         \* how often somebody changed their mind

vars == <<policy, state, versions, approvals, body, signed, again>>

NoSet == 0

(* Output slots: one per kind, for images one per scene of each scene set. *)
Wide(k) == [kind |-> k, set |-> NoSet, index |-> 0]
Image(n, i) == [kind |-> "image", set |-> n, index |-> i]
Artifact == {Wide(k) : k \in Kind \ {"image"}}
              \cup {Image(n, i) : n \in 1..MaxVersion, i \in 1..Scenes}

Idle == [makes |-> Wide("none"), found |-> <<>>]
Origin == {"generated", "human_edit"}
Version == [origin : Origin, whole : BOOLEAN, from : Seq(0..MaxVersion)]

Init ==
    /\ policy \in Policies
    /\ state = [a \in Artifact |-> "ABSENT"]
    /\ versions = [a \in Artifact |-> <<>>]
    /\ approvals = [a \in Artifact |-> <<>>]
    /\ body = [w \in Worker |-> Idle]
    /\ signed = {}
    /\ again = 0

-----------------------------------------------------------------------------
(* What a body looks up, in order.                                         *)

(* ArtifactVersionRepository.approved_version; 0 if there is none. *)
ApprovedVersion(a) ==
    IF approvals[a] = <<>> THEN 0 ELSE approvals[a][Len(approvals[a])]

(* A lookup needs what the version carries: scene rows, stored bytes or    *)
(* inline content; or only its id; or takes what there is.                 *)
Content(a) == [of |-> a, need |-> "content"]
Id(a)      == [of |-> a, need |-> "id"]
IfAny(a)   == [of |-> a, need |-> "optional"]

Found(lookup) ==
    LET n == ApprovedVersion(lookup.of)
    IN  IF n = 0 \/ lookup.need = "id" \/ versions[lookup.of][n].whole THEN n ELSE 0

AllScenes == [i \in 1..Scenes |-> i]

(* The k-th lookup found a scene set: the images of some of its scenes. *)
Frames(found, k, scenes, need) ==
    IF Len(found) < k \/ found[k] = 0 THEN <<>>
    ELSE [j \in 1..Len(scenes) |-> [of |-> Image(found[k], scenes[j]), need |-> need]]

(* The bodies of the stages, by what they have found so far: the scene set *)
(* body looks the script up again after the LLM call, the compiler the set *)
(* after the narration, the packager the render after everything else.     *)
ScenesBody == <<Content(Wide("script")), Id(Wide("script"))>>
VoiceBody == <<Content(Wide("scene_set"))>>
CompileBody(found) ==
    <<Content(Wide("scene_set")), Content(Wide("voice")), Id(Wide("scene_set"))>>
        \o Frames(found, 1, AllScenes, "content")
RenderBody == <<Content(Wide("timeline"))>>
CaptionBody == <<Content(Wide("script"))>>
ThumbnailBody(found) ==
    <<Content(Wide("caption")), Content(Wide("scene_set"))>>
        \o Frames(found, 2, Illustrations, "optional")
AssembleBody(found) ==
    <<Content(Wide("caption")), Content(Wide("render")), Content(Wide("thumbnail")),
      IfAny(Wide("scene_set"))>>
        \o Frames(found, 4, AllScenes, "optional") \o <<IfAny(Wide("render"))>>

Lookups(k, found) ==
    CASE k \in {"script", "image"} -> <<>>
      [] k = "scene_set" -> ScenesBody
      [] k = "voice"     -> VoiceBody
      [] k = "timeline"  -> CompileBody(found)
      [] k = "render"    -> RenderBody
      [] k = "caption"   -> CaptionBody
      [] k = "thumbnail" -> ThumbnailBody(found)
      [] k = "package"   -> AssembleBody(found)

(* _source_frame is content with the first illustration that is approved. *)
HasCover(k, found) == k = "thumbnail" /\ Len(found) > 2 /\ found[Len(found)] # 0

LooksFor(w) == Lookups(body[w].makes.kind, body[w].found)
Looked(w) == \/ Len(body[w].found) = Len(LooksFor(w))
             \/ HasCover(body[w].makes.kind, body[w].found)

(* Mutant: the compiler takes any narration.                               *)
FitsAnyNarration(k, found) == k = "thumbnail" => HasCover(k, found)

(* _spans: every scene the narration speaks has a frame; and a cover needs *)
(* an illustration.                                                        *)
Fits(k, found) ==
    /\ k = "timeline" => versions[Wide("voice")][found[2]].from[1] = found[1]
    /\ k = "thumbnail" => HasCover(k, found)

-----------------------------------------------------------------------------
(* People.                                                                 *)

(* Approved when a job hands it in: of a kind the series exempts, or a     *)
(* card, which shows words that were approved with its scene set.          *)
Unattended(a) ==
    \/ a.kind \in policy
    \/ a.kind = "image" /\ \A j \in 1..Len(Illustrations) : Illustrations[j] # a.index

ChangesMind(yes) == IF yes THEN again < MaxAgain /\ again' = again + 1 ELSE UNCHANGED again

(* At most one approval of a version counts. *)
Without(seq, n) ==
    IF \A i \in 1..Len(seq) : seq[i] # n THEN seq
    ELSE LET at == CHOOSE i \in 1..Len(seq) : seq[i] = n
         IN  [i \in 1..Len(seq) - 1 |-> seq[IF i < at THEN i ELSE i + 1]]

(* check_admission: every artifact of a required kind is approved. *)
Admits(k) ==
    \A r \in Requires[k] :
        /\ \E a \in Artifact : a.kind = r /\ state[a] # "ABSENT"
        /\ \A a \in Artifact : a.kind = r => state[a] \in {"ABSENT", "APPROVED"}

(* POST .../generations, the job and its claim: images of the scenes of    *)
(* the approved set, or of an artifact there is.                           *)
Start(w, a) ==
    /\ body[w] = Idle
    /\ Len(versions[a]) < MaxVersion
    /\ Admits(a.kind)
    /\ IF state[a] = "ABSENT"
         THEN a.kind = "image" => Found(Content(Wide("scene_set"))) = a.set
         ELSE MayApply("REGENERATE_REQUESTED", state[a])
    /\ ChangesMind(state[a] # "ABSENT")
    /\ state' = [state EXCEPT ![a] = "GENERATING"]
    /\ body' = [body EXCEPT ![w] = [makes |-> a, found |-> <<>>]]
    /\ UNCHANGED <<policy, versions, approvals, signed>>

(* ReviewService.approve. *)
Approve(a, n) ==
    /\ MayApply("APPROVED", state[a])
    /\ state' = [state EXCEPT ![a] = Target("APPROVED")]
    /\ approvals' = [approvals EXCEPT ![a] = Append(Without(@, n), n)]
    /\ signed' = signed \cup {<<a, n>>}
    /\ UNCHANGED <<policy, versions, body, again>>

(* ReviewService.reject: an older approval of the artifact counts again.   *)
Reject(a, n) ==
    /\ MayApply("REJECTED", state[a])
    /\ ChangesMind(TRUE)
    /\ state' = [state EXCEPT ![a] = Target("REJECTED")]
    /\ approvals' = [approvals EXCEPT ![a] = Without(@, n)]
    /\ UNCHANGED <<policy, versions, body, signed>>

AddVersion(a, origin, whole, from) ==
    versions' = [versions EXCEPT
                    ![a] = Append(@, [origin |-> origin, whole |-> whole, from |-> from])]

(* A version lands in review, or is approved at once. *)
Lands(a, event, approved) ==
    /\ state' = [state EXCEPT ![a] = Target(IF approved THEN "APPROVED" ELSE event)]
    /\ approvals' = IF approved
                    THEN [approvals EXCEPT ![a] = Append(@, Len(versions[a]) + 1)]
                    ELSE approvals

(* Mutant: an edit is approved like what a job hands in.                   *)
EditLikeGenerated(a) ==
    /\ versions[a] # <<>> /\ Len(versions[a]) < MaxVersion
    /\ MayApply("HUMAN_EDITED", state[a])
    /\ ChangesMind(TRUE)
    /\ Lands(a, "HUMAN_EDITED", Unattended(a))
    /\ AddVersion(a, "human_edit", a.kind \in {"script", "caption", "timeline"},
                  versions[a][Len(versions[a])].from)
    /\ UNCHANGED <<policy, body, signed>>

(* ReviewService.edit, of what is on screen: inline content, so a version  *)
(* without the scene rows or the stored bytes of a generated one.          *)
Edit(a) ==
    /\ versions[a] # <<>> /\ Len(versions[a]) < MaxVersion
    /\ MayApply("HUMAN_EDITED", state[a])
    /\ ChangesMind(TRUE)
    /\ Lands(a, "HUMAN_EDITED", FALSE)
    /\ AddVersion(a, "human_edit", a.kind \in {"script", "caption", "timeline"},
                  versions[a][Len(versions[a])].from)
    /\ UNCHANGED <<policy, body, signed>>

-----------------------------------------------------------------------------
(* The body.                                                               *)

Look(w) ==
    LET lookup == LooksFor(w)[Len(body[w].found) + 1] IN
    /\ body[w] # Idle /\ ~Looked(w)
    /\ Found(lookup) # 0 \/ lookup.need = "optional"
    /\ body' = [body EXCEPT ![w].found = Append(@, Found(lookup))]
    /\ UNCHANGED <<policy, state, versions, approvals, signed, again>>

(* complete_generation, complete_stored_generation, _maybe_auto_approve,   *)
(* and _render_card for a card.                                            *)
Complete(w) ==
    LET b == body[w] IN
    /\ b # Idle /\ Looked(w) /\ Fits(b.makes.kind, b.found)
    /\ AddVersion(b.makes, "generated", TRUE, b.found)
    /\ Lands(b.makes, "GENERATION_SUCCEEDED", Unattended(b.makes))
    /\ body' = [body EXCEPT ![w] = Idle]
    /\ UNCHANGED <<policy, signed, again>>

(* A body that finds something missing or unfit raises. *)
Raise(w) ==
    LET b == body[w] IN
    /\ b # Idle
    /\ IF Looked(w) THEN ~Fits(b.makes.kind, b.found)
       ELSE LET lookup == LooksFor(w)[Len(b.found) + 1]
            IN  Found(lookup) = 0 /\ lookup.need # "optional"
    /\ state' = [state EXCEPT ![b.makes] = Target("GENERATION_FAILED")]
    /\ body' = [body EXCEPT ![w] = Idle]
    /\ UNCHANGED <<policy, versions, approvals, signed, again>>

Next ==
    \/ \E w \in Worker : Look(w) \/ Complete(w) \/ Raise(w)
    \/ \E w \in Worker, a \in Artifact : Start(w, a)
    \/ \E a \in Artifact : Edit(a)
    \/ \E a \in Artifact : \E n \in 1..Len(versions[a]) : Approve(a, n) \/ Reject(a, n)

Spec == Init /\ [][Next]_vars

-----------------------------------------------------------------------------
(* Properties.                                                             *)

TypeOK ==
    /\ policy \in Policies
    /\ state \in [Artifact -> ArtifactState \cup {"ABSENT"}]
    /\ versions \in [Artifact -> Seq(Version)]
    /\ approvals \in [Artifact -> Seq(1..MaxVersion)]
    /\ body \in [Worker -> [makes : Artifact \cup {Wide("none")}, found : Seq(0..MaxVersion)]]
    /\ signed \subseteq Artifact \X (1..MaxVersion)
    /\ again \in 0..MaxAgain

(* The versions a version was built from, as artifact and number. *)
BuiltFrom(a, n) ==
    LET found == versions[a][n].from
        asked == Lookups(a.kind, found)
    IN  {<<asked[i].of, found[i]>> : i \in {j \in DOMAIN found : found[j] # 0}}

(* "Compiling anyway would put words over the wrong pictures" (_spans): a  *)
(* timeline has one frame for every scene of one scene set, and its        *)
(* narration speaks exactly those scenes, whatever was approved, replaced  *)
(* or withdrawn between its lookups.                                       *)
WordsOverTheirPictures ==
    \A n \in 1..Len(versions[Wide("timeline")]) :
        LET from == versions[Wide("timeline")][n].from
        IN  /\ Len(from) = 3 + Scenes /\ \A i \in 1..Scenes : from[3 + i] # 0
            /\ versions[Wide("voice")][from[2]].from = <<from[1]>>

(* Somebody answers for a version: a person approved it, or a job made it  *)
(* of a kind that needs nobody.                                            *)
Answered(a, n) ==
    <<a, n>> \in signed \/ (Unattended(a) /\ versions[a][n].origin = "generated")

(* The gate of review is not passed: nothing goes into anything unless a   *)
(* person approved that very version, or a job made it and its series, or  *)
(* its being a card, waives the gate.  So nothing else reaches the         *)
(* package, from the video, the cover, the copy and the frames down to the *)
(* script the video was cut from, although each is looked up at another    *)
(* time; and an edit needs a person even where what it edits did not       *)
(* (require_approved_content, _approved, _approved_key, ReviewService.edit,*)
(* _maybe_auto_approve).                                                   *)
GateHolds ==
    \A a \in Artifact : \A n \in 1..Len(versions[a]) :
        \A used \in BuiltFrom(a, n) : Answered(used[1], used[2])
=============================================================================
