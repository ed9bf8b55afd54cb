--------------------------- MODULE DeliveryProofs ---------------------------
(***************************************************************************)
(* Proofs about Delivery, for any number of scenes, of cards, of bodies at *)
(* a time, of versions and changes of mind: a timeline speaks over the     *)
(* pictures of its own scene set, and somebody answers for whatever goes   *)
(* into a version.                                                         *)
(***************************************************************************)
EXTENDS Delivery, SequenceTheorems, TLAPS

LookupRow == [of : Artifact, need : {"content", "id", "optional"}]

(* A version there is, and somebody answers for it.                        *)
Reviewed(a, n) == n \in 1..Len(versions[a]) /\ Answered(a, n)

(* What a body has found: each answer is such a version, or none where the *)
(* lookup may do without.                                                  *)
FoundOK(k, found) ==
    /\ Len(found) <= Len(Lookups(k, found))
    /\ \A i \in 1..Len(found) :
          LET lookup == Lookups(k, found)[i] IN
          /\ found[i] # 0 => Reviewed(lookup.of, found[i])
          /\ lookup.need # "optional" => found[i] # 0

(* What a version of an artifact was built from.                           *)
BuildOK(a, from) ==
    /\ FoundOK(a.kind, from)
    /\ a.kind = "voice" => Len(from) = 1
    /\ a.kind = "timeline" =>
          /\ Len(from) = 3 + Scenes
          /\ \A i \in 1..3 + Scenes : from[i] # 0
          /\ from[2] \in 1..Len(versions[Wide("voice")])
          /\ versions[Wide("voice")][from[2]].from = <<from[1]>>

VersionsOK ==
    \A a \in Artifact, from \in Seq(0..MaxVersion) : \A n \in 1..Len(versions[a]) :
        versions[a][n].from = from => BuildOK(a, from)

(* A body has its artifact to itself, and room for one more version.       *)
BodyOK(a, found) ==
    /\ state[a] = "GENERATING" /\ Len(versions[a]) < MaxVersion
    /\ FoundOK(a.kind, found)

BodiesOK ==
    \A w \in Worker, a \in Artifact, found \in Seq(0..MaxVersion) :
        body[w].makes = a /\ body[w].found = found => BodyOK(a, found)

OwnArtifacts ==
    \A w, u \in Worker : body[w].makes \in Artifact /\ body[w].makes = body[u].makes => w = u

IdleOrBusy == \A w \in Worker : body[w] = Idle \/ body[w].makes \in Artifact

ApprovalsExist ==
    \A a \in Artifact, n \in 1..MaxVersion : \A i \in 1..Len(approvals[a]) :
        approvals[a][i] = n => Reviewed(a, n)

IInv ==
    /\ TypeOK
    /\ \A a \in Artifact : Len(versions[a]) <= MaxVersion
    /\ VersionsOK /\ BodiesOK /\ OwnArtifacts /\ IdleOrBusy /\ ApprovalsExist

(* Versions are append-only, so is the history of approval, and the series *)
(* keeps its policy.                                                       *)
Grows ==
    /\ \A a \in Artifact :
          /\ Len(versions[a]) <= Len(versions'[a])
          /\ \A n \in 1..Len(versions[a]) : versions'[a][n] = versions[a][n]
    /\ signed \subseteq signed' /\ policy' = policy

-----------------------------------------------------------------------------
(* The lookups of a stage.                                                 *)

(* Artifacts are told apart by kind, scene set and scene. *)
LEMMA Artifacts ==
    /\ \A k \in Kind \ {"image"} : Wide(k) \in Artifact /\ Wide(k).kind = k
    /\ \A n \in 1..MaxVersion, i \in 1..Scenes :
          Image(n, i) \in Artifact /\ Image(n, i).kind = "image"
    /\ \A a \in Artifact : a.kind \in Kind /\ (a.kind # "image" => a = Wide(a.kind))
    /\ Wide("none") \notin Artifact
  <1>1. ASSUME NEW k \in Kind \ {"image"} PROVE Wide(k) \in Artifact /\ Wide(k).kind = k
    BY DEF Artifact, Wide
  <1>2. ASSUME NEW n \in 1..MaxVersion, NEW i \in 1..Scenes
        PROVE  Image(n, i) \in Artifact /\ Image(n, i).kind = "image"
    BY DEF Artifact, Image
  <1>3. ASSUME NEW a \in Artifact
        PROVE  a.kind \in Kind /\ (a.kind # "image" => a = Wide(a.kind))
    <2>1. CASE \E k \in Kind \ {"image"} : a = Wide(k)
      BY <2>1 DEF Wide
    <2>2. CASE \E n \in 1..MaxVersion, i \in 1..Scenes : a = Image(n, i)
      BY <2>2 DEF Image, Kind
    <2> QED BY <2>1, <2>2 DEF Artifact
  <1>4. Wide("none") \notin Artifact
    <2>1. Wide("none").kind = "none" /\ "none" \notin Kind
      BY DEF Wide, Kind
    <2> QED BY <1>3, <2>1
  <1> QED BY <1>1, <1>2, <1>3, <1>4

(* The images of scenes of a set that was found. *)
LEMMA FramesFacts ==
    ASSUME NEW found \in Seq(0..MaxVersion), NEW m \in Nat \ {0},
           NEW scenes \in Seq(1..Scenes), NEW need \in {"content", "id", "optional"}
    PROVE  /\ Frames(found, m, scenes, need) \in Seq(LookupRow)
           /\ Len(found) < m => Frames(found, m, scenes, need) = <<>>
           /\ Len(found) >= m /\ found[m] # 0 =>
                 Len(Frames(found, m, scenes, need)) = Len(scenes)
  <1>1. CASE Len(found) < m \/ found[m] = 0
    BY <1>1, EmptySeq DEF Frames
  <1>2. CASE Len(found) >= m /\ found[m] # 0
    <2> DEFINE F == [j \in 1..Len(scenes) |-> [of |-> Image(found[m], scenes[j]), need |-> need]]
    <2>1. Frames(found, m, scenes, need) = F
      BY <1>2 DEF Frames
    <2>2. found[m] \in 1..MaxVersion
      BY <1>2, DeliveryAssumption
    <2>3. ASSUME NEW j \in 1..Len(scenes)
          PROVE  [of |-> Image(found[m], scenes[j]), need |-> need] \in LookupRow
      <3>1. scenes[j] \in 1..Scenes
        BY ElementOfSeq
      <3>2. Image(found[m], scenes[j]) \in Artifact
        BY <2>2, <3>1, Artifacts
      <3> HIDE DEF F
      <3> QED BY <3>2 DEF LookupRow
    <2>4. F \in [1..Len(scenes) -> LookupRow] /\ Len(scenes) \in Nat
      BY <2>3
    <2> HIDE DEF F
    <2>5. F \in Seq(LookupRow) /\ Len(F) = Len(scenes)
      BY <2>4
    <2>6. Len(found) \in Nat
      OBVIOUS
    <2> QED BY <1>2, <2>1, <2>5, <2>6
  <1> QED
    <2>1. Len(found) \in Nat
      OBVIOUS
    <2> QED BY <1>1, <1>2, <2>1

(* An answer to another lookup than the m-th leaves them as they are. *)
LEMMA FramesKept ==
    ASSUME NEW found \in Seq(0..MaxVersion), NEW m \in Nat \ {0}, NEW scenes, NEW need,
           NEW x \in 0..MaxVersion, Len(found) # m - 1
    PROVE  Frames(Append(found, x), m, scenes, need) = Frames(found, m, scenes, need)
  <1>1. /\ Append(found, x) \in Seq(0..MaxVersion) /\ Len(Append(found, x)) = Len(found) + 1
        /\ Len(found) \in Nat /\ \A i \in 1..Len(found) : Append(found, x)[i] = found[i]
    BY AppendProperties
  <1>2. Len(found) < m <=> Len(Append(found, x)) < m
    BY <1>1
  <1>3. Len(found) >= m => Append(found, x)[m] = found[m]
    BY <1>1
  <1> QED BY <1>1, <1>2, <1>3 DEF Frames

(* Fixed lookups, frames of the m-th, fixed lookups: an answer does not    *)
(* change what was asked up to it.                                         *)
Between(P, m, scenes, need, Q, f) == P \o Frames(f, m, scenes, need) \o Q

LEMMA FramesBetween ==
    ASSUME NEW P \in Seq(LookupRow), NEW Q \in Seq(LookupRow),
           NEW m \in Nat \ {0}, m <= Len(P),
           NEW scenes \in Seq(1..Scenes), NEW need \in {"content", "id", "optional"},
           NEW found \in Seq(0..MaxVersion), NEW x \in 0..MaxVersion,
           Len(found) < Len(Between(P, m, scenes, need, Q, found))
    PROVE  /\ Between(P, m, scenes, need, Q, found) \in Seq(LookupRow)
           /\ Len(found) + 1 <= Len(Between(P, m, scenes, need, Q, Append(found, x)))
           /\ \A i \in 1..Len(found) + 1 :
                 Between(P, m, scenes, need, Q, Append(found, x))[i]
                    = Between(P, m, scenes, need, Q, found)[i]
  <1> DEFINE F == Frames(found, m, scenes, need)
             G == Frames(Append(found, x), m, scenes, need)
  <1>1. Append(found, x) \in Seq(0..MaxVersion)
    BY AppendProperties
  <1>2. F \in Seq(LookupRow) /\ G \in Seq(LookupRow)
    <2>1. m \in Nat \ {0}
      OBVIOUS
    <2> QED BY <1>1, <2>1, FramesFacts
  <1>3. CASE Len(found) = m - 1
    <2>1. \A R \in Seq(LookupRow) :
             /\ P \o R \o Q \in Seq(LookupRow) /\ Len(P \o R \o Q) >= Len(P)
             /\ \A i \in 1..Len(P) : (P \o R \o Q)[i] = P[i]
      BY ConcatProperties
    <2>2. /\ Between(P, m, scenes, need, Q, found) = P \o F \o Q
          /\ Between(P, m, scenes, need, Q, Append(found, x)) = P \o G \o Q
      BY DEF Between
    <2> HIDE DEF F, G
    <2>3. Len(found) + 1 <= Len(P) /\ 1..Len(found) + 1 \subseteq 1..Len(P)
      BY <1>3
    <2>4. /\ P \o F \o Q \in Seq(LookupRow) /\ Len(P \o G \o Q) >= Len(P)
          /\ \A i \in 1..Len(P) : (P \o G \o Q)[i] = (P \o F \o Q)[i]
      BY <1>2, <2>1
    <2>5. P \o G \o Q \in Seq(LookupRow)
      BY <1>2, <2>1
    <2>6. Len(found) + 1 <= Len(P \o G \o Q)
      BY <2>3, <2>4, <2>5
    <2> QED BY <2>2, <2>3, <2>4, <2>6
  <1>4. CASE Len(found) # m - 1
    <2>1. G = F
      <3>1. m \in Nat \ {0}
        OBVIOUS
      <3> QED BY <1>4, <3>1, FramesKept
    <2>2. P \o F \o Q \in Seq(LookupRow)
      BY <1>2, ConcatProperties
    <2> QED BY <2>1, <2>2 DEF Between
  <1> QED BY <1>3, <1>4

(* The lookups that do not depend on what was found. *)
LEMMA Rows ==
    /\ \A a \in Artifact : Content(a) \in LookupRow /\ Id(a) \in LookupRow /\ IfAny(a) \in LookupRow
    /\ \A a : Content(a).of = a /\ Content(a).need = "content"
    /\ \A a : Id(a).of = a /\ Id(a).need = "id"
    /\ \A a : IfAny(a).of = a /\ IfAny(a).need = "optional"
  BY DEF Content, Id, IfAny, LookupRow

LEMMA FixedRows ==
    /\ ScenesBody \in Seq(LookupRow) /\ VoiceBody \in Seq(LookupRow)
    /\ RenderBody \in Seq(LookupRow) /\ CaptionBody \in Seq(LookupRow)
  <1>1. \A k \in Kind \ {"image"} : Content(Wide(k)) \in LookupRow /\ Id(Wide(k)) \in LookupRow
    BY Rows, Artifacts
  <1> QED BY <1>1 DEF ScenesBody, VoiceBody, RenderBody, CaptionBody, Kind

(* The fixed lookups before the frames of a timeline, a cover, a package.  *)
CompileRows == <<Content(Wide("scene_set")), Content(Wide("voice")), Id(Wide("scene_set"))>>
ThumbnailRows == <<Content(Wide("caption")), Content(Wide("scene_set"))>>
AssembleRows == <<Content(Wide("caption")), Content(Wide("render")), Content(Wide("thumbnail")),
                  IfAny(Wide("scene_set"))>>
LastRow == <<IfAny(Wide("render"))>>
NoRow == <<>>

LEMMA LeadingRows ==
    /\ CompileRows \in Seq(LookupRow) /\ Len(CompileRows) = 3
    /\ ThumbnailRows \in Seq(LookupRow) /\ Len(ThumbnailRows) = 2
    /\ AssembleRows \in Seq(LookupRow) /\ Len(AssembleRows) = 4
    /\ LastRow \in Seq(LookupRow) /\ NoRow \in Seq(LookupRow)
  <1>1. \A k \in Kind \ {"image"} : Content(Wide(k)) \in LookupRow /\ Id(Wide(k)) \in LookupRow
                                    /\ IfAny(Wide(k)) \in LookupRow
    BY Rows, Artifacts
  <1> QED BY <1>1, EmptySeq DEF CompileRows, ThumbnailRows, AssembleRows, LastRow, NoRow, Kind

LEMMA ScenesInOrder == AllScenes \in Seq(1..Scenes) /\ Len(AllScenes) = Scenes
  <1>1. AllScenes \in [1..Scenes -> 1..Scenes] /\ Scenes \in Nat
    BY DeliveryAssumption DEF AllScenes
  <1> QED BY <1>1

(* Every stage's lookups have one of these shapes. *)
LEMMA Shapes ==
    ASSUME NEW f \in Seq(0..MaxVersion)
    PROVE  /\ Lookups("script", f) = <<>> /\ Lookups("image", f) = <<>>
           /\ Lookups("scene_set", f) = ScenesBody /\ Lookups("voice", f) = VoiceBody
           /\ Lookups("render", f) = RenderBody /\ Lookups("caption", f) = CaptionBody
           /\ Lookups("timeline", f) = CompileRows \o Frames(f, 1, AllScenes, "content") \o <<>>
           /\ Lookups("thumbnail", f) =
                 ThumbnailRows \o Frames(f, 2, Illustrations, "optional") \o <<>>
           /\ Lookups("package", f) =
                 AssembleRows \o Frames(f, 4, AllScenes, "optional") \o LastRow
  <1>1. Frames(f, 1, AllScenes, "content") \in Seq(LookupRow)
    BY FramesFacts, ScenesInOrder
  <1>2. Frames(f, 2, Illustrations, "optional") \in Seq(LookupRow)
    BY FramesFacts, DeliveryAssumption
  <1>3. \A s \in Seq(LookupRow) : s \o <<>> = s
    BY ConcatEmptySeq
  <1>4. CompileRows \o Frames(f, 1, AllScenes, "content") \o <<>>
            = CompileRows \o Frames(f, 1, AllScenes, "content")
    BY <1>1, <1>3, LeadingRows, ConcatProperties
  <1>5. ThumbnailRows \o Frames(f, 2, Illustrations, "optional") \o <<>>
            = ThumbnailRows \o Frames(f, 2, Illustrations, "optional")
    BY <1>2, <1>3, LeadingRows, ConcatProperties
  <1>6. Lookups("timeline", f) = CompileRows \o Frames(f, 1, AllScenes, "content") \o <<>>
    BY <1>4 DEF Lookups, CompileBody, CompileRows
  <1>7. Lookups("thumbnail", f) =
            ThumbnailRows \o Frames(f, 2, Illustrations, "optional") \o <<>>
    BY <1>5 DEF Lookups, ThumbnailBody, ThumbnailRows
  <1>8. Lookups("package", f) = AssembleRows \o Frames(f, 4, AllScenes, "optional") \o LastRow
    BY DEF Lookups, AssembleBody, AssembleRows, LastRow
  <1>9. /\ Lookups("script", f) = <<>> /\ Lookups("image", f) = <<>>
        /\ Lookups("scene_set", f) = ScenesBody /\ Lookups("voice", f) = VoiceBody
        /\ Lookups("render", f) = RenderBody /\ Lookups("caption", f) = CaptionBody
    BY DEF Lookups
  <1> QED BY <1>6, <1>7, <1>8, <1>9

(* An answer does not change what was asked up to it. *)
LEMMA LookupsKept ==
    ASSUME NEW k \in Kind, NEW found \in Seq(0..MaxVersion), NEW x \in 0..MaxVersion,
           Len(found) < Len(Lookups(k, found))
    PROVE  /\ Lookups(k, found) \in Seq(LookupRow)
           /\ Len(found) + 1 <= Len(Lookups(k, Append(found, x)))
           /\ \A i \in 1..Len(found) + 1 :
                 Lookups(k, Append(found, x))[i] = Lookups(k, found)[i]
  <1>1. Append(found, x) \in Seq(0..MaxVersion) /\ Len(found) \in Nat
    BY AppendProperties
  <1>2. CASE k \in {"script", "image", "scene_set", "voice", "render", "caption"}
    <2>1. Lookups(k, Append(found, x)) = Lookups(k, found)
      BY <1>1, <1>2, Shapes
    <2>2. Lookups(k, found) \in Seq(LookupRow)
      BY <1>2, Shapes, FixedRows, LeadingRows DEF NoRow
    <2> QED BY <1>1, <2>1, <2>2
  <1>3. CASE k = "timeline"
    <2>1. \A f \in Seq(0..MaxVersion) :
             Lookups(k, f) = Between(CompileRows, 1, AllScenes, "content", NoRow, f)
      BY <1>3, Shapes DEF Between, NoRow
    <2>2. 1 \in Nat \ {0} /\ 1 <= Len(CompileRows) /\ CompileRows \in Seq(LookupRow)
          /\ NoRow \in Seq(LookupRow) /\ AllScenes \in Seq(1..Scenes)
      BY LeadingRows, ScenesInOrder
    <2>3. Len(found) < Len(Between(CompileRows, 1, AllScenes, "content", NoRow, found))
      BY <2>1
    <2>4. /\ Between(CompileRows, 1, AllScenes, "content", NoRow, found) \in Seq(LookupRow)
          /\ Len(found) + 1 <=
                Len(Between(CompileRows, 1, AllScenes, "content", NoRow, Append(found, x)))
          /\ \A i \in 1..Len(found) + 1 :
                Between(CompileRows, 1, AllScenes, "content", NoRow, Append(found, x))[i]
                   = Between(CompileRows, 1, AllScenes, "content", NoRow, found)[i]
      <3>1. "content" \in {"content", "id", "optional"}
        OBVIOUS
      <3> QED BY <2>2, <2>3, <3>1, FramesBetween
    <2> QED BY <1>1, <2>1, <2>4
  <1>4. CASE k = "thumbnail"
    <2>1. \A f \in Seq(0..MaxVersion) :
             Lookups(k, f) = Between(ThumbnailRows, 2, Illustrations, "optional", NoRow, f)
      BY <1>4, Shapes DEF Between, NoRow
    <2>2. 2 \in Nat \ {0} /\ 2 <= Len(ThumbnailRows) /\ ThumbnailRows \in Seq(LookupRow)
          /\ NoRow \in Seq(LookupRow) /\ Illustrations \in Seq(1..Scenes)
      BY LeadingRows, DeliveryAssumption
    <2>3. Len(found) < Len(Between(ThumbnailRows, 2, Illustrations, "optional", NoRow, found))
      BY <2>1
    <2>4. /\ Between(ThumbnailRows, 2, Illustrations, "optional", NoRow, found) \in Seq(LookupRow)
          /\ Len(found) + 1 <=
                Len(Between(ThumbnailRows, 2, Illustrations, "optional", NoRow, Append(found, x)))
          /\ \A i \in 1..Len(found) + 1 :
                Between(ThumbnailRows, 2, Illustrations, "optional", NoRow, Append(found, x))[i]
                   = Between(ThumbnailRows, 2, Illustrations, "optional", NoRow, found)[i]
      <3>1. "optional" \in {"content", "id", "optional"}
        OBVIOUS
      <3> QED BY <2>2, <2>3, <3>1, FramesBetween
    <2> QED BY <1>1, <2>1, <2>4
  <1>5. CASE k = "package"
    <2>1. \A f \in Seq(0..MaxVersion) :
             Lookups(k, f) = Between(AssembleRows, 4, AllScenes, "optional", LastRow, f)
      BY <1>5, Shapes DEF Between
    <2>2. 4 \in Nat \ {0} /\ 4 <= Len(AssembleRows) /\ AssembleRows \in Seq(LookupRow)
          /\ LastRow \in Seq(LookupRow) /\ AllScenes \in Seq(1..Scenes)
      BY LeadingRows, ScenesInOrder
    <2>3. Len(found) < Len(Between(AssembleRows, 4, AllScenes, "optional", LastRow, found))
      BY <2>1
    <2>4. /\ Between(AssembleRows, 4, AllScenes, "optional", LastRow, found) \in Seq(LookupRow)
          /\ Len(found) + 1 <=
                Len(Between(AssembleRows, 4, AllScenes, "optional", LastRow, Append(found, x)))
          /\ \A i \in 1..Len(found) + 1 :
                Between(AssembleRows, 4, AllScenes, "optional", LastRow, Append(found, x))[i]
                   = Between(AssembleRows, 4, AllScenes, "optional", LastRow, found)[i]
      <3>1. "optional" \in {"content", "id", "optional"}
        OBVIOUS
      <3> QED BY <2>2, <2>3, <3>1, FramesBetween
    <2> QED BY <1>1, <2>1, <2>4
  <1> QED BY <1>2, <1>3, <1>4, <1>5 DEF Kind

(* ConcatProperties, for rows. *)
LEMMA RowsConcat ==
    ASSUME NEW P \in Seq(LookupRow), NEW R \in Seq(LookupRow)
    PROVE  /\ P \o R \in Seq(LookupRow) /\ Len(P \o R) = Len(P) + Len(R)
           /\ \A i \in 1..Len(P) : (P \o R)[i] = P[i]
           /\ \A i \in 1..Len(R) : (P \o R)[Len(P) + i] = R[i]
  BY ConcatProperties

(* What is asked is an artifact's row. *)
LEMMA LookupsTyped ==
    ASSUME NEW k \in Kind, NEW found \in Seq(0..MaxVersion)
    PROVE  Lookups(k, found) \in Seq(LookupRow)
  <1>1. CASE k \in {"script", "image", "scene_set", "voice", "render", "caption"}
    BY <1>1, Shapes, FixedRows, LeadingRows DEF NoRow
  <1>2. CASE k = "timeline"
    <2>1. Frames(found, 1, AllScenes, "content") \in Seq(LookupRow)
      BY FramesFacts, ScenesInOrder
    <2>2. CompileRows \o Frames(found, 1, AllScenes, "content") \in Seq(LookupRow)
      BY <2>1, LeadingRows, RowsConcat
    <2>3. CompileRows \o Frames(found, 1, AllScenes, "content") \o NoRow \in Seq(LookupRow)
      BY <2>2, LeadingRows, RowsConcat
    <2> QED BY <1>2, <2>3, Shapes DEF NoRow
  <1>3. CASE k = "thumbnail"
    <2>1. Frames(found, 2, Illustrations, "optional") \in Seq(LookupRow)
      BY FramesFacts, DeliveryAssumption
    <2>2. ThumbnailRows \o Frames(found, 2, Illustrations, "optional") \in Seq(LookupRow)
      BY <2>1, LeadingRows, RowsConcat
    <2>3. ThumbnailRows \o Frames(found, 2, Illustrations, "optional") \o NoRow \in Seq(LookupRow)
      BY <2>2, LeadingRows, RowsConcat
    <2> QED BY <1>3, <2>3, Shapes DEF NoRow
  <1>4. CASE k = "package"
    <2>1. Frames(found, 4, AllScenes, "optional") \in Seq(LookupRow)
      BY FramesFacts, ScenesInOrder
    <2>2. AssembleRows \o Frames(found, 4, AllScenes, "optional") \in Seq(LookupRow)
      BY <2>1, LeadingRows, RowsConcat
    <2>3. AssembleRows \o Frames(found, 4, AllScenes, "optional") \o LastRow \in Seq(LookupRow)
      BY <2>2, LeadingRows, RowsConcat
    <2> QED BY <1>4, <2>3, Shapes
  <1> QED BY <1>1, <1>2, <1>3, <1>4 DEF Kind

(* A compiler that has looked everything up has a frame for every scene. *)
LEMMA WholeTimeline ==
    ASSUME NEW f \in Seq(0..MaxVersion), Len(f) = Len(Lookups("timeline", f)),
           \A i \in 1..Len(f) : Lookups("timeline", f)[i].need # "optional" => f[i] # 0
    PROVE  /\ Len(f) = 3 + Scenes /\ \A i \in 1..3 + Scenes : f[i] # 0
           /\ Lookups("timeline", f)[2].of = Wide("voice")
  <1> DEFINE F == Frames(f, 1, AllScenes, "content")
  <1>1. F \in Seq(LookupRow) /\ (Len(f) >= 1 /\ f[1] # 0 => Len(F) = Scenes)
    BY FramesFacts, ScenesInOrder
  <1>2. \A j \in 1..Len(F) : F[j].need = "content"
    BY ScenesInOrder, EmptySeq DEF Frames
  <1>3. /\ CompileRows[1].need = "content" /\ CompileRows[2].need = "content"
        /\ CompileRows[3].need = "id" /\ CompileRows[2].of = Wide("voice")
    BY Rows DEF CompileRows
  <1> HIDE DEF F
  <1>4. Lookups("timeline", f) = CompileRows \o F
    <2>1. Lookups("timeline", f) = CompileRows \o F \o <<>>
      BY Shapes DEF F
    <2>2. CompileRows \o F \in Seq(LookupRow)
      BY <1>1, LeadingRows, ConcatProperties
    <2> QED BY <2>1, <2>2, ConcatEmptySeq
  <1>5. /\ Len(CompileRows \o F) = 3 + Len(F)
        /\ \A i \in 1..3 : (CompileRows \o F)[i] = CompileRows[i]
        /\ \A i \in 1..Len(F) : (CompileRows \o F)[3 + i] = F[i]
    <2>1. CompileRows \in Seq(LookupRow) /\ Len(CompileRows) = 3
      BY LeadingRows
    <2>2. /\ Len(CompileRows \o F) = Len(CompileRows) + Len(F)
          /\ \A i \in 1..Len(CompileRows) : (CompileRows \o F)[i] = CompileRows[i]
          /\ \A i \in 1..Len(F) : (CompileRows \o F)[Len(CompileRows) + i] = F[i]
      BY <1>1, <2>1, RowsConcat
    <2> QED BY <2>1, <2>2
  <1>6. Len(f) = 3 + Len(F) /\ Len(F) \in Nat
    BY <1>1, <1>4, <1>5
  <1>7. \A i \in 1..3 + Len(F) : (CompileRows \o F)[i].need # "optional"
    <2>1. ASSUME NEW i \in 1..3 PROVE (CompileRows \o F)[i].need # "optional"
      BY <1>3, <1>5
    <2>2. ASSUME NEW i \in 1..Len(F) PROVE (CompileRows \o F)[3 + i].need # "optional"
      BY <1>2, <1>5
    <2>3. \A i \in 1..3 + Len(F) : i \in 1..3 \/ (i - 3 \in 1..Len(F) /\ i = 3 + (i - 3))
      BY <1>6
    <2> QED BY <2>1, <2>2, <2>3
  <1>8. \A i \in 1..3 + Len(F) : f[i] # 0
    BY <1>4, <1>6, <1>7
  <1>9. Len(F) = Scenes
    BY <1>1, <1>6, <1>8
  <1> QED BY <1>3, <1>4, <1>5, <1>6, <1>8, <1>9

-----------------------------------------------------------------------------
(* What growth keeps.                                                      *)

LEMMA ReviewedGrows ==
    ASSUME NEW a \in Artifact, NEW n,
           versions \in [Artifact -> Seq(Version)], versions' \in [Artifact -> Seq(Version)],
           Reviewed(a, n), Grows
    PROVE  Reviewed(a, n)'
  <1>1. n \in 1..Len(versions[a]) /\ Answered(a, n)
    BY DEF Reviewed
  <1>2. n \in 1..Len(versions'[a])
    <2>1. Len(versions[a]) \in Nat /\ Len(versions'[a]) \in Nat
      OBVIOUS
    <2> QED BY <1>1, <2>1 DEF Grows
  <1>3. versions'[a][n].origin = versions[a][n].origin
    BY <1>1 DEF Grows
  <1>4. Unattended(a) => Unattended(a)'
    BY DEF Grows, Unattended
  <1>5. Answered(a, n)'
    BY <1>1, <1>3, <1>4 DEF Grows, Answered
  <1> QED BY <1>2, <1>5 DEF Reviewed

LEMMA FoundGrows ==
    ASSUME NEW k \in Kind, NEW found \in Seq(0..MaxVersion),
           versions \in [Artifact -> Seq(Version)], versions' \in [Artifact -> Seq(Version)],
           FoundOK(k, found), Grows
    PROVE  FoundOK(k, found)'
  <1>1. ASSUME NEW i \in 1..Len(found), found[i] # 0
        PROVE  Reviewed(Lookups(k, found)[i].of, found[i])'
    <2>1. PICK a \in Artifact, n \in 0..MaxVersion :
              a = Lookups(k, found)[i].of /\ n = found[i]
      <3>1. Lookups(k, found)[i] \in LookupRow
        BY LookupsTyped DEF FoundOK
      <3>2. found[i] \in 0..MaxVersion
        BY ElementOfSeq
      <3> QED BY <3>1, <3>2 DEF LookupRow
    <2>2. Reviewed(a, n)
      BY <1>1, <2>1 DEF FoundOK
    <2>3. Reviewed(a, n)'
      BY <2>2, ReviewedGrows
    <2> QED BY <2>1, <2>3
  <1> QED BY <1>1 DEF FoundOK

LEMMA BuildGrows ==
    ASSUME NEW a \in Artifact, NEW from \in Seq(0..MaxVersion),
           versions \in [Artifact -> Seq(Version)], versions' \in [Artifact -> Seq(Version)],
           BuildOK(a, from), Grows
    PROVE  BuildOK(a, from)'
  <1>1. FoundOK(a.kind, from)'
    BY Artifacts, FoundGrows DEF BuildOK
  <1>2. Wide("voice") \in Artifact
    BY Artifacts DEF Kind
  <1>3. ASSUME NEW n \in 1..Len(versions[Wide("voice")])
        PROVE  /\ n \in 1..Len(versions'[Wide("voice")])
               /\ versions'[Wide("voice")][n] = versions[Wide("voice")][n]
    BY <1>2 DEF Grows
  <1> QED BY <1>1, <1>3 DEF BuildOK

LEMMA VersionsKept ==
    ASSUME TypeOK, TypeOK', VersionsOK, Grows,
           \A a \in Artifact, from \in Seq(0..MaxVersion) : \A n \in 1..Len(versions'[a]) :
               n > Len(versions[a]) /\ versions'[a][n].from = from => BuildOK(a, from)'
    PROVE  VersionsOK'
  <1>1. ASSUME NEW a \in Artifact, NEW from \in Seq(0..MaxVersion),
               NEW n \in 1..Len(versions'[a]), versions'[a][n].from = from
        PROVE  BuildOK(a, from)'
    <2>1. versions[a] \in Seq(Version) /\ versions'[a] \in Seq(Version)
      BY DEF TypeOK
    <2>2. CASE n > Len(versions[a])
      BY <1>1, <2>2
    <2>3. CASE n \in 1..Len(versions[a])
      <3>1. versions[a][n].from = from
        BY <1>1, <2>3 DEF Grows
      <3>2. BuildOK(a, from)
        BY <2>3, <3>1 DEF VersionsOK
      <3> QED BY <3>2, BuildGrows DEF TypeOK
    <2> QED BY <2>1, <2>2, <2>3
  <1> QED BY <1>1 DEF VersionsOK

LEMMA BodyKept ==
    ASSUME TypeOK, TypeOK', BodiesOK, Grows,
           NEW u \in Worker, NEW a \in Artifact, NEW found \in Seq(0..MaxVersion),
           body[u].makes = a, body[u].found = found,
           state'[a] = state[a], versions'[a] = versions[a]
    PROVE  BodyOK(a, found)'
  <1>1. BodyOK(a, found)
    BY DEF BodiesOK
  <1>2. a.kind \in Kind
    BY Artifacts
  <1>3. FoundOK(a.kind, found)'
    BY <1>1, <1>2, FoundGrows DEF BodyOK, TypeOK
  <1> QED BY <1>1, <1>3 DEF BodyOK

(* A step that adds no version. *)
LEMMA NoVersion ==
    ASSUME IInv, TypeOK', UNCHANGED <<versions, policy>>, signed \subseteq signed'
    PROVE  /\ Grows /\ VersionsOK'
           /\ \A a \in Artifact : Len(versions'[a]) <= MaxVersion
  <1>1. \A a \in Artifact : Len(versions[a]) \in Nat
    BY DEF IInv, TypeOK
  <1>2. Grows
    BY <1>1 DEF Grows
  <1>3. VersionsOK'
    <2>1. ASSUME NEW a \in Artifact, NEW n \in 1..Len(versions'[a]) PROVE ~(n > Len(versions[a]))
      BY <1>1
    <2> QED BY <1>2, <2>1, VersionsKept DEF IInv
  <1> QED BY <1>2, <1>3 DEF IInv

LEMMA ApprovalsKept ==
    ASSUME TypeOK, TypeOK', ApprovalsExist, Grows, UNCHANGED approvals
    PROVE  ApprovalsExist'
  <1>1. ASSUME NEW a \in Artifact, NEW n \in 1..MaxVersion, NEW i \in 1..Len(approvals'[a]),
               approvals'[a][i] = n
        PROVE  Reviewed(a, n)'
    <2>1. Reviewed(a, n)
      BY <1>1 DEF ApprovalsExist
    <2> QED BY <2>1, ReviewedGrows DEF TypeOK
  <1> QED BY <1>1 DEF ApprovalsExist

(* A version approved is one there is. *)
LEMMA Answers ==
    ASSUME TypeOK, ApprovalsExist, NEW lookup \in LookupRow
    PROVE  /\ Found(lookup) \in 0..MaxVersion
           /\ Found(lookup) # 0 => Reviewed(lookup.of, Found(lookup))
  <1>1. PICK a \in Artifact : a = lookup.of
    BY DEF LookupRow
  <1>2. approvals[a] \in Seq(1..MaxVersion) /\ MaxVersion \in Nat
    BY DeliveryAssumption DEF TypeOK
  <1>3. CASE approvals[a] = <<>>
    BY <1>1, <1>2, <1>3 DEF Found, ApprovedVersion
  <1>4. CASE approvals[a] # <<>>
    <2>1. Len(approvals[a]) \in 1..Len(approvals[a])
      BY <1>2, <1>4
    <2>2. PICK n \in 1..MaxVersion : n = approvals[a][Len(approvals[a])]
      BY <1>2, <2>1
    <2>3. ApprovedVersion(a) = n
      BY <1>4, <2>2 DEF ApprovedVersion
    <2>4. Reviewed(a, n)
      BY <2>1, <2>2 DEF ApprovalsExist
    <2>5. Found(lookup) \in {0, n}
      BY <1>1, <2>3 DEF Found
    <2> QED BY <1>1, <1>2, <2>4, <2>5
  <1> QED BY <1>3, <1>4

-----------------------------------------------------------------------------
(* The actions.                                                            *)

LEMMA StartStep ==
    ASSUME IInv, NEW w \in Worker, NEW b \in Artifact, Start(w, b)
    PROVE  IInv'
  <1> USE DEF IInv
  <1>1. state[b] # "GENERATING"
    BY DEF Start, MayApply, ArtifactTable
  <1>2. /\ body' = [body EXCEPT ![w] = [makes |-> b, found |-> <<>>]]
        /\ state' = [state EXCEPT ![b] = "GENERATING"]
        /\ UNCHANGED <<policy, versions, approvals, signed>>
        /\ Len(versions[b]) < MaxVersion
    BY DEF Start
  <1>3. again' \in 0..MaxAgain
    BY DeliveryAssumption DEF Start, ChangesMind, TypeOK
  <1>4. [makes |-> b, found |-> <<>>]
            \in [makes : Artifact \cup {Wide("none")}, found : Seq(0..MaxVersion)]
    BY EmptySeq
  <1>5. TypeOK'
    BY <1>2, <1>3, <1>4 DEF TypeOK, ArtifactState
  <1>6. Grows /\ VersionsOK' /\ \A a \in Artifact : Len(versions'[a]) <= MaxVersion
    BY <1>2, <1>5, NoVersion
  <1>7. body'[w].makes = b /\ body'[w].found = <<>>
        /\ \A u \in Worker \ {w} : body'[u] = body[u]
    BY <1>2 DEF TypeOK
  <1>8. state'[b] = "GENERATING" /\ \A a \in Artifact \ {b} : state'[a] = state[a]
    BY <1>2 DEF TypeOK
  <1>9. \A u \in Worker : body[u].makes # b
    <2>1. ASSUME NEW u \in Worker, body[u].makes = b PROVE FALSE
      <3>1. body[u].found \in Seq(0..MaxVersion)
        BY DEF TypeOK
      <3>2. PICK found \in Seq(0..MaxVersion) : body[u].found = found
        BY <3>1
      <3>3. BodyOK(b, found)
        BY <2>1, <3>2 DEF BodiesOK
      <3> QED BY <1>1, <3>3 DEF BodyOK
    <2> QED BY <2>1
  <1>10. BodiesOK'
    <2>1. ASSUME NEW u \in Worker, NEW a \in Artifact, NEW found \in Seq(0..MaxVersion),
                 body'[u].makes = a, body'[u].found = found
          PROVE  BodyOK(a, found)'
      <3>1. CASE u = w
        <4>1. a = b /\ found = <<>> /\ Len(found) = 0
          BY <1>7, <2>1, <3>1
        <4>2. Lookups(a.kind, found) \in Seq(LookupRow)
          BY LookupsTyped, Artifacts
        <4>3. FoundOK(a.kind, found)'
          BY <4>1, <4>2 DEF FoundOK
        <4> QED BY <1>2, <1>8, <4>1, <4>3 DEF BodyOK
      <3>2. CASE u # w
        <4>1. body[u].makes = a /\ body[u].found = found
          BY <1>7, <2>1, <3>2
        <4>2. state'[a] = state[a] /\ versions'[a] = versions[a]
          BY <1>2, <1>8, <1>9, <4>1
        <4> QED BY <1>5, <1>6, <4>1, <4>2, BodyKept
      <3> QED BY <3>1, <3>2
    <2> QED BY <2>1 DEF BodiesOK
  <1>11. OwnArtifacts'
    BY <1>7, <1>9 DEF OwnArtifacts
  <1>12. IdleOrBusy'
    BY <1>7 DEF IdleOrBusy
  <1>13. ApprovalsExist'
    BY <1>2, <1>5, <1>6, ApprovalsKept
  <1> QED BY <1>5, <1>6, <1>10, <1>11, <1>12, <1>13

(* Somebody decides about an artifact nobody is making. *)
LEMMA Decided ==
    ASSUME IInv, TypeOK', Grows, UNCHANGED body, NEW b \in Artifact, state[b] # "GENERATING",
           \A a \in Artifact \ {b} : state'[a] = state[a] /\ versions'[a] = versions[a]
    PROVE  BodiesOK' /\ OwnArtifacts' /\ IdleOrBusy'
  <1> USE DEF IInv
  <1>1. BodiesOK'
    <2>1. ASSUME NEW u \in Worker, NEW a \in Artifact, NEW found \in Seq(0..MaxVersion),
                 body'[u].makes = a, body'[u].found = found
          PROVE  BodyOK(a, found)'
      <3>1. body[u].makes = a /\ body[u].found = found
        BY <2>1
      <3>2. a # b
        BY <3>1 DEF BodiesOK, BodyOK
      <3> QED BY <3>1, <3>2, BodyKept
    <2> QED BY <2>1 DEF BodiesOK
  <1>2. OwnArtifacts' /\ IdleOrBusy'
    BY DEF OwnArtifacts, IdleOrBusy
  <1> QED BY <1>1, <1>2

LEMMA WithoutFacts ==
    ASSUME NEW S, NEW seq \in Seq(S), NEW n
    PROVE  /\ Without(seq, n) \in Seq(S)
           /\ \A i \in 1..Len(Without(seq, n)) :
                 \E j \in 1..Len(seq) : Without(seq, n)[i] = seq[j]
  <1>1. CASE \A i \in 1..Len(seq) : seq[i] # n
    BY <1>1 DEF Without
  <1>2. CASE \E i \in 1..Len(seq) : seq[i] = n
    <2> DEFINE at == CHOOSE i \in 1..Len(seq) : seq[i] = n
               T == [i \in 1..Len(seq) - 1 |-> seq[IF i < at THEN i ELSE i + 1]]
    <2>1. Without(seq, n) = T
      BY <1>2 DEF Without
    <2>2. at \in 1..Len(seq) /\ Len(seq) - 1 \in Nat
      BY <1>2
    <2> HIDE DEF at
    <2>3. \A i \in 1..Len(seq) - 1 : (IF i < at THEN i ELSE i + 1) \in 1..Len(seq)
      BY <2>2
    <2>4. T \in [1..Len(seq) - 1 -> S]
      BY <2>3, ElementOfSeq
    <2>5. \A i \in 1..Len(seq) - 1 : \E j \in 1..Len(seq) : T[i] = seq[j]
      BY <2>3
    <2> HIDE DEF T
    <2>6. T \in Seq(S) /\ Len(T) = Len(seq) - 1
      BY <2>2, <2>4
    <2> QED BY <2>1, <2>5, <2>6
  <1> QED BY <1>1, <1>2

LEMMA WithoutElements ==
    ASSUME NEW seq \in Seq(1..MaxVersion), NEW n, NEW i \in 1..Len(Without(seq, n))
    PROVE  \E j \in 1..Len(seq) : seq[j] = Without(seq, n)[i]
  BY WithoutFacts

LEMMA ApprovedElements ==
    ASSUME NEW seq \in Seq(1..MaxVersion), NEW n \in 1..MaxVersion,
           NEW i \in 1..Len(Append(Without(seq, n), n))
    PROVE  \/ Append(Without(seq, n), n)[i] = n
           \/ \E j \in 1..Len(seq) : seq[j] = Append(Without(seq, n), n)[i]
  <1> DEFINE W == Without(seq, n)
  <1>1. W \in Seq(1..MaxVersion)
    BY WithoutFacts
  <1>2. \A l \in 1..Len(W) : \E j \in 1..Len(seq) : seq[j] = W[l]
    BY WithoutElements
  <1>3. i \in 1..Len(Append(W, n))
    OBVIOUS
  <1>4. Append(W, n)[i] = n \/ \E j \in 1..Len(seq) : seq[j] = Append(W, n)[i]
    <2> HIDE DEF W
    <2>1. Append(W, n)[i] = n \/ \E l \in 1..Len(W) : Append(W, n)[i] = W[l]
      BY <1>1, <1>3
    <2> QED BY <1>2, <2>1
  <1> QED BY <1>4

LEMMA ApproveStep ==
    ASSUME IInv, NEW b \in Artifact, NEW n \in 1..Len(versions[b]), Approve(b, n)
    PROVE  IInv'
  <1> USE DEF IInv
  <1>1. state[b] # "GENERATING"
    BY DEF Approve, MayApply, ArtifactTable
  <1>2. /\ state' = [state EXCEPT ![b] = "APPROVED"]
        /\ approvals' = [approvals EXCEPT ![b] = Append(Without(approvals[b], n), n)]
        /\ signed' = signed \cup {<<b, n>>} /\ UNCHANGED <<policy, versions, body, again>>
    BY DEF Approve, Target, ArtifactTable
  <1>3. n \in 1..MaxVersion
    <2>1. Len(versions[b]) \in Nat /\ Len(versions[b]) <= MaxVersion /\ MaxVersion \in Nat
      BY DeliveryAssumption DEF TypeOK
    <2> QED BY <2>1
  <1>4. /\ approvals[b] \in Seq(1..MaxVersion)
        /\ Without(approvals[b], n) \in Seq(1..MaxVersion)
        /\ Append(Without(approvals[b], n), n) \in Seq(1..MaxVersion)
    <2>1. approvals[b] \in Seq(1..MaxVersion)
      BY DEF TypeOK
    <2>2. Without(approvals[b], n) \in Seq(1..MaxVersion)
      BY <2>1, WithoutFacts
    <2> QED BY <1>3, <2>1, <2>2, AppendProperties
  <1>5. TypeOK'
    BY <1>2, <1>3, <1>4 DEF TypeOK, ArtifactState
  <1>6. Grows /\ VersionsOK' /\ \A a \in Artifact : Len(versions'[a]) <= MaxVersion
    BY <1>2, <1>5, NoVersion
  <1>7. BodiesOK' /\ OwnArtifacts' /\ IdleOrBusy'
    <2>1. \A a \in Artifact \ {b} : state'[a] = state[a] /\ versions'[a] = versions[a]
      BY <1>2 DEF TypeOK
    <2> QED BY <1>1, <1>2, <1>5, <1>6, <2>1, Decided
  <1>8. Reviewed(b, n)'
    BY <1>2 DEF Reviewed, Answered
  <1>9. ApprovalsExist'
    <2>1. ASSUME NEW a \in Artifact, NEW m \in 1..MaxVersion, NEW i \in 1..Len(approvals'[a]),
                 approvals'[a][i] = m
          PROVE  Reviewed(a, m)'
      <3>1. CASE a # b
        <4>1. approvals'[a] = approvals[a]
          BY <1>2, <3>1 DEF TypeOK
        <4>2. Reviewed(a, m)
          BY <2>1, <4>1 DEF ApprovalsExist
        <4> QED BY <1>5, <1>6, <4>2, ReviewedGrows DEF TypeOK
      <3>2. CASE a = b
        <4>1. PICK seq \in Seq(1..MaxVersion) : seq = approvals[b]
          BY <1>4
        <4>2. approvals'[b] = Append(Without(seq, n), n)
          BY <1>2, <4>1 DEF TypeOK
        <4>3. m = n \/ \E l \in 1..Len(seq) : seq[l] = m
          BY <1>3, <2>1, <3>2, <4>2, ApprovedElements
        <4>4. m = n \/ Reviewed(b, m)
          BY <4>1, <4>3 DEF ApprovalsExist
        <4>5. Reviewed(b, m) => Reviewed(b, m)'
          BY <1>5, <1>6, ReviewedGrows DEF TypeOK
        <4> QED BY <1>8, <3>2, <4>4, <4>5
      <3> QED BY <3>1, <3>2
    <2> QED BY <2>1 DEF ApprovalsExist
  <1> QED BY <1>5, <1>6, <1>7, <1>9

LEMMA RejectStep ==
    ASSUME IInv, NEW b \in Artifact, NEW n \in 1..Len(versions[b]), Reject(b, n)
    PROVE  IInv'
  <1> USE DEF IInv
  <1>1. state[b] # "GENERATING"
    BY DEF Reject, MayApply, ArtifactTable
  <1>2. /\ state' = [state EXCEPT ![b] = "REJECTED"]
        /\ approvals' = [approvals EXCEPT ![b] = Without(approvals[b], n)]
        /\ UNCHANGED <<policy, versions, body, signed>>
    BY DEF Reject, Target, ArtifactTable
  <1>3. again' \in 0..MaxAgain
    BY DeliveryAssumption DEF Reject, ChangesMind, TypeOK
  <1>4. /\ approvals[b] \in Seq(1..MaxVersion)
        /\ Without(approvals[b], n) \in Seq(1..MaxVersion)
    <2>1. approvals[b] \in Seq(1..MaxVersion)
      BY DEF TypeOK
    <2> QED BY <2>1, WithoutFacts
  <1>5. TypeOK'
    BY <1>2, <1>3, <1>4 DEF TypeOK, ArtifactState
  <1>6. Grows /\ VersionsOK' /\ \A a \in Artifact : Len(versions'[a]) <= MaxVersion
    BY <1>2, <1>5, NoVersion
  <1>7. BodiesOK' /\ OwnArtifacts' /\ IdleOrBusy'
    <2>1. \A a \in Artifact \ {b} : state'[a] = state[a] /\ versions'[a] = versions[a]
      BY <1>2 DEF TypeOK
    <2> QED BY <1>1, <1>2, <1>5, <1>6, <2>1, Decided
  <1>8. ApprovalsExist'
    <2>1. ASSUME NEW a \in Artifact, NEW m \in 1..MaxVersion, NEW i \in 1..Len(approvals'[a]),
                 approvals'[a][i] = m
          PROVE  Reviewed(a, m)'
      <3>1. \E l \in 1..Len(approvals[a]) : approvals[a][l] = m
        <4>1. CASE a # b
          <5>1. approvals'[a] = approvals[a]
            BY <1>2, <4>1 DEF TypeOK
          <5> QED BY <2>1, <5>1
        <4>2. CASE a = b
          <5>1. PICK seq \in Seq(1..MaxVersion) : seq = approvals[b]
            BY <1>4
          <5>2. approvals'[b] = Without(seq, n)
            BY <1>2, <5>1 DEF TypeOK
          <5>3. \E l \in 1..Len(seq) : seq[l] = m
            BY <2>1, <4>2, <5>2, WithoutElements
          <5> QED BY <4>2, <5>1, <5>3
        <4> QED BY <4>1, <4>2
      <3>2. Reviewed(a, m)
        BY <3>1 DEF ApprovalsExist
      <3> QED BY <1>5, <1>6, <3>2, ReviewedGrows DEF TypeOK
    <2> QED BY <2>1 DEF ApprovalsExist
  <1> QED BY <1>5, <1>6, <1>7, <1>8

(* A new version of an artifact, and nothing else's. *)
LEMMA Added ==
    ASSUME IInv, NEW b \in Artifact, NEW origin \in Origin, NEW whole \in BOOLEAN,
           NEW from \in Seq(0..MaxVersion), AddVersion(b, origin, whole, from),
           Len(versions[b]) < MaxVersion, UNCHANGED <<policy, signed>>
    PROVE  /\ versions' \in [Artifact -> Seq(Version)] /\ Grows
           /\ \A a \in Artifact \ {b} : versions'[a] = versions[a]
           /\ Len(versions'[b]) = Len(versions[b]) + 1
           /\ versions'[b][Len(versions[b]) + 1].from = from
           /\ versions'[b][Len(versions[b]) + 1].origin = origin
           /\ \A a \in Artifact : Len(versions'[a]) <= MaxVersion
  <1> DEFINE v == [origin |-> origin, whole |-> whole, from |-> from]
  <1>1. v \in Version /\ v.from = from /\ v.origin = origin
    BY DEF Version
  <1>2. versions' = [versions EXCEPT ![b] = Append(versions[b], v)]
    BY DEF AddVersion
  <1> HIDE DEF v
  <1>3. versions \in [Artifact -> Seq(Version)] /\ versions[b] \in Seq(Version)
    BY DEF IInv, TypeOK
  <1>4. /\ Append(versions[b], v) \in Seq(Version)
        /\ Len(Append(versions[b], v)) = Len(versions[b]) + 1
        /\ \A n \in 1..Len(versions[b]) : Append(versions[b], v)[n] = versions[b][n]
        /\ Append(versions[b], v)[Len(versions[b]) + 1] = v
    BY <1>1, <1>3, AppendProperties
  <1>5. /\ versions'[b] = Append(versions[b], v)
        /\ \A a \in Artifact \ {b} : versions'[a] = versions[a]
    BY <1>2, <1>3
  <1>6. versions' \in [Artifact -> Seq(Version)]
    BY <1>2, <1>3, <1>4
  <1>7. \A a \in Artifact : Len(versions[a]) \in Nat /\ Len(versions[a]) <= MaxVersion
    BY <1>3 DEF IInv
  <1>8. Grows
    <2>1. ASSUME NEW a \in Artifact
          PROVE  /\ Len(versions[a]) <= Len(versions'[a])
                 /\ \A n \in 1..Len(versions[a]) : versions'[a][n] = versions[a][n]
      <3>1. CASE a = b
        <4>1. Len(versions[b]) <= Len(versions'[b])
          BY <1>4, <1>5, <1>7
        <4>2. \A n \in 1..Len(versions[b]) : versions'[b][n] = versions[b][n]
          BY <1>4, <1>5
        <4> QED BY <3>1, <4>1, <4>2
      <3>2. CASE a # b
        BY <1>5, <1>7, <3>2
      <3> QED BY <3>1, <3>2
    <2> QED BY <2>1 DEF Grows
  <1>9. \A a \in Artifact : Len(versions'[a]) <= MaxVersion
    <2>1. Len(versions[b]) + 1 <= MaxVersion
      BY <1>7, DeliveryAssumption
    <2> QED BY <1>4, <1>5, <1>7, <2>1
  <1> QED BY <1>1, <1>4, <1>5, <1>6, <1>8, <1>9

(* ... is built as the body or the edit says. *)
LEMMA AddedOK ==
    ASSUME IInv, TypeOK', NEW b \in Artifact, NEW origin \in Origin, NEW whole \in BOOLEAN,
           NEW from \in Seq(0..MaxVersion), AddVersion(b, origin, whole, from),
           Len(versions[b]) < MaxVersion, UNCHANGED <<policy, signed>>, BuildOK(b, from)
    PROVE  VersionsOK'
  <1>1. /\ Grows /\ \A a \in Artifact \ {b} : versions'[a] = versions[a]
        /\ Len(versions'[b]) = Len(versions[b]) + 1
        /\ versions'[b][Len(versions[b]) + 1].from = from
    BY Added
  <1>2. \A a \in Artifact : Len(versions[a]) \in Nat
    BY DEF IInv, TypeOK
  <1>3. BuildOK(b, from)'
    BY <1>1, BuildGrows DEF IInv, TypeOK
  <1>4. ASSUME NEW a \in Artifact, NEW f \in Seq(0..MaxVersion), NEW n \in 1..Len(versions'[a]),
               n > Len(versions[a]), versions'[a][n].from = f
        PROVE  BuildOK(a, f)'
    <2>1. a = b
      BY <1>1, <1>2, <1>4
    <2>2. n = Len(versions[b]) + 1
      BY <1>1, <1>2, <1>4, <2>1
    <2>3. f = from
      BY <1>1, <1>4, <2>1, <2>2
    <2> QED BY <1>3, <2>1, <2>3
  <1> QED BY <1>1, <1>4, VersionsKept DEF IInv

LEMMA EditStep ==
    ASSUME IInv, NEW b \in Artifact, Edit(b)
    PROVE  IInv'
  <1> USE DEF IInv
  <1>1. state[b] # "GENERATING"
    BY DEF Edit, MayApply, ArtifactTable, ArtifactState
  <1>2. /\ state' = [state EXCEPT ![b] = "AWAITING_APPROVAL"]
        /\ versions[b] # <<>> /\ Len(versions[b]) < MaxVersion
        /\ UNCHANGED <<policy, approvals, body, signed>>
    BY DEF Edit, Lands, Target, ArtifactTable
  <1>3. again' \in 0..MaxAgain
    BY DeliveryAssumption DEF Edit, ChangesMind, TypeOK
  <1>4. versions[b] \in Seq(Version) /\ Len(versions[b]) \in 1..Len(versions[b])
    <2>1. versions[b] \in Seq(Version)
      BY DEF TypeOK
    <2> QED BY <1>2, <2>1
  <1>5. versions[b][Len(versions[b])].from \in Seq(0..MaxVersion)
    <2>1. versions[b][Len(versions[b])] \in Version
      BY <1>4, ElementOfSeq
    <2> QED BY <2>1 DEF Version
  <1>6. PICK from \in Seq(0..MaxVersion) : from = versions[b][Len(versions[b])].from
    BY <1>5
  <1> DEFINE whole == b.kind \in {"script", "caption", "timeline"}
  <1>7. whole \in BOOLEAN
    OBVIOUS
  <1>8. AddVersion(b, "human_edit", whole, from) /\ "human_edit" \in Origin
    BY <1>6 DEF Edit, Origin
  <1> HIDE DEF whole
  <1>9. BuildOK(b, from)
    BY <1>4, <1>6 DEF VersionsOK
  <1>10. /\ versions' \in [Artifact -> Seq(Version)] /\ Grows
         /\ \A a \in Artifact \ {b} : versions'[a] = versions[a]
         /\ \A a \in Artifact : Len(versions'[a]) <= MaxVersion
    BY <1>2, <1>7, <1>8, Added
  <1>11. TypeOK'
    BY <1>2, <1>3, <1>10 DEF TypeOK, ArtifactState
  <1>12. VersionsOK'
    BY <1>2, <1>7, <1>8, <1>9, <1>11, AddedOK
  <1>13. BodiesOK' /\ OwnArtifacts' /\ IdleOrBusy'
    <2>1. \A a \in Artifact \ {b} : state'[a] = state[a] /\ versions'[a] = versions[a]
      BY <1>2, <1>10 DEF TypeOK
    <2> QED BY <1>1, <1>2, <1>10, <1>11, <2>1, Decided
  <1>14. ApprovalsExist'
    BY <1>2, <1>10, <1>11, ApprovalsKept
  <1> QED BY <1>10, <1>11, <1>12, <1>13, <1>14

(* A body that is running has an artifact and what it has found so far. *)
LEMMA Running ==
    ASSUME IInv, NEW w \in Worker, body[w] # Idle
    PROVE  \E a \in Artifact, found \in Seq(0..MaxVersion) :
              /\ body[w].makes = a /\ body[w].found = found /\ BodyOK(a, found)
              /\ LooksFor(w) = Lookups(a.kind, found) /\ a.kind \in Kind
  <1>1. body[w].makes \in Artifact /\ body[w].found \in Seq(0..MaxVersion)
    BY DEF IInv, TypeOK, IdleOrBusy
  <1>2. PICK a \in Artifact, found \in Seq(0..MaxVersion) :
            body[w].makes = a /\ body[w].found = found
    BY <1>1
  <1>3. BodyOK(a, found)
    BY <1>2 DEF IInv, BodiesOK
  <1>4. a.kind \in Kind
    BY Artifacts
  <1> QED BY <1>2, <1>3, <1>4 DEF LooksFor

LEMMA LookStep ==
    ASSUME IInv, NEW w \in Worker, Look(w)
    PROVE  IInv'
  <1> USE DEF IInv
  <1>1. PICK a \in Artifact, found \in Seq(0..MaxVersion) :
            /\ body[w].makes = a /\ body[w].found = found /\ BodyOK(a, found)
            /\ LooksFor(w) = Lookups(a.kind, found) /\ a.kind \in Kind
    BY Running DEF Look
  <1>2. Len(found) < Len(Lookups(a.kind, found)) /\ Lookups(a.kind, found) \in Seq(LookupRow)
    <2>1. Lookups(a.kind, found) \in Seq(LookupRow)
      BY <1>1, LookupsTyped
    <2>2. Len(found) # Len(Lookups(a.kind, found)) /\ Len(found) <= Len(Lookups(a.kind, found))
      BY <1>1 DEF Look, Looked, BodyOK, FoundOK
    <2> QED BY <2>1, <2>2
  <1>3. PICK lookup \in LookupRow : lookup = Lookups(a.kind, found)[Len(found) + 1]
    <2>1. Len(found) + 1 \in 1..Len(Lookups(a.kind, found))
      BY <1>2
    <2> QED BY <1>2, <2>1, ElementOfSeq
  <1>4. PICK x \in 0..MaxVersion : x = Found(lookup)
    BY Answers
  <1>5. /\ x # 0 => Reviewed(lookup.of, x)
        /\ lookup.need # "optional" => x # 0
    BY <1>1, <1>3, <1>4, Answers DEF Look
  <1>6. /\ body' = [body EXCEPT ![w].found = Append(found, x)]
        /\ UNCHANGED <<policy, state, versions, approvals, signed, again>>
    BY <1>1, <1>3, <1>4 DEF Look
  <1>7. /\ Append(found, x) \in Seq(0..MaxVersion) /\ Len(Append(found, x)) = Len(found) + 1
        /\ \A i \in 1..Len(found) : Append(found, x)[i] = found[i]
        /\ Append(found, x)[Len(found) + 1] = x
    BY AppendProperties
  <1>8. TypeOK'
    BY <1>6, <1>7 DEF TypeOK
  <1>9. /\ body'[w].makes = a /\ body'[w].found = Append(found, x)
        /\ \A u \in Worker \ {w} : body'[u] = body[u]
    BY <1>1, <1>6 DEF TypeOK
  <1>10. Grows /\ VersionsOK' /\ \A b \in Artifact : Len(versions'[b]) <= MaxVersion
    BY <1>6, <1>8, NoVersion
  <1>11. FoundOK(a.kind, Append(found, x))
    <2> DEFINE L == Lookups(a.kind, found)
               M == Lookups(a.kind, Append(found, x))
    <2>1. Len(found) + 1 <= Len(M) /\ \A i \in 1..Len(found) + 1 : M[i] = L[i]
      BY <1>1, <1>2, LookupsKept
    <2>2. L[Len(found) + 1] = lookup
      BY <1>3
    <2>3. \A i \in 1..Len(found) :
              /\ found[i] # 0 => Reviewed(L[i].of, found[i])
              /\ L[i].need # "optional" => found[i] # 0
      BY <1>1 DEF BodyOK, FoundOK
    <2> HIDE DEF L, M
    <2>4. ASSUME NEW i \in 1..Len(Append(found, x))
          PROVE  /\ Append(found, x)[i] # 0 => Reviewed(M[i].of, Append(found, x)[i])
                 /\ M[i].need # "optional" => Append(found, x)[i] # 0
      <3>1. M[i] = L[i] /\ Len(found) \in Nat
        BY <1>7, <2>1
      <3>2. CASE i \in 1..Len(found)
        BY <1>7, <2>3, <3>1, <3>2
      <3>3. CASE i = Len(found) + 1
        BY <1>5, <1>7, <2>2, <3>1, <3>3
      <3>4. i \in 1..Len(found) \/ i = Len(found) + 1
        <4>1. i \in 1..Len(found) + 1
          BY <1>7
        <4> QED BY <3>1, <4>1
      <3> QED BY <3>2, <3>3, <3>4
    <2> QED BY <1>7, <2>1, <2>4 DEF FoundOK, M
  <1>12. BodiesOK'
    <2>1. ASSUME NEW u \in Worker, NEW b \in Artifact, NEW f \in Seq(0..MaxVersion),
                 body'[u].makes = b, body'[u].found = f
          PROVE  BodyOK(b, f)'
      <3>1. CASE u = w
        <4>1. b = a /\ f = Append(found, x)
          BY <1>9, <2>1, <3>1
        <4>2. FoundOK(b.kind, f)'
          BY <1>1, <1>8, <1>10, <1>11, <4>1, FoundGrows DEF TypeOK
        <4> QED BY <1>1, <1>6, <4>1, <4>2 DEF BodyOK
      <3>2. CASE u # w
        <4>1. body[u].makes = b /\ body[u].found = f
          BY <1>9, <2>1, <3>2
        <4> QED BY <1>6, <1>8, <1>10, <4>1, BodyKept
      <3> QED BY <3>1, <3>2
    <2> QED BY <2>1 DEF BodiesOK
  <1>13. OwnArtifacts' /\ IdleOrBusy'
    BY <1>1, <1>9 DEF OwnArtifacts, IdleOrBusy
  <1>14. ApprovalsExist'
    BY <1>6, <1>8, <1>10, ApprovalsKept
  <1> QED BY <1>8, <1>10, <1>12, <1>13, <1>14

(* A body that ends leaves the others alone. *)
LEMMA Ended ==
    ASSUME IInv, TypeOK', Grows, NEW w \in Worker, NEW b \in Artifact, body[w].makes = b,
           body' = [body EXCEPT ![w] = Idle],
           \A a \in Artifact \ {b} : state'[a] = state[a] /\ versions'[a] = versions[a]
    PROVE  BodiesOK' /\ OwnArtifacts' /\ IdleOrBusy'
  <1> USE DEF IInv
  <1>1. body'[w] = Idle /\ \A u \in Worker \ {w} : body'[u] = body[u]
    BY DEF TypeOK
  <1>2. Idle.makes \notin Artifact
    BY Artifacts DEF Idle
  <1>3. BodiesOK'
    <2>1. ASSUME NEW u \in Worker, NEW a \in Artifact, NEW found \in Seq(0..MaxVersion),
                 body'[u].makes = a, body'[u].found = found
          PROVE  BodyOK(a, found)'
      <3>1. u # w
        BY <1>1, <1>2, <2>1
      <3>2. body[u].makes = a /\ body[u].found = found
        BY <1>1, <2>1, <3>1
      <3>3. a # b
        BY <3>1, <3>2 DEF OwnArtifacts
      <3> QED BY <3>2, <3>3, BodyKept
    <2> QED BY <2>1 DEF BodiesOK
  <1>4. OwnArtifacts' /\ IdleOrBusy'
    BY <1>1, <1>2 DEF OwnArtifacts, IdleOrBusy
  <1> QED BY <1>3, <1>4

(* What a body hands in is whole. *)
LEMMA CompleteBuild ==
    ASSUME IInv, NEW w \in Worker, NEW a \in Artifact, NEW found \in Seq(0..MaxVersion),
           body[w].makes = a, body[w].found = found, BodyOK(a, found), Complete(w)
    PROVE  BuildOK(a, found)
  <1>1. FoundOK(a.kind, found)
    BY DEF BodyOK
  <1>2. a.kind # "thumbnail" => Len(found) = Len(Lookups(a.kind, found))
    BY DEF Complete, Looked, LooksFor, HasCover
  <1>3. CASE a.kind = "voice"
    <2>1. Lookups("voice", found) = VoiceBody
      BY Shapes
    <2>2. Len(found) = 1
      BY <1>2, <1>3, <2>1 DEF VoiceBody
    <2> QED BY <1>1, <1>3, <2>2 DEF BuildOK
  <1>4. CASE a.kind = "timeline"
    <2>1. /\ Len(found) = 3 + Scenes /\ \A i \in 1..3 + Scenes : found[i] # 0
          /\ Lookups("timeline", found)[2].of = Wide("voice")
      BY <1>1, <1>2, <1>4, WholeTimeline DEF FoundOK
    <2>2. 1 \in 1..3 + Scenes /\ 2 \in 1..3 + Scenes
      BY DeliveryAssumption
    <2>3. Wide("voice") \in Artifact /\ Wide("voice").kind = "voice"
      BY Artifacts DEF Kind
    <2>4. found[2] \in 1..Len(versions[Wide("voice")])
      <3>1. 2 \in 1..Len(found) /\ found[2] # 0
        BY <2>1, <2>2
      <3>2. Reviewed(Wide("voice"), found[2])
        BY <1>1, <1>4, <2>1, <3>1 DEF FoundOK
      <3> QED BY <3>2 DEF Reviewed
    <2>5. PICK spoken \in Seq(0..MaxVersion) :
              spoken = versions[Wide("voice")][found[2]].from
      <3>1. versions[Wide("voice")] \in Seq(Version)
        BY <2>3 DEF IInv, TypeOK
      <3>2. versions[Wide("voice")][found[2]] \in Version
        BY <2>4, <3>1, ElementOfSeq
      <3> QED BY <3>2 DEF Version
    <2>6. Len(spoken) = 1
      BY <2>3, <2>4, <2>5 DEF IInv, VersionsOK, BuildOK
    <2>7. spoken[1] = found[1]
      BY <1>4, <2>5 DEF Complete, Fits
    <2>8. spoken = <<found[1]>>
      BY <2>6, <2>7
    <2> QED BY <1>1, <1>4, <2>1, <2>4, <2>5, <2>8 DEF BuildOK
  <1> QED BY <1>1, <1>3, <1>4 DEF BuildOK

LEMMA CompleteStep ==
    ASSUME IInv, NEW w \in Worker, Complete(w)
    PROVE  IInv'
  <1> USE DEF IInv
  <1>1. PICK a \in Artifact, found \in Seq(0..MaxVersion) :
            /\ body[w].makes = a /\ body[w].found = found /\ BodyOK(a, found)
            /\ LooksFor(w) = Lookups(a.kind, found) /\ a.kind \in Kind
    BY Running DEF Complete
  <1>2. /\ AddVersion(a, "generated", TRUE, found) /\ "generated" \in Origin
        /\ body' = [body EXCEPT ![w] = Idle] /\ UNCHANGED <<policy, signed, again>>
    BY <1>1 DEF Complete, Origin
  <1>3. PICK next \in ArtifactState : state' = [state EXCEPT ![a] = next]
    <2>1. \A e \in {"APPROVED", "GENERATION_SUCCEEDED"} : Target(e) \in ArtifactState
      BY DEF Target, ArtifactTable, ArtifactState
    <2> QED BY <1>1, <2>1 DEF Complete, Lands
  <1>4. \/ UNCHANGED approvals
        \/ /\ Unattended(a)
           /\ approvals' = [approvals EXCEPT ![a] = Append(approvals[a], Len(versions[a]) + 1)]
    BY <1>1 DEF Complete, Lands
  <1>5. BuildOK(a, found) /\ Len(versions[a]) < MaxVersion
    BY <1>1, CompleteBuild DEF BodyOK
  <1>6. /\ versions' \in [Artifact -> Seq(Version)] /\ Grows
        /\ \A b \in Artifact \ {a} : versions'[b] = versions[b]
        /\ Len(versions'[a]) = Len(versions[a]) + 1
        /\ versions'[a][Len(versions[a]) + 1].origin = "generated"
        /\ \A b \in Artifact : Len(versions'[b]) <= MaxVersion
    BY <1>2, <1>5, Added
  <1>7. PICK new \in 1..MaxVersion : new = Len(versions[a]) + 1
    <2>1. Len(versions[a]) \in Nat
      BY DEF TypeOK
    <2> QED BY <1>5, <2>1, DeliveryAssumption
  <1>8. approvals[a] \in Seq(1..MaxVersion) /\ Append(approvals[a], new) \in Seq(1..MaxVersion)
    <2>1. approvals[a] \in Seq(1..MaxVersion)
      BY DEF TypeOK
    <2> QED BY <2>1, AppendProperties
  <1>9. approvals' \in [Artifact -> Seq(1..MaxVersion)]
    BY <1>4, <1>7, <1>8 DEF TypeOK
  <1>10. Idle \in [makes : Artifact \cup {Wide("none")}, found : Seq(0..MaxVersion)]
    BY EmptySeq DEF Idle
  <1>11. TypeOK'
    BY <1>2, <1>3, <1>6, <1>9, <1>10 DEF TypeOK
  <1>12. VersionsOK'
    BY <1>2, <1>5, <1>11, AddedOK
  <1>13. BodiesOK' /\ OwnArtifacts' /\ IdleOrBusy'
    <2>1. \A b \in Artifact \ {a} : state'[b] = state[b] /\ versions'[b] = versions[b]
      BY <1>3, <1>6 DEF TypeOK
    <2> QED BY <1>1, <1>2, <1>6, <1>11, <2>1, Ended
  <1>14. ApprovalsExist'
    <2>1. CASE UNCHANGED approvals
      BY <1>6, <1>11, <2>1, ApprovalsKept
    <2>2. CASE /\ Unattended(a)
               /\ approvals' = [approvals EXCEPT ![a] = Append(approvals[a], new)]
      <3>1. Reviewed(a, new)'
        <4>1. new \in 1..Len(versions'[a]) /\ versions'[a][new].origin = "generated"
          BY <1>6, <1>7
        <4>2. Unattended(a)'
          BY <1>2, <2>2 DEF Unattended
        <4> QED BY <4>1, <4>2 DEF Reviewed, Answered
      <3>2. ASSUME NEW b \in Artifact, NEW n \in 1..MaxVersion,
                   NEW i \in 1..Len(approvals'[b]), approvals'[b][i] = n
            PROVE  Reviewed(b, n)'
        <4>1. Reviewed(b, n) => Reviewed(b, n)'
          BY <1>6, <1>11, ReviewedGrows DEF TypeOK
        <4>2. CASE b # a
          <5>1. approvals'[b] = approvals[b]
            BY <2>2, <4>2 DEF TypeOK
          <5> QED BY <3>2, <4>1, <5>1 DEF ApprovalsExist
        <4>3. CASE b = a
          <5>1. approvals'[a] = Append(approvals[a], new)
            BY <2>2 DEF TypeOK
          <5>2. n = new \/ \E l \in 1..Len(approvals[a]) : approvals[a][l] = n
            BY <1>8, <3>2, <4>3, <5>1
          <5>3. n = new \/ Reviewed(b, n)
            BY <4>3, <5>2 DEF ApprovalsExist
          <5> QED BY <3>1, <4>1, <4>3, <5>3
        <4> QED BY <4>2, <4>3
      <3> QED BY <3>2 DEF ApprovalsExist
    <2> QED BY <1>4, <1>7, <2>1, <2>2
  <1> QED BY <1>6, <1>11, <1>12, <1>13, <1>14

LEMMA RaiseStep ==
    ASSUME IInv, NEW w \in Worker, Raise(w)
    PROVE  IInv'
  <1> USE DEF IInv
  <1>1. PICK a \in Artifact, found \in Seq(0..MaxVersion) :
            /\ body[w].makes = a /\ body[w].found = found /\ BodyOK(a, found)
            /\ LooksFor(w) = Lookups(a.kind, found) /\ a.kind \in Kind
    BY Running DEF Raise
  <1>2. /\ state' = [state EXCEPT ![a] = "FAILED"] /\ body' = [body EXCEPT ![w] = Idle]
        /\ UNCHANGED <<policy, versions, approvals, signed, again>>
    BY <1>1 DEF Raise, Target, ArtifactTable
  <1>3. Idle \in [makes : Artifact \cup {Wide("none")}, found : Seq(0..MaxVersion)]
    BY EmptySeq DEF Idle
  <1>4. TypeOK'
    BY <1>2, <1>3 DEF TypeOK, ArtifactState
  <1>5. Grows /\ VersionsOK' /\ \A b \in Artifact : Len(versions'[b]) <= MaxVersion
    BY <1>2, <1>4, NoVersion
  <1>6. BodiesOK' /\ OwnArtifacts' /\ IdleOrBusy'
    <2>1. \A b \in Artifact \ {a} : state'[b] = state[b] /\ versions'[b] = versions[b]
      BY <1>2 DEF TypeOK
    <2> QED BY <1>1, <1>2, <1>4, <1>5, <2>1, Ended
  <1>7. ApprovalsExist'
    BY <1>2, <1>4, <1>5, ApprovalsKept
  <1> QED BY <1>4, <1>5, <1>6, <1>7

-----------------------------------------------------------------------------
(* The theorems.                                                           *)

LEMMA Initially == Init => IInv
  <1> SUFFICES ASSUME Init PROVE IInv
    OBVIOUS
  <1>1. Idle \in [makes : Artifact \cup {Wide("none")}, found : Seq(0..MaxVersion)]
    BY EmptySeq DEF Idle
  <1>2. TypeOK
    BY <1>1, EmptySeq, DeliveryAssumption DEF Init, TypeOK
  <1>3. \A a \in Artifact : Len(versions[a]) = 0 /\ Len(approvals[a]) = 0
    BY DEF Init
  <1>4. Idle.makes \notin Artifact
    BY Artifacts DEF Idle
  <1>5. VersionsOK /\ ApprovalsExist
    BY <1>3 DEF VersionsOK, ApprovalsExist
  <1>6. BodiesOK /\ OwnArtifacts /\ IdleOrBusy
    BY <1>4 DEF Init, BodiesOK, OwnArtifacts, IdleOrBusy
  <1> QED BY <1>2, <1>3, <1>5, <1>6, DeliveryAssumption DEF IInv

LEMMA Stuttering == IInv /\ UNCHANGED vars => IInv'
  <1> SUFFICES ASSUME IInv, UNCHANGED vars PROVE IInv'
    OBVIOUS
  <1> USE DEF IInv
  <1>1. TypeOK'
    BY DEF vars, TypeOK
  <1>2. Grows /\ VersionsOK' /\ \A a \in Artifact : Len(versions'[a]) <= MaxVersion
    BY <1>1, NoVersion DEF vars
  <1>3. BodiesOK'
    <2>1. ASSUME NEW u \in Worker, NEW a \in Artifact, NEW found \in Seq(0..MaxVersion),
                 body'[u].makes = a, body'[u].found = found
          PROVE  BodyOK(a, found)'
      BY <1>1, <1>2, <2>1, BodyKept DEF vars
    <2> QED BY <2>1 DEF BodiesOK
  <1>4. OwnArtifacts' /\ IdleOrBusy' /\ ApprovalsExist'
    BY <1>1, <1>2, ApprovalsKept DEF vars, OwnArtifacts, IdleOrBusy
  <1> QED BY <1>1, <1>2, <1>3, <1>4

(* Whatever is decided between the lookups of any number of bodies, every  *)
(* version and every body's findings are as the stages say, and a body has *)
(* its artifact to itself.                                                 *)
THEOREM Invariance == Spec => []IInv
  <1>1. IInv /\ [Next]_vars => IInv'
    BY StartStep, ApproveStep, RejectStep, EditStep, LookStep, CompleteStep, RaiseStep, Stuttering
       DEF Next
  <1> QED BY <1>1, Initially, PTL DEF Spec

(* The type invariant of Delivery. *)
THEOREM TypeCorrect == Spec => []TypeOK
  <1>1. IInv => TypeOK
    BY DEF IInv
  <1> QED BY <1>1, Invariance, PTL

(* A timeline's narration speaks the scenes its frames show: _spans. *)
THEOREM NoWordsOverTheWrongPictures == Spec => []WordsOverTheirPictures
  <1>1. IInv => WordsOverTheirPictures
    <2> SUFFICES ASSUME IInv, NEW n \in 1..Len(versions[Wide("timeline")])
                 PROVE  LET from == versions[Wide("timeline")][n].from
                        IN  /\ Len(from) = 3 + Scenes /\ \A i \in 1..Scenes : from[3 + i] # 0
                            /\ versions[Wide("voice")][from[2]].from = <<from[1]>>
      BY DEF WordsOverTheirPictures
    <2>1. Wide("timeline") \in Artifact /\ Wide("timeline").kind = "timeline"
      BY Artifacts DEF Kind
    <2>2. PICK from \in Seq(0..MaxVersion) : from = versions[Wide("timeline")][n].from
      <3>1. versions[Wide("timeline")] \in Seq(Version)
        BY <2>1 DEF IInv, TypeOK
      <3>2. versions[Wide("timeline")][n] \in Version
        BY <3>1, ElementOfSeq
      <3> QED BY <3>2 DEF Version
    <2>3. BuildOK(Wide("timeline"), from)
      BY <2>1, <2>2 DEF IInv, VersionsOK
    <2>4. \A i \in 1..Scenes : 3 + i \in 1..3 + Scenes
      BY DeliveryAssumption
    <2> QED BY <2>1, <2>2, <2>3, <2>4 DEF BuildOK
  <1> QED BY <1>1, Invariance, PTL

(* Somebody answers for whatever went into any version, at every time and  *)
(* under every policy: require_approved_content, _maybe_auto_approve, edit. *)
THEOREM NothingPassesTheGate == Spec => []GateHolds
  <1>1. IInv => GateHolds
    <2> SUFFICES ASSUME IInv, NEW a \in Artifact, NEW n \in 1..Len(versions[a]),
                        NEW used \in BuiltFrom(a, n)
                 PROVE  Answered(used[1], used[2])
      BY DEF GateHolds
    <2>1. PICK from \in Seq(0..MaxVersion) : from = versions[a][n].from
      <3>1. versions[a] \in Seq(Version)
        BY DEF IInv, TypeOK
      <3>2. versions[a][n] \in Version
        BY <3>1, ElementOfSeq
      <3> QED BY <3>2 DEF Version
    <2>2. FoundOK(a.kind, from)
      BY <2>1 DEF IInv, VersionsOK, BuildOK
    <2>3. \A i \in 1..Len(from) : from[i] # 0 => Reviewed(Lookups(a.kind, from)[i].of, from[i])
      BY <2>2 DEF FoundOK
    <2>4. DOMAIN from = 1..Len(from)
      OBVIOUS
    <2>5. PICK i \in 1..Len(from) :
              from[i] # 0 /\ used = <<Lookups(a.kind, from)[i].of, from[i]>>
      BY <2>1, <2>4 DEF BuiltFrom
    <2> QED BY <2>3, <2>5 DEF Reviewed
  <1> QED BY <1>1, Invariance, PTL
=============================================================================
