------------------------------ MODULE Timeline ------------------------------
(***************************************************************************)
(* From a stored narration to a timeline: compile_timeline, and the        *)
(* Timeline schema whose validators judge what it returns.                 *)
(*                                                                         *)
(* One project: its narration is synthesised once (Narration) and compiled *)
(* once. Which scenes are cards, the approved frames, the audio file's own *)
(* length and the options are chosen when the compiler runs.               *)
(***************************************************************************)
EXTENDS Narration, Captions

CONSTANTS
    Transitions,   \* values of CompileOptions.transition_ms
    Tails,         \* values of CompileOptions.tail_ms
    Paddings       \* how much longer the audio file is than its last word

ASSUME OptionAssumption ==
    Transitions \subseteq Int /\ Tails \subseteq Nat /\ Paddings \subseteq Int

VARIABLES
    verdict,    \* "none", "compiled", or why the job failed
    cards,      \* the scenes that are cards
    timeline    \* the compiled timeline, or NoTimeline

vars == <<voiceVars, verdict, cards, timeline>>

NoTimeline == [total |-> 0, clips |-> <<>>, transitions |-> <<>>, captions |-> <<>>]

Scene == 1 .. Len(spans)

-----------------------------------------------------------------------------
(* _ordered: the scenes by the start of their spans, the sort being stable.*)
ByStart(p) ==
    /\ \A i, j \in DOMAIN p : p[i] = p[j] => i = j
    /\ \A i, j \in DOMAIN p :
         i < j => \/ spans[p[i]].start < spans[p[j]].start
                  \/ spans[p[i]].start = spans[p[j]].start /\ p[i] < p[j]

Empty(p) == \E i \in DOMAIN p : spans[p[i]].end <= spans[p[i]].start
Overlapping(p) == \E i \in 1 .. Len(p) - 1 : spans[p[i + 1]].start < spans[p[i]].end

(* The pause after the i-th span, its middle, and the blend it has room for.*)
Gap(p, i) == spans[p[i + 1]].start - spans[p[i]].end
Boundary(p, i) == (spans[p[i]].end + spans[p[i + 1]].start) \div 2

(* Mutant: a cross-fade of the configured length, whatever the pause.      *)
FixedBlend(p, configured, i) == IF configured > 0 THEN configured ELSE 0

Blend(p, configured, i) ==
    LET ceiling == IF configured > 0 THEN configured ELSE 0
        room == IF Gap(p, i) > 0 THEN Gap(p, i) ELSE 0
    IN  IF ceiling < room THEN ceiling ELSE room

(* The blend's half before the boundary, and the rest of it.               *)
Lead(p, configured, i) == Blend(p, configured, i) \div 2
(* Mutant: both halves rounded down.                                       *)
HalfTrail(p, configured, i) == Blend(p, configured, i) \div 2
Trail(p, configured, i) == Blend(p, configured, i) - Lead(p, configured, i)

(* _plan_clips: the first clip starts at zero, the last takes the tail, two*)
(* neighbours share their blend.                                           *)
Clips(p, configured, total) ==
    [ i \in 1 .. Len(p) |->
        [ scene |-> p[i],
          start |-> IF i = 1 THEN 0
                    ELSE Boundary(p, i - 1) - Lead(p, configured, i - 1),
          end   |-> IF i = Len(p) THEN total
                    ELSE Boundary(p, i) + Trail(p, configured, i) ] ]

(* _transitions: one per boundary; a cut is one of no duration.            *)
Handovers(p, configured) ==
    [ i \in 1 .. Len(p) - 1 |->
        [ start    |-> Boundary(p, i) - Lead(p, configured, i),
          duration |-> Blend(p, configured, i) ] ]

(* _captions: the cues of every scene that is not a card.                  *)
CaptionsOf(p, carded) ==
    FlattenSeq([i \in 1 .. Len(p) |->
        IF p[i] \in carded THEN <<>> ELSE GroupIntoCues(spans[p[i]].words)])

TotalOf(p, duration, tail) ==
    LET last == spans[p[Len(p)]].end
    IN  (IF last < duration THEN duration ELSE last) + tail

Compiled(p, carded, configured, tail, duration) ==
    LET total == TotalOf(p, duration, tail)
    IN  [ total       |-> total,
          clips       |-> Clips(p, configured, total),
          transitions |-> Handovers(p, configured),
          captions    |-> CaptionsOf(p, carded) ]

-----------------------------------------------------------------------------
(* The validators of Clip, Transition, CaptionCue and Timeline.            *)
ClipsAccepted(t) ==
    /\ \A i \in DOMAIN t.clips : 0 <= t.clips[i].start /\ t.clips[i].start < t.clips[i].end
    /\ t.clips[1].start = 0
    /\ t.clips[Len(t.clips)].end = t.total
    /\ \A i \in 1 .. Len(t.clips) - 1 : t.clips[i].scene <= t.clips[i + 1].scene

HandoversAccepted(t) ==
    /\ Len(t.transitions) = Len(t.clips) - 1
    /\ \A i \in DOMAIN t.transitions :
         /\ t.transitions[i].start >= 0 /\ t.transitions[i].duration >= 0
         /\ t.clips[i].end - t.clips[i + 1].start = t.transitions[i].duration
         /\ t.transitions[i].start = t.clips[i + 1].start

CaptionsAccepted(t) ==
    \A i \in DOMAIN t.captions :
        /\ t.captions[i].start < t.captions[i].end
        /\ t.captions[i].end <= t.total
        /\ i > 1 => t.captions[i - 1].end <= t.captions[i].start

Accepted(t, duration) ==
    /\ t.total > 0 /\ duration <= t.total
    /\ ClipsAccepted(t)
    /\ HandoversAccepted(t)
    /\ CaptionsAccepted(t)

-----------------------------------------------------------------------------
Init ==
    /\ VoiceInit
    /\ verdict = "none" /\ cards = {} /\ timeline = NoTimeline

Voice ==
    /\ VoiceNext
    /\ UNCHANGED <<verdict, cards, timeline>>

(* _frames: a scene without an approved image fails the job.               *)
NoFrame ==
    /\ stage = "stored" /\ verdict = "none"
    /\ verdict' = "no frame"
    /\ UNCHANGED <<voiceVars, cards, timeline>>

(* compile_body with a frame for every scene: the refusals of the compiler *)
(* and of the schema fail the job.                                         *)
Compile(carded, configured, tail, padding) ==
    \E p \in [Scene -> Scene] :
        LET duration == reached + padding
            result == Compiled(p, carded, configured, tail, duration)
        IN  /\ stage = "stored" /\ verdict = "none"
            /\ duration > 0
            /\ ByStart(p)
            /\ cards' = carded
            /\ verdict' = CASE Empty(p)                       -> "empty span"
                            [] ~Empty(p) /\ Overlapping(p)    -> "overlap"
                            [] ~Empty(p) /\ ~Overlapping(p)
                                 /\ ~Accepted(result, duration) -> "refused"
                            [] OTHER                          -> "compiled"
            /\ timeline' = IF verdict' = "compiled" THEN result ELSE timeline
            /\ UNCHANGED voiceVars

Next ==
    \/ Voice
    \/ NoFrame
    \/ \E carded \in SUBSET Scene, configured \in Transitions,
          tail \in Tails, padding \in Paddings :
            Compile(carded, configured, tail, padding)

Spec == Init /\ [][Next]_vars

-----------------------------------------------------------------------------
Timing == [text : Seq(Char), start : Nat, end : Nat, offset : Nat]

(* The state's types. *)
TypeOK ==
    /\ stage \in {"listening", "assigning", "stored", "unvoiced"}
    /\ narrations \in Scripts
    /\ heard \in Nat /\ reached \in Nat
    /\ words \in Seq(Timing)
    /\ open \in [text : Seq(Char), start : Nat, offset : Nat]
    /\ spans \in Seq([start : Nat, end : Nat, words : Seq(Timing)])
    /\ cursor \in 0 .. Len(words)
    /\ verdict \in {"none", "no frame", "empty span", "overlap", "refused", "compiled"}
    /\ cards \in SUBSET Scene
    /\ timeline.total \in Nat

(* The scene whose text the i-th character of the script belongs to.       *)
SceneOf(i) ==
    LET joined[k \in 1 .. Len(narrations)] ==
          Len(narrations[k]) + IF k = 1 THEN 0 ELSE joined[k - 1] + 1
    IN  CHOOSE k \in 1 .. Len(narrations) :
          i <= joined[k] /\ (k > 1 => i > joined[k - 1])

(* Whatever the synthesis cut off, every character that was heard is in    *)
(* exactly one word, that word is the script's text at its offset, and it  *)
(* is claimed by the scene whose narration it comes from: counting words   *)
(* never drifts against the text.                                          *)
NothingHeardIsLost ==
    stage = "stored" =>
        \A i \in 1 .. heard : Script[i] # Space =>
            LET holding == {h \in UNION {{k} \X DOMAIN spans[k].words : k \in Scene} :
                              LET word == spans[h[1]].words[h[2]]
                              IN  /\ i \in word.offset + 1 .. word.offset + Len(word.text)
                                  /\ word.text = SubSeq(Script, word.offset + 1,
                                                        word.offset + Len(word.text))}
            IN  \E h \in holding : holding = {h} /\ h[1] = SceneOf(i)

(* A narration whose words take time and do not run into each other always *)
(* compiles: neither the cross-fades nor the captions derived from it trip *)
(* the compiler's checks or the schema's validators.                       *)
Orderly ==
    \A n \in DOMAIN words :
        /\ words[n].start < words[n].end
        /\ n > 1 => words[n - 1].end <= words[n].start

OrderlyNarrationsCompile ==
    verdict \in {"empty span", "overlap", "refused"} => ~Orderly

(* While a scene is spoken its own frame, and no other, is on screen: no   *)
(* cross-fade covers speech, whatever the pauses and the configured length.*)
SpeechOverItsOwnFrame ==
    verdict = "compiled" =>
        \A i \in DOMAIN timeline.clips :
            LET span == spans[timeline.clips[i].scene]
            IN  /\ timeline.clips[i].start <= span.start
                /\ span.end <= timeline.clips[i].end
                /\ \A j \in DOMAIN timeline.clips \ {i} :
                     \/ timeline.clips[j].end <= span.start
                     \/ span.end <= timeline.clips[j].start

(* Every instant of the video shows a frame, and two of them only inside   *)
(* the transition between them.                                            *)
EveryInstantHasItsFrame ==
    verdict = "compiled" =>
        \A instant \in 0 .. timeline.total - 1 :
            LET on == {i \in DOMAIN timeline.clips :
                         /\ timeline.clips[i].start <= instant
                         /\ instant < timeline.clips[i].end}
                blending == {i \in DOMAIN timeline.transitions :
                         /\ timeline.transitions[i].start <= instant
                         /\ instant < timeline.transitions[i].start
                                        + timeline.transitions[i].duration}
            IN  \/ Cardinality(on) = 1 /\ blending = {}
                \/ \E i \in blending : on = {i, i + 1}

(* A compiled timeline shows the scenes in the order of the scene set, and *)
(* its captions are the words of the scenes that are not cards, each once  *)
(* and in the order they are spoken.                                       *)
ShowsWhatIsSaid ==
    verdict = "compiled" =>
        /\ \A i \in DOMAIN timeline.clips : timeline.clips[i].scene = i
        /\ FlattenSeq([i \in DOMAIN timeline.captions |-> timeline.captions[i].words])
             = FlattenSeq([k \in Scene |-> IF k \in cards THEN <<>> ELSE spans[k].words])

(* No caption runs on past the end of a sentence, none holds more words or,*)
(* unless it is one word, more characters than the repair may leave, and   *)
(* none is a lone word that would have fitted beside its neighbour.        *)
CaptionsReadWell ==
    verdict = "compiled" =>
        \A k \in Scene \ cards :
            LET cues == GroupIntoCues(spans[k].words)
                Letters(cue) == FlattenSeq([n \in DOMAIN cue.words |-> cue.words[n].text])
                Room(i) == Len(Letters(cues[i])) + Len(Letters(cues[i + 1]))
                             + Len(cues[i].words) + Len(cues[i + 1].words) - 1
            IN  /\ \A i \in DOMAIN cues :
                     /\ \A n \in 1 .. Len(cues[i].words) - 1 :
                          Ending(cues[i].words[n]) \notin SentenceEndings
                     /\ Len(cues[i].words) <= MaxWords
                     /\ \/ Len(cues[i].words) = 1
                        \/ Len(Letters(cues[i])) + Len(cues[i].words) - 1
                             <= MaxCharacters + MergeSlack
                /\ \A i \in 1 .. Len(cues) - 1 :
                     1 \in {Len(cues[i].words), Len(cues[i + 1].words)} =>
                        \/ Ending(Last(cues[i].words)) \in SentenceEndings
                        \/ Len(cues[i].words) + Len(cues[i + 1].words) > MaxWords
                        \/ Room(i) > MaxCharacters + MergeSlack
=============================================================================
