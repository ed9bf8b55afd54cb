------------------------------ MODULE Narration ------------------------------
(***************************************************************************)
(* voice_body: one synthesis of the whole script, and the scenes' windows  *)
(* in it. The provider answers with one timing per character;              *)
(* words_from_characters groups them into words, one loop iteration per    *)
(* step, and scene_spans hands the words to the scenes by counting.        *)
(*                                                                         *)
(* A narration is the sequence of its characters, of which only white      *)
(* space and punctuation are told apart. Times are whole milliseconds, as  *)
(* _ms leaves them. How long a character takes and when it starts are the  *)
(* provider's choices, the malformed ones included: a character may start  *)
(* before the previous one ended, end before it starts, or be missing with *)
(* all that follow (the code stops at the shortest of the three lists).    *)
(***************************************************************************)
EXTENDS Integers, Sequences, FiniteSets

CONSTANTS
    Scripts,    \* the approved scene sets: sequences of narrations
    Pauses,     \* how long after the previous character one may start
    Lengths     \* how long a character may take

Space == " "
Char == {"a", ",", ".", Space}

ASSUME ScriptAssumption == Scripts \subseteq Seq(Seq(Char)) \ {<<>>}
ASSUME TimeAssumption == Pauses \subseteq Int /\ Lengths \subseteq Int

VARIABLES
    stage,        \* "listening", "assigning", then "stored" or "unvoiced"
    narrations,   \* the scenes' texts, in order
    heard,        \* the characters consumed so far
    words,        \* the words closed so far
    open,         \* the word being read: its text, start and offset
    reached,      \* the running end, never reset between two words
    spans,        \* the spans assigned so far, the n-th is scene n's
    cursor        \* the words claimed so far

voiceVars == <<stage, narrations, heard, words, open, reached, spans, cursor>>

(* What is sent: the narrations joined by single spaces.                   *)
Script ==
    LET joined[k \in 1 .. Len(narrations)] ==
          IF k = 1 THEN narrations[1]
                   ELSE joined[k - 1] \o <<Space>> \o narrations[k]
    IN  joined[Len(narrations)]

(* len(narration.split())                                                  *)
(* Mutant: narration.split(" "), which counts the empty strings too.       *)
WordCountBySpaces(text) == Cardinality({i \in 1 .. Len(text) : text[i] = Space}) + 1

WordCount(text) ==
    Cardinality({i \in 1 .. Len(text) :
                   text[i] # Space /\ (i = 1 \/ text[i - 1] = Space)})

Nothing == [text |-> <<>>, start |-> 0, offset |-> 0]

(* _word: the end is clamped to the start.                                 *)
Word ==
    [ text   |-> open.text,
      start  |-> open.start,
      end    |-> IF reached < open.start THEN open.start ELSE reached,
      offset |-> open.offset ]

WordsSoFar == IF open.text = <<>> THEN words ELSE Append(words, Word)

VoiceInit ==
    /\ narrations \in Scripts
    /\ stage = "listening"
    /\ heard = 0
    /\ words = <<>> /\ open = Nothing /\ reached = 0
    /\ spans = <<>> /\ cursor = 0

(* White space closes the open word and belongs to none.                   *)
HearSpace ==
    /\ stage = "listening" /\ heard < Len(Script)
    /\ Script[heard + 1] = Space
    /\ heard' = heard + 1
    /\ words' = WordsSoFar
    /\ open' = Nothing
    /\ UNCHANGED <<stage, narrations, reached, spans, cursor>>

(* Any other character opens a word or joins the open one, and may move    *)
(* the running end. No time is before the recording's own start.           *)
Hear(char, pause, length) ==
    LET at == reached + pause
    IN  /\ stage = "listening" /\ heard < Len(Script)
        /\ Script[heard + 1] = char
        /\ at >= 0
        /\ heard' = heard + 1
        /\ open' = IF open.text = <<>>
                     THEN [text |-> <<char>>, start |-> at, offset |-> heard]
                     ELSE [open EXCEPT !.text = Append(@, char)]
        /\ reached' = IF at + length > reached THEN at + length ELSE reached
        /\ UNCHANGED <<stage, narrations, words, spans, cursor>>

(* The end of the shortest list, which may come before the script's.       *)
EndOfAnswer ==
    /\ stage = "listening"
    /\ words' = WordsSoFar
    /\ open' = Nothing
    /\ stage' = "assigning"
    /\ UNCHANGED <<narrations, heard, reached, spans, cursor>>

(* scene_spans: the next scene claims as many words as its text has, or as *)
(* are left. A scene left without gets a span of no length.                *)
Claimed ==
    LET wanted == WordCount(narrations[Len(spans) + 1])
        left == Len(words) - cursor
    IN  SubSeq(words, cursor + 1, cursor + (IF wanted < left THEN wanted ELSE left))

SpanOf(claimed) ==
    IF claimed = <<>>
      THEN [start |-> 0, end |-> 0, words |-> <<>>]
      ELSE [start |-> claimed[1].start, end |-> claimed[Len(claimed)].end, words |-> claimed]

AssignScene ==
    /\ stage = "assigning" /\ Len(spans) < Len(narrations)
    /\ spans' = Append(spans, SpanOf(Claimed))
    /\ cursor' = cursor + Len(Claimed)
    /\ UNCHANGED <<stage, narrations, heard, words, open, reached>>

(* A scene without words fails the job: nothing is stored.                 *)
StoreNarration ==
    /\ stage = "assigning" /\ Len(spans) = Len(narrations)
    /\ stage' = IF \E k \in DOMAIN spans : spans[k].words = <<>>
                  THEN "unvoiced" ELSE "stored"
    /\ UNCHANGED <<narrations, heard, words, open, reached, spans, cursor>>

VoiceNext ==
    \/ HearSpace
    \/ \E char \in Char \ {Space}, pause \in Pauses, length \in Lengths :
         Hear(char, pause, length)
    \/ EndOfAnswer
    \/ AssignScene
    \/ StoreNarration
=============================================================================
