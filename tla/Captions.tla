------------------------------ MODULE Captions ------------------------------
(***************************************************************************)
(* Word timings -> caption cues: group_into_cues, a greedy loop over one   *)
(* scene's words and a repair pass over the groups it leaves.              *)
(*                                                                         *)
(* A word is [text, start, end, offset], its text a sequence of            *)
(* characters of which only the punctuation is told apart; a cue is the    *)
(* sequence of words that share a frame. Times are milliseconds.           *)
(***************************************************************************)
EXTENDS Integers, Sequences, SequencesExt

CONSTANTS
    MaxCharacters,   \* the width at which a cue must break
    TargetDwell,     \* how long a cue should stay up
    MaxWords,        \* the ceiling for many short words
    MergeSlack       \* characters the repair may spend beyond MaxCharacters

(* A cue may hold a word, and the repair may do no less than the loop.     *)
ASSUME CaptionAssumption ==
    /\ MaxCharacters \in Int /\ TargetDwell \in Int
    /\ MaxWords \in Nat \ {0} /\ MergeSlack \in Nat

SentenceEndings == {"."}
ClauseEndings == {","}

Ending(word) == word.text[Len(word.text)]
EndsSentence(cue) == Ending(Last(cue)) \in SentenceEndings

Width(cue) ==
    LET width[n \in 0 .. Len(cue)] ==
          IF n = 0 THEN Len(cue) - 1 ELSE width[n - 1] + Len(cue[n].text)
    IN  width[Len(cue)]

(* Width and count are tried before the word is appended. *)
TooWide(cue, word) ==
    \/ Len(cue) + 1 > MaxWords
    \/ Width(Append(cue, word)) > MaxCharacters

(* A sentence end always breaks, a clause end once the cue has earned half *)
(* its dwell, any other word once it has earned all of it.                 *)
ShouldBreak(cue) ==
    LET dwell == Last(cue).end - cue[1].start
    IN  \/ EndsSentence(cue)
        \/ /\ Ending(Last(cue)) \in ClauseEndings
           /\ dwell >= TargetDwell \div 2
        \/ /\ Ending(Last(cue)) \notin ClauseEndings
           /\ dwell >= TargetDwell

(* One turn of the loop: the groups closed so far, and the open one.       *)
Flush(state) ==
    IF state.open = <<>>
      THEN state
      ELSE [closed |-> Append(state.closed, state.open), open |-> <<>>]

TakeWord(state, word) ==
    LET room == IF state.open # <<>> /\ TooWide(state.open, word)
                  THEN Flush(state) ELSE state
        taken == [room EXCEPT !.open = Append(@, word)]
    IN  IF ShouldBreak(taken.open) THEN Flush(taken) ELSE taken

Taken(words) ==
    LET turn[n \in 0 .. Len(words)] ==
          IF n = 0 THEN [closed |-> <<>>, open |-> <<>>]
                   ELSE TakeWord(turn[n - 1], words[n])
    IN  turn[Len(words)]

(* Mutant: the open group is not flushed after the loop.                   *)
GroupedUnflushed(words) == Taken(words).closed

Grouped(words) == Flush(Taken(words)).closed

-----------------------------------------------------------------------------
Fits(left, right) ==
    /\ Len(left) + Len(right) <= MaxWords
    /\ Width(left \o right) <= MaxCharacters + MergeSlack

(* Mutant: the repair joins across the end of a sentence.                  *)
JoinsSentences(groups, i) ==
    /\ i \in 1 .. Len(groups) - 1
    /\ Fits(groups[i], groups[i + 1])

(* Two neighbours may share a frame: no sentence ends between them.        *)
MayJoin(groups, i) ==
    /\ i \in 1 .. Len(groups) - 1
    /\ ~EndsSentence(groups[i])
    /\ Fits(groups[i], groups[i + 1])

Join(groups, i) ==
    ReplaceAt(RemoveAt(groups, i + 1), i, groups[i] \o groups[i + 1])

(* One turn of the repair pass, at a group with a predecessor: a lone word *)
(* goes to its predecessor, else takes its successor, else stays alone.    *)
Repair(pass) ==
    LET i == pass.position
        groups == pass.groups
        finished == i > Len(groups)
        lone == ~finished /\ Len(groups[i]) <= 1
        back == lone /\ MayJoin(groups, i - 1)
        onward == lone /\ ~back /\ MayJoin(groups, i)
    IN  CASE finished -> pass
          [] back     -> [pass EXCEPT !.groups = Join(groups, i - 1)]
          [] onward   -> [pass EXCEPT !.groups = Join(groups, i)]
          [] ~finished /\ ~back /\ ~onward -> [pass EXCEPT !.position = i + 1]

(* Every turn passes a group or removes one, so as many turns as there are *)
(* groups are enough. The first group has no predecessor: it comes last.   *)
Repaired(groups) ==
    LET turn[n \in 0 .. Len(groups)] ==
          IF n = 0 THEN [groups |-> groups, position |-> 2] ELSE Repair(turn[n - 1])
    IN  turn[Len(groups)].groups

AbsorbOrphans(groups) ==
    LET repaired == Repaired(groups)
    IN  IF repaired # <<>> /\ Len(repaired[1]) = 1 /\ MayJoin(repaired, 1)
          THEN Join(repaired, 1)
          ELSE repaired

(* group_into_cues: a cue is up from its first word's start to its last    *)
(* word's end.                                                             *)
GroupIntoCues(words) ==
    LET groups == AbsorbOrphans(Grouped(words))
    IN  [i \in DOMAIN groups |->
           [words |-> groups[i], start |-> groups[i][1].start, end |-> Last(groups[i]).end]]
=============================================================================
