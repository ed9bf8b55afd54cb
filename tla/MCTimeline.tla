----------------------------- MODULE MCTimeline -----------------------------
(* Short scripts for TLC: words of one to two letters in one to three      *)
(* scenes, with the punctuation the captions tell apart. Between them the  *)
(* greedy loop breaks on width, count, dwell, clause and sentence, and the *)
(* repair joins backwards, forwards and at the first cue.                  *)
EXTENDS Timeline

MCScripts ==
    { << <<"a", " ", " ", "a">>, <<"a", " ", "a">> >>,
      << <<"a", ",", " ", "a", " ", "a">> >>,
      << <<"a", " ", "a", " ", "a", " ", "a">> >>,
      << <<"a", ".", " ", "a", ",", " ", "a", " ", "a">> >>,
      << <<"a">>, <<"a", "a">>, <<"a">> >> }

(* A character may start before the latest end so far, right at it, or     *)
(* after a pause; it may end before it starts, at once, or later.          *)
MCPauses == {-1, 0, 4}
MCLengths == {-1, 1, 2}
MCTransitions == {0, 3}
MCPaddings == {-1, 1}
=============================================================================
