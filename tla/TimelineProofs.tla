--------------------------- MODULE TimelineProofs ---------------------------
(***************************************************************************)
(* Proofs about Timeline, for any scene sets, any timings the provider may *)
(* answer with and any options: while a scene is spoken only its own frame *)
(* is on screen, the clips share exactly their cross-fades, the scenes     *)
(* share out what was heard, word by word, as it was written, the captions *)
(* are those words, and a narration in order is never refused.             *)
(***************************************************************************)
EXTENDS Timeline, FiniteSetTheorems, WellFoundedInduction, TLAPS

Span == [start : Nat, end : Nat, words : Seq(Timing)]

-----------------------------------------------------------------------------
(* What the compiler's own checks leave of an order of the spans.          *)
Checked(p) ==
    /\ spans \in Seq(Span)
    /\ p \in [Scene -> Scene]
    /\ ByStart(p)
    /\ ~Empty(p)
    /\ ~Overlapping(p)

LEMMA OrderIsSequence ==
    ASSUME NEW p, spans \in Seq(Span), p \in [Scene -> Scene]
    PROVE  /\ p \in Seq(Scene)
           /\ Len(p) = Len(spans)
           /\ DOMAIN p = 1 .. Len(spans)
           /\ \A i \in 1 .. Len(p) :
                /\ p[i] \in DOMAIN spans
                /\ spans[p[i]].start \in Nat
                /\ spans[p[i]].end \in Nat
  <1>1. Len(spans) \in Nat /\ DOMAIN spans = 1 .. Len(spans)
    OBVIOUS
  <1>2. p \in Seq(Scene) /\ Len(p) = Len(spans) /\ DOMAIN p = 1 .. Len(spans)
    BY <1>1 DEF Scene
  <1>3. ASSUME NEW i \in 1 .. Len(p)
        PROVE  /\ p[i] \in DOMAIN spans
               /\ spans[p[i]].start \in Nat
               /\ spans[p[i]].end \in Nat
    <2>1. p[i] \in DOMAIN spans
      BY <1>1, <1>2 DEF Scene
    <2>2. spans[p[i]] \in Span
      BY <1>1, <2>1
    <2> QED BY <2>1, <2>2 DEF Span
  <1> QED BY <1>2, <1>3

LEMMA OrderLength ==
    ASSUME NEW p, Checked(p)
    PROVE  Len(p) \in Nat /\ Len(p) = Len(spans)
  <1>1. spans \in Seq(Span) /\ p \in [Scene -> Scene]
    BY DEF Checked
  <1>2. Len(spans) \in Nat
    BY <1>1
  <1> QED BY <1>1, <1>2, OrderIsSequence

(* What the two refusals of _ordered leave, position by position.          *)
LEMMA SpanChecks ==
    ASSUME NEW p, Checked(p)
    PROVE  /\ \A i \in 1 .. Len(p) :
                /\ spans[p[i]].start \in Nat /\ spans[p[i]].end \in Nat
                /\ spans[p[i]].start < spans[p[i]].end
           /\ \A i \in 1 .. Len(p) - 1 : spans[p[i]].end <= spans[p[i + 1]].start
  <1>1. /\ DOMAIN p = 1 .. Len(p) /\ Len(p) \in Nat
        /\ \A i \in 1 .. Len(p) : spans[p[i]].start \in Nat /\ spans[p[i]].end \in Nat
    <2>1. spans \in Seq(Span) /\ p \in [Scene -> Scene]
      BY DEF Checked
    <2>2. /\ DOMAIN p = 1 .. Len(spans)
          /\ \A i \in 1 .. Len(p) : spans[p[i]].start \in Nat /\ spans[p[i]].end \in Nat
      BY <2>1, OrderIsSequence
    <2>3. Len(p) = Len(spans) /\ Len(p) \in Nat
      BY OrderLength
    <2> QED BY <2>2, <2>3
  <1>2. ~Empty(p) /\ ~Overlapping(p)
    BY DEF Checked
  <1>3. \A i \in DOMAIN p : ~(spans[p[i]].end <= spans[p[i]].start)
    BY <1>2 DEF Empty
  <1>4. \A i \in 1 .. Len(p) : spans[p[i]].start < spans[p[i]].end
    <2>1. SUFFICES ASSUME NEW i \in 1 .. Len(p)
                   PROVE  spans[p[i]].start < spans[p[i]].end
      OBVIOUS
    <2>2. ~(spans[p[i]].end <= spans[p[i]].start)
      BY <1>1, <1>3
    <2>3. spans[p[i]].start \in Nat /\ spans[p[i]].end \in Nat
      BY <1>1
    <2> QED BY <2>2, <2>3
  <1>5. \A i \in 1 .. Len(p) - 1 : spans[p[i]].end <= spans[p[i + 1]].start
    <2>1. SUFFICES ASSUME NEW i \in 1 .. Len(p) - 1
                   PROVE  spans[p[i]].end <= spans[p[i + 1]].start
      OBVIOUS
    <2>2. ~(spans[p[i + 1]].start < spans[p[i]].end)
      BY <1>2 DEF Overlapping
    <2>3. i \in 1 .. Len(p) /\ i + 1 \in 1 .. Len(p)
      BY <1>1
    <2>4. spans[p[i + 1]].start \in Nat /\ spans[p[i]].end \in Nat
      BY <2>3, <1>1
    <2> QED BY <2>2, <2>4
  <1> QED BY <1>1, <1>4, <1>5

(* Consecutive spans leave a pause, and the blend fits in it.              *)
LEMMA BlendInPause ==
    ASSUME NEW p, Checked(p), NEW configured \in Int, NEW i \in 1 .. Len(p) - 1
    PROVE  /\ Blend(p, configured, i) \in Nat
           /\ spans[p[i]].end <= Boundary(p, i) - Lead(p, configured, i)
           /\ Boundary(p, i) + Trail(p, configured, i) <= spans[p[i + 1]].start
           /\ Boundary(p, i) \in Int
           /\ Lead(p, configured, i) \in Nat
           /\ Trail(p, configured, i) \in Nat
           /\ Lead(p, configured, i) + Trail(p, configured, i) = Blend(p, configured, i)
  <1>1. Len(p) \in Nat /\ i \in 1 .. Len(p) /\ i + 1 \in 1 .. Len(p)
    BY OrderIsSequence DEF Checked
  <1>2. spans[p[i]].end \in Nat /\ spans[p[i + 1]].start \in Nat
    BY <1>1, OrderIsSequence DEF Checked
  <1>3. spans[p[i]].end <= spans[p[i + 1]].start
    BY SpanChecks
  <1>4. /\ Blend(p, configured, i) \in Nat
        /\ Blend(p, configured, i) <= spans[p[i + 1]].start - spans[p[i]].end
    <2>1. Gap(p, i) \in Nat /\ Gap(p, i) = spans[p[i + 1]].start - spans[p[i]].end
      BY <1>2, <1>3 DEF Gap
    <2> QED BY <2>1 DEF Blend
  <1>5. Boundary(p, i) = (spans[p[i]].end + spans[p[i + 1]].start) \div 2
    BY DEF Boundary
  <1>6. Lead(p, configured, i) = Blend(p, configured, i) \div 2
    BY DEF Lead
  <1>7. Trail(p, configured, i) = Blend(p, configured, i) - Lead(p, configured, i)
    BY DEF Trail
  <1>8. /\ Boundary(p, i) \in Nat
        /\ Lead(p, configured, i) \in Nat /\ Trail(p, configured, i) \in Nat
        /\ spans[p[i]].end <= Boundary(p, i) - Lead(p, configured, i)
        /\ Boundary(p, i) + Trail(p, configured, i) <= spans[p[i + 1]].start
        /\ Lead(p, configured, i) + Trail(p, configured, i) = Blend(p, configured, i)
    <2>0. SUFFICES ASSUME NEW end \in Nat, NEW start \in Nat, NEW blend \in Nat,
                        NEW boundary, NEW lead, NEW trail,
                        end = spans[p[i]].end, start = spans[p[i + 1]].start,
                        blend = Blend(p, configured, i),
                        boundary = Boundary(p, i),
                        lead = Lead(p, configured, i), trail = Trail(p, configured, i)
                 PROVE  /\ boundary \in Nat /\ lead \in Nat /\ trail \in Nat
                        /\ end <= boundary - lead
                        /\ boundary + trail <= start
                        /\ lead + trail = blend
      BY <1>2, <1>4, SMTT(30)
    <2>1. end <= start /\ blend <= start - end
      BY <2>0, <1>3, <1>4
    <2>2. boundary = (end + start) \div 2
      BY <2>0, <1>5
    <2>3. lead = blend \div 2
      BY <2>0, <1>6
    <2>4. trail = blend - lead
      BY <2>0, <1>7
    <2> QED BY <2>1, <2>2, <2>3, <2>4
  <1> QED BY <1>4, <1>8

(* The spans are apart and in order, neighbours or not.                    *)
LEMMA SpansInOrder ==
    ASSUME NEW p, Checked(p), NEW i \in 1 .. Len(p), NEW j \in 1 .. Len(p), i < j
    PROVE  /\ spans[p[i]].start < spans[p[i]].end
           /\ spans[p[i]].end <= spans[p[j]].start
  <1>1. /\ Len(p) \in Nat /\ DOMAIN p = 1 .. Len(p)
        /\ \A k \in 1 .. Len(p) : spans[p[k]].start \in Nat /\ spans[p[k]].end \in Nat
    <2>1. spans \in Seq(Span) /\ p \in [Scene -> Scene]
      BY DEF Checked
    <2>2. Len(spans) \in Nat
      BY <2>1
    <2> QED BY <2>1, <2>2, OrderIsSequence
  <1>2. spans[p[i]].start < spans[p[i]].end
    BY SpanChecks
  <1>3. i + 1 \in 1 .. Len(p) /\ i \in 1 .. Len(p) - 1
    BY <1>1
  <1>4. spans[p[i]].end <= spans[p[i + 1]].start
    BY <1>3, SpanChecks
  <1>5. spans[p[i + 1]].start <= spans[p[j]].start
    <2>1. CASE i + 1 = j
      BY <2>1, <1>1
    <2>2. CASE i + 1 < j
      <3>1. /\ i + 1 \in DOMAIN p /\ j \in DOMAIN p
            /\ spans[p[i + 1]].start \in Nat /\ spans[p[j]].start \in Nat
        BY <1>1, <1>3
      <3>2. \/ spans[p[i + 1]].start < spans[p[j]].start
            \/ spans[p[i + 1]].start = spans[p[j]].start
        BY <2>2, <3>1 DEF Checked, ByStart
      <3> QED BY <3>1, <3>2
    <2> QED BY <2>1, <2>2, <1>1
  <1> QED BY <1>1, <1>2, <1>3, <1>4, <1>5

-----------------------------------------------------------------------------
(* What _plan_clips makes of checked spans. *)

(* Speech lies under its own clip and outside all the others: what the     *)
(* docstring of _plan_clips claims for the midpoint rule.                  *)
SpeechInside(clips) ==
    \A i \in DOMAIN clips :
        LET span == spans[clips[i].scene]
        IN  /\ clips[i].start <= span.start
            /\ span.end <= clips[i].end
            /\ \A j \in DOMAIN clips \ {i} :
                 \/ clips[j].end <= span.start
                 \/ span.end <= clips[j].start

(* Every clip holds its own speech and keeps off everyone else's.          *)
LEMMA ClipBounds ==
    ASSUME NEW p, Checked(p), Len(p) > 0, NEW configured \in Int,
           NEW total \in Int, spans[p[Len(p)]].end <= total,
           NEW clips, clips = Clips(p, configured, total)
    PROVE  /\ DOMAIN clips = 1 .. Len(p)
           /\ clips[1].start = 0 /\ clips[Len(p)].end = total
           /\ \A i \in 1 .. Len(p) :
                /\ clips[i].scene = p[i]
                /\ clips[i].start \in Int /\ clips[i].end \in Int
                /\ clips[i].start <= spans[p[i]].start
                /\ spans[p[i]].end <= clips[i].end
           /\ \A i, j \in 1 .. Len(p) : i < j =>
                /\ clips[i].end <= spans[p[j]].start
                /\ spans[p[i]].end <= clips[j].start
  <1> DEFINE B(i) == Boundary(p, i)
             L(i) == Lead(p, configured, i)
             T(i) == Trail(p, configured, i)
  <1>1. /\ Len(p) \in Nat /\ DOMAIN p = 1 .. Len(p)
        /\ \A k \in 1 .. Len(p) : spans[p[k]].start \in Nat /\ spans[p[k]].end \in Nat
    <2>1. spans \in Seq(Span) /\ p \in [Scene -> Scene]
      BY DEF Checked
    <2>2. Len(spans) \in Nat
      BY <2>1
    <2> QED BY <2>1, <2>2, OrderIsSequence
  <1>0. Len(p) \in Nat
    BY <1>1
  <1>2. DOMAIN clips = 1 .. Len(p)
    BY DEF Clips
  <1>3. \A i \in 1 .. Len(p) :
          /\ clips[i].scene = p[i]
          /\ clips[i].start = IF i = 1 THEN 0 ELSE B(i - 1) - L(i - 1)
          /\ clips[i].end = IF i = Len(p) THEN total ELSE B(i) + T(i)
    BY DEF Clips
  <1>4. \A i \in 1 .. Len(p) - 1 :
          /\ B(i) \in Int /\ L(i) \in Int /\ T(i) \in Int
          /\ spans[p[i]].end <= B(i) - L(i)
          /\ B(i) + T(i) <= spans[p[i + 1]].start
    BY BlendInPause
  <1>5. \A i, j \in 1 .. Len(p) : i < j => spans[p[i]].end <= spans[p[j]].start
    BY SpansInOrder
  <1>6. \A i \in 1 .. Len(p) : spans[p[i]].start < spans[p[i]].end
    BY SpanChecks
  <1> HIDE DEF B, L, T
  <1>7. ASSUME NEW i \in 1 .. Len(p)
        PROVE  clips[i].start <= spans[p[i]].start
    <2>1. CASE i = 1
      <3>1. clips[i].start = 0
        BY <2>1, <1>3
      <3>2. spans[p[i]].start \in Nat
        BY <1>1
      <3> QED BY <3>1, <3>2
    <2>2. CASE i > 1
      <3>1. i - 1 \in 1 .. Len(p) - 1 /\ (i - 1) + 1 = i
        BY <2>2, <1>1
      <3>2. clips[i].start = B(i - 1) - L(i - 1)
        BY <2>2, <1>3
      <3>3. B(i - 1) + T(i - 1) <= spans[p[i]].start
        BY <3>1, <1>4
      <3>4. L(i - 1) \in Nat /\ T(i - 1) \in Nat /\ B(i - 1) \in Int
        BY <3>1, BlendInPause DEF B, L, T
      <3> QED BY <3>2, <3>3, <3>4, <1>1
    <2> QED BY <2>1, <2>2, <1>1
  <1>8. ASSUME NEW i \in 1 .. Len(p)
        PROVE  spans[p[i]].end <= clips[i].end
    <2>1. CASE i = Len(p)
      BY <2>1, <1>1, <1>3
    <2>2. CASE i < Len(p)
      <3>1. i \in 1 .. Len(p) - 1
        BY <2>2, <1>1
      <3>2. clips[i].end = B(i) + T(i)
        <4>1. i # Len(p)
          BY <2>2, <1>0
        <4> QED BY <4>1, <1>3
      <3>3. spans[p[i]].end <= B(i) - L(i)
        BY <3>1, <1>4
      <3>4. L(i) \in Nat /\ T(i) \in Nat /\ B(i) \in Int
        BY <3>1, BlendInPause DEF B, L, T
      <3> QED BY <3>2, <3>3, <3>4, <1>1
    <2> QED BY <2>1, <2>2, <1>1
  <1>9. ASSUME NEW i \in 1 .. Len(p), NEW j \in 1 .. Len(p), j < i
        PROVE  clips[j].end <= spans[p[i]].start
    <2>1. j \in 1 .. Len(p) - 1 /\ j + 1 \in 1 .. Len(p)
      BY <1>1, <1>9
    <2>2. clips[j].end = B(j) + T(j) /\ B(j) + T(j) \in Int
      <3>1. j # Len(p)
        BY <2>1, <1>0
      <3>2. clips[j].end = B(j) + T(j)
        BY <3>1, <1>3
      <3>3. B(j) \in Int /\ T(j) \in Int
        BY <2>1, <1>4
      <3> QED BY <3>2, <3>3
    <2>3. B(j) + T(j) <= spans[p[j + 1]].start
      BY <2>1, <1>4
    <2>4. spans[p[j + 1]].start <= spans[p[i]].start
      <3>1. CASE j + 1 = i
        BY <3>1, <1>1, <2>1
      <3>2. CASE j + 1 < i
        <4>1. spans[p[j + 1]].end <= spans[p[i]].start
          BY <3>2, <2>1, <1>5
        <4>2. spans[p[j + 1]].start < spans[p[j + 1]].end
          BY <2>1, <1>6
        <4>3. /\ spans[p[i]].start \in Nat /\ spans[p[j + 1]].start \in Nat
              /\ spans[p[j + 1]].end \in Nat
          BY <2>1, <1>1
        <4> QED BY <4>1, <4>2, <4>3
      <3>3. j + 1 = i \/ j + 1 < i
        BY <1>0, <1>9, <2>1
      <3> QED BY <3>1, <3>2, <3>3
    <2> QED BY <2>1, <2>2, <2>3, <2>4, <1>1
  <1>10. ASSUME NEW i \in 1 .. Len(p), NEW j \in 1 .. Len(p), i < j
         PROVE  spans[p[i]].end <= clips[j].start
    <2>1. j - 1 \in 1 .. Len(p) - 1 /\ j - 1 \in 1 .. Len(p) /\ j # 1
      BY <1>1, <1>10
    <2>2. clips[j].start = B(j - 1) - L(j - 1) /\ B(j - 1) - L(j - 1) \in Int
      BY <2>1, <1>3, <1>4
    <2>3. spans[p[j - 1]].end <= B(j - 1) - L(j - 1)
      BY <2>1, <1>4
    <2>4. spans[p[i]].end <= spans[p[j - 1]].end
      <3>1. CASE i = j - 1
        <4>1. spans[p[i]].end \in Nat
          BY <1>1
        <4> QED BY <3>1, <4>1
      <3>2. CASE i < j - 1
        <4>1. spans[p[i]].end <= spans[p[j - 1]].start
          BY <3>2, <2>1, <1>5
        <4>2. spans[p[j - 1]].start < spans[p[j - 1]].end
          BY <2>1, <1>6
        <4>3. /\ spans[p[i]].end \in Nat /\ spans[p[j - 1]].start \in Nat
              /\ spans[p[j - 1]].end \in Nat
          BY <2>1, <1>1
        <4> QED BY <4>1, <4>2, <4>3, SMTT(30)
      <3>3. i = j - 1 \/ i < j - 1
        BY <1>0, <1>10, <2>1
      <3> QED BY <3>1, <3>2, <3>3
    <2>5. spans[p[i]].end \in Nat /\ spans[p[j - 1]].end \in Nat
      BY <2>1, <1>1
    <2> QED BY <2>2, <2>3, <2>4, <2>5
  <1>11. \A i \in 1 .. Len(p) : clips[i].start \in Int /\ clips[i].end \in Int
    <2>1. ASSUME NEW i \in 1 .. Len(p)
          PROVE  clips[i].start \in Int
      <3>1. CASE i = 1
        BY <3>1, <1>3
      <3>2. CASE i # 1
        <4>1. clips[i].start = B(i - 1) - L(i - 1)
          BY <3>2, <1>3
        <4>2. i - 1 \in 1 .. Len(p) - 1
          BY <3>2, <1>0
        <4>3. B(i - 1) \in Int /\ L(i - 1) \in Int
          BY <4>2, <1>4
        <4> QED BY <4>1, <4>3
      <3> QED BY <3>1, <3>2
    <2>2. ASSUME NEW i \in 1 .. Len(p)
          PROVE  clips[i].end \in Int
      <3>1. CASE i = Len(p)
        BY <3>1, <1>3
      <3>2. CASE i # Len(p)
        <4>1. clips[i].end = B(i) + T(i)
          BY <3>2, <1>3
        <4>2. i \in 1 .. Len(p) - 1
          BY <3>2, <1>0
        <4>3. B(i) \in Int /\ T(i) \in Int
          BY <4>2, <1>4
        <4> QED BY <4>1, <4>3
      <3> QED BY <3>1, <3>2
    <2> QED BY <2>1, <2>2
  <1>12. clips[1].start = 0 /\ clips[Len(p)].end = total
    <2>1. 1 \in 1 .. Len(p) /\ Len(p) \in 1 .. Len(p)
      BY <1>0
    <2> QED BY <2>1, <1>3
  <1>13. \A i \in 1 .. Len(p) : clips[i].scene = p[i]
    BY <1>3
  <1> QED BY <1>2, <1>7, <1>8, <1>9, <1>10, <1>11, <1>12, <1>13

LEMMA SpeechIsCovered ==
    ASSUME NEW p, Checked(p), Len(p) > 0, NEW configured \in Int,
           NEW total \in Int, spans[p[Len(p)]].end <= total,
           NEW clips, clips = Clips(p, configured, total)
    PROVE  SpeechInside(clips)
  <1>1. /\ Len(p) \in Nat /\ DOMAIN clips = 1 .. Len(p)
        /\ \A i \in 1 .. Len(p) :
             /\ clips[i].scene = p[i]
             /\ clips[i].start <= spans[p[i]].start
             /\ spans[p[i]].end <= clips[i].end
        /\ \A i, j \in 1 .. Len(p) : i < j =>
             /\ clips[i].end <= spans[p[j]].start
             /\ spans[p[i]].end <= clips[j].start
    <2>1. Len(p) \in Nat
      BY OrderLength
    <2> QED BY <2>1, ClipBounds
  <1>2. ASSUME NEW i \in DOMAIN clips, NEW j \in DOMAIN clips \ {i}
        PROVE  \/ clips[j].end <= spans[p[i]].start
               \/ spans[p[i]].end <= clips[j].start
    <2>1. i \in 1 .. Len(p) /\ j \in 1 .. Len(p) /\ (j < i \/ i < j)
      BY <1>1
    <2> QED BY <2>1, <1>1
  <1> QED BY <1>1, <1>2 DEF SpeechInside

(* At every instant some frame is shown, and two only inside the           *)
(* transition between them.                                                *)
Tiled(clips, transitions, total) ==
    \A instant \in 0 .. total - 1 :
        LET on == {i \in DOMAIN clips :
                     /\ clips[i].start <= instant
                     /\ instant < clips[i].end}
            blending == {i \in DOMAIN transitions :
                     /\ transitions[i].start <= instant
                     /\ instant < transitions[i].start + transitions[i].duration}
        IN  \/ Cardinality(on) = 1 /\ blending = {}
            \/ \E i \in blending : on = {i, i + 1}

(* The least of a set of positions.                                        *)
LEMMA LeastPosition ==
    ASSUME NEW Positions, Positions \subseteq Nat, Positions # {}
    PROVE  \E i \in Positions : \A j \in Positions : i <= j
  <1> DEFINE Less == {pair \in Nat \X Nat : pair[1] < pair[2]}
  <1>1. IsWellFoundedOn(Less, Nat)
    BY NatLessThanWellFounded, Zenon DEF OpToRel
  <1>2. \A j, i \in Nat : j < i => <<j, i>> \in Less
    OBVIOUS
  <1> HIDE DEF Less
  <1>3. \E i \in Positions : \A j \in Positions : ~ (<<j, i>> \in Less)
    BY <1>1, WFMin, Zenon
  <1>4. PICK i \in Positions : \A j \in Positions : ~ (<<j, i>> \in Less)
    BY <1>3
  <1>5. ASSUME NEW j \in Positions
        PROVE  i <= j
    <2>1. ~(j < i)
      BY <1>2, <1>4
    <2> QED BY <2>1
  <1> QED BY <1>4, <1>5

(* A transition lasts exactly as long as its two clips overlap.            *)
LEMMA HandoverIsOverlap ==
    ASSUME NEW p, Checked(p), NEW configured \in Int, NEW total,
           NEW clips, clips = Clips(p, configured, total),
           NEW transitions, transitions = Handovers(p, configured)
    PROVE  /\ DOMAIN transitions = 1 .. Len(p) - 1
           /\ \A i \in 1 .. Len(p) - 1 :
                /\ transitions[i].start = clips[i + 1].start
                /\ transitions[i].start \in Int
                /\ transitions[i].start + transitions[i].duration = clips[i].end
                /\ clips[i + 1].start <= clips[i].end
  <1>1. Len(p) \in Nat
    BY OrderLength
  <1>2. DOMAIN transitions = 1 .. Len(p) - 1
    BY DEF Handovers
  <1>3. ASSUME NEW i \in 1 .. Len(p) - 1
        PROVE  /\ transitions[i].start = clips[i + 1].start
               /\ transitions[i].start \in Int
               /\ transitions[i].start + transitions[i].duration = clips[i].end
               /\ clips[i + 1].start <= clips[i].end
    <2> DEFINE B == Boundary(p, i)
               L == Lead(p, configured, i)
               T == Trail(p, configured, i)
               D == Blend(p, configured, i)
    <2>1. B \in Int /\ L \in Nat /\ T \in Nat /\ D \in Nat /\ L + T = D
      BY BlendInPause
    <2>2. transitions[i].start = B - L /\ transitions[i].duration = D
      BY DEF Handovers
    <2>3. i \in 1 .. Len(p) /\ i # Len(p) /\ i + 1 \in 1 .. Len(p)
          /\ i + 1 # 1 /\ (i + 1) - 1 = i
      BY <1>1
    <2>4. clips[i].end = B + T
      BY <2>3 DEF Clips
    <2>5. clips[i + 1].start = B - L
      BY <2>3 DEF Clips
    <2> HIDE DEF B, L, T, D
    <2> QED BY <2>1, <2>2, <2>4, <2>5
  <1> QED BY <1>2, <1>3

LEMMA ClipsTile ==
    ASSUME NEW p, Checked(p), Len(p) > 0, NEW configured \in Int,
           NEW total \in Int, spans[p[Len(p)]].end <= total,
           NEW clips, clips = Clips(p, configured, total),
           NEW transitions, transitions = Handovers(p, configured)
    PROVE  Tiled(clips, transitions, total)
  <1>1. Len(p) \in Nat
    BY OrderLength
  <1>2. DOMAIN clips = 1 .. Len(p) /\ clips[1].start = 0 /\ clips[Len(p)].end = total
    BY ClipBounds
  <1>3. \A i \in 1 .. Len(p) : clips[i].start \in Int /\ clips[i].end \in Int
    BY ClipBounds
  <1>4. \A i, j \in 1 .. Len(p) : i + 1 < j => clips[i].end <= clips[j].start
    <2>1. SUFFICES ASSUME NEW i \in 1 .. Len(p), NEW j \in 1 .. Len(p), i + 1 < j
                   PROVE  clips[i].end <= clips[j].start
      OBVIOUS
    <2>2. i + 1 \in 1 .. Len(p) /\ i < i + 1 /\ i + 1 < j
      BY <1>1, <2>1
    <2>3. clips[i].end <= spans[p[i + 1]].start /\ spans[p[i + 1]].end <= clips[j].start
      BY <2>2, ClipBounds
    <2>4. spans[p[i + 1]].start < spans[p[i + 1]].end
      BY <2>2, SpansInOrder
    <2>5. spans[p[i + 1]].start \in Nat /\ spans[p[i + 1]].end \in Nat
      BY <2>2, OrderIsSequence DEF Checked
    <2> QED BY <2>3, <2>4, <2>5, <1>3
  <1>5. /\ DOMAIN transitions = 1 .. Len(p) - 1
        /\ \A i \in 1 .. Len(p) - 1 :
             /\ transitions[i].start = clips[i + 1].start
             /\ transitions[i].start + transitions[i].duration = clips[i].end
             /\ clips[i + 1].start <= clips[i].end
    BY HandoverIsOverlap
  <1> DEFINE On(t) == {i \in DOMAIN clips : clips[i].start <= t /\ t < clips[i].end}
             Blending(t) == {i \in DOMAIN transitions :
                               /\ transitions[i].start <= t
                               /\ t < transitions[i].start + transitions[i].duration}
  <1>t. SUFFICES ASSUME NEW instant \in 0 .. total - 1
                 PROVE  \/ Cardinality(On(instant)) = 1 /\ Blending(instant) = {}
                        \/ \E i \in Blending(instant) : On(instant) = {i, i + 1}
    BY Zenon DEF Tiled
  <1>6. SUFFICES ASSUME NEW on, on = {i \in DOMAIN clips :
                                   /\ clips[i].start <= instant
                                   /\ instant < clips[i].end},
                        NEW blending, blending = {i \in DOMAIN transitions :
                                   /\ transitions[i].start <= instant
                                   /\ instant < transitions[i].start
                                                  + transitions[i].duration}
                 PROVE  \/ Cardinality(on) = 1 /\ blending = {}
                        \/ \E i \in blending : on = {i, i + 1}
    OBVIOUS
  <1>7. PICK i \in 1 .. Len(p) :
          /\ instant < clips[i].end
          /\ \A j \in 1 .. Len(p) : instant < clips[j].end => i <= j
    <2> DEFINE Later == {j \in 1 .. Len(p) : instant < clips[j].end}
    <2>1. Len(p) \in Later
      BY <1>1, <1>2, <1>6
    <2>2. Later \in SUBSET Nat /\ Later # {}
      BY <2>1
    <2>3. \E i \in Later : \A j \in Later : i <= j
      BY <2>2, LeastPosition
    <2> QED BY <2>3
  <1>8. i \in on
    <2>1. CASE i = 1
      BY <2>1, <1>2, <1>6, <1>7
    <2>2. CASE i # 1
      <3>1. i - 1 \in 1 .. Len(p) - 1 /\ i - 1 \in 1 .. Len(p)
            /\ (i - 1) + 1 = i /\ ~(i <= i - 1)
        BY <2>2, <1>1
      <3>2. ~(instant < clips[i - 1].end)
        BY <3>1, <1>7
      <3>3. clips[i].start <= clips[i - 1].end
        BY <3>1, <1>5
      <3>4. clips[i].start \in Int /\ clips[i - 1].end \in Int /\ instant \in Int
        BY <3>1, <1>3
      <3>5. clips[i].start <= instant
        BY <3>2, <3>3, <3>4
      <3> QED BY <3>5, <1>2, <1>6, <1>7
    <2> QED BY <2>1, <2>2
  <1>9. \A j \in on : j = i \/ j = i + 1
    <2>1. SUFFICES ASSUME NEW j \in on
                   PROVE  j = i \/ j = i + 1
      OBVIOUS
    <2>2. /\ j \in 1 .. Len(p) /\ clips[j].start <= instant
          /\ instant < clips[j].end
      BY <1>2, <1>6
    <2>3. i <= j
      BY <2>2, <1>7
    <2>4. ~(i + 1 < j)
      <3>1. SUFFICES ASSUME i + 1 < j PROVE FALSE
        OBVIOUS
      <3>2. clips[i].end <= clips[j].start
        BY <3>1, <2>2, <1>4
      <3>3. clips[i].end \in Int /\ clips[j].start \in Int /\ instant \in Int
        BY <2>2, <1>3
      <3> QED BY <3>2, <3>3, <2>2, <1>7
    <2> QED BY <2>2, <2>3, <2>4
  <1>10. CASE i + 1 \in on
    <2>1. on = {i, i + 1}
      BY <1>8, <1>9, <1>10
    <2>2. i \in 1 .. Len(p) - 1 /\ clips[i + 1].start <= instant
      BY <1>10, <1>1, <1>2, <1>6
    <2>3. i \in blending
      BY <2>2, <1>5, <1>6, <1>7
    <2> QED BY <2>1, <2>3
  <1>11. CASE i + 1 \notin on
    <2>1. on = {i}
      BY <1>8, <1>9, <1>11
    <2>2. Cardinality(on) = 1
      BY <2>1, FS_Singleton
    <2>3. ASSUME NEW j \in blending
          PROVE  FALSE
      <3>1. /\ j \in 1 .. Len(p) - 1
            /\ clips[j + 1].start <= instant /\ instant < clips[j].end
        BY <1>5, <1>6
      <3>2. j \in 1 .. Len(p) /\ j + 1 \in 1 .. Len(p)
        BY <3>1, <1>1
      <3>3. i <= j
        BY <3>1, <3>2, <1>7
      <3>4. i # j
        <4>1. SUFFICES ASSUME i = j PROVE FALSE
          OBVIOUS
        <4>2. i + 1 \notin on /\ i + 1 \in 1 .. Len(p) /\ clips[i + 1].start <= instant
          BY <4>1, <3>1, <3>2, <1>11
        <4>3. clips[i + 1].end <= instant
          BY <4>2, <1>2, <1>3, <1>6
        <4>4. instant < clips[i].end
          BY <1>7
        <4>5. i \in 1 .. Len(p) /\ i < i + 1
          BY <1>7
        <4>6. clips[i].end <= spans[p[i + 1]].start /\ spans[p[i + 1]].end <= clips[i + 1].end
          BY <4>2, <4>5, ClipBounds
        <4>7. /\ spans[p[i + 1]].start < spans[p[i + 1]].end
              /\ spans[p[i + 1]].start \in Nat /\ spans[p[i + 1]].end \in Nat
          BY <4>2, SpanChecks
        <4>8. clips[i].end \in Int /\ clips[i + 1].end \in Int /\ instant \in Int
          BY <4>2, <1>3
        <4>9. clips[i].end < clips[i + 1].end
          BY <4>6, <4>7, <4>8, SMTT(30)
        <4> QED BY <4>3, <4>4, <4>8, <4>9
      <3>5. i < j /\ i + 1 < j + 1
        BY <3>3, <3>4, <3>2
      <3>6. clips[i].end <= clips[j + 1].start
        BY <3>2, <3>5, <1>4
      <3>7. clips[i].end \in Int /\ clips[j + 1].start \in Int /\ instant \in Int
        BY <3>2, <1>3
      <3> QED BY <3>1, <3>6, <3>7, <1>7
    <2> QED BY <2>2, <2>3
  <1> QED BY <1>10, <1>11

-----------------------------------------------------------------------------
(* The inductive invariant: the scenes are voiced in order before anything *)
(* is compiled, and an accepted timeline is what _plan_clips and           *)
(* _transitions make of the stored spans.                                  *)
VoicedFirst ==
    /\ Len(spans) <= Len(narrations)
    /\ stage = "stored" => Len(spans) = Len(narrations)
    /\ stage # "stored" => verdict = "none"
    /\ verdict = "none" => cards = {}

PlannedFrom(p, configured, total) ==
    /\ Checked(p)
    /\ Len(p) > 0
    /\ spans[p[Len(p)]].end <= total
    /\ timeline.total = total
    /\ timeline.clips = Clips(p, configured, total)
    /\ timeline.transitions = Handovers(p, configured)

Planned ==
    verdict = "compiled" =>
        \E p \in [Scene -> Scene], configured \in Int, total \in Int :
            PlannedFrom(p, configured, total)

Inv == TypeOK /\ VoicedFirst /\ Planned

(* What TypeOK says of the voice's part, for the steps that use only that. *)
LEMMA WordsTyped ==
    ASSUME TypeOK
    PROVE  WordsSoFar \in Seq(Timing) /\ Len(words) <= Len(WordsSoFar)
  <1>1. /\ words \in Seq(Timing) /\ reached \in Nat
        /\ open \in [text : Seq(Char), start : Nat, offset : Nat]
    BY DEF TypeOK
  <1>2. Word \in Timing
    BY <1>1 DEF Word, Timing
  <1> HIDE DEF Word
  <1>3. CASE open.text = <<>>
    BY <1>1, <1>3 DEF WordsSoFar
  <1>4. CASE open.text # <<>>
    <2>1. WordsSoFar = Append(words, Word)
      BY <1>4 DEF WordsSoFar
    <2> QED BY <2>1, <1>1, <1>2
  <1> QED BY <1>3, <1>4

LEMMA NarrationsTyped ==
    ASSUME TypeOK
    PROVE  narrations \in Seq(Seq(Char)) /\ narrations # <<>> /\ Len(narrations) \in Nat \ {0}
  <1>1. narrations \in Seq(Seq(Char)) /\ narrations # <<>>
    BY ScriptAssumption DEF TypeOK
  <1> QED BY <1>1

LEMMA WordCountIsNatural ==
    ASSUME NEW text \in Seq(Char)
    PROVE  WordCount(text) \in Nat
  <1> DEFINE Starts == {i \in 1 .. Len(text) :
                          text[i] # Space /\ (i = 1 \/ text[i - 1] = Space)}
  <1>1. Len(text) \in Nat
    OBVIOUS
  <1>2. IsFiniteSet(1 .. Len(text))
    BY <1>1, FS_Interval
  <1>3. IsFiniteSet(Starts)
    <2>1. Starts \in SUBSET (1 .. Len(text))
      OBVIOUS
    <2> QED BY <1>2, <2>1, FS_Subset
  <1>4. Cardinality(Starts) \in Nat
    BY <1>3, FS_CardinalityType
  <1> QED BY <1>4 DEF WordCount

(* A scene claims words that are there, from where the last scene stopped. *)
LEMMA ClaimedTyped ==
    ASSUME TypeOK, Len(spans) < Len(narrations)
    PROVE  Claimed \in Seq(Timing) /\ cursor + Len(Claimed) \in 0 .. Len(words)
  <1> DEFINE wanted == WordCount(narrations[Len(spans) + 1])
             left == Len(words) - cursor
             share == IF wanted < left THEN wanted ELSE left
  <1>1. words \in Seq(Timing) /\ cursor \in 0 .. Len(words) /\ Len(words) \in Nat
        /\ Len(spans) \in Nat
    <2>1. words \in Seq(Timing) /\ cursor \in 0 .. Len(words)
      BY DEF TypeOK
    <2>2. spans \in Seq([start : Nat, end : Nat, words : Seq(Timing)])
      BY DEF TypeOK
    <2>3. Len(words) \in Nat /\ Len(spans) \in Nat
      BY <2>1, <2>2
    <2> QED BY <2>1, <2>3
  <1>2. wanted \in Nat
    <2>1. narrations \in Seq(Seq(Char)) /\ Len(spans) + 1 \in 1 .. Len(narrations)
      BY <1>1, NarrationsTyped
    <2>2. narrations[Len(spans) + 1] \in Seq(Char)
      BY <2>1
    <2> QED BY <2>2, WordCountIsNatural
  <1>3. Claimed = SubSeq(words, cursor + 1, cursor + share)
    BY DEF Claimed
  <1> HIDE DEF wanted
  <1>4. share \in Nat /\ cursor + share \in 0 .. Len(words)
    BY <1>1, <1>2
  <1> HIDE DEF share
  <1>5. Claimed \in Seq(Timing) /\ Len(Claimed) = share
    BY <1>1, <1>3, <1>4
  <1> QED BY <1>4, <1>5

LEMMA SpanTyped ==
    ASSUME NEW claimed \in Seq(Timing)
    PROVE  SpanOf(claimed) \in Span
  <1>1. CASE claimed = <<>>
    BY <1>1 DEF SpanOf, Span
  <1>2. CASE claimed # <<>>
    <2>1. claimed[1] \in Timing /\ claimed[Len(claimed)] \in Timing
      <3>1. 1 \in 1 .. Len(claimed) /\ Len(claimed) \in 1 .. Len(claimed)
        BY <1>2
      <3> QED BY <3>1
    <2>2. claimed[1].start \in Nat /\ claimed[Len(claimed)].end \in Nat
      BY <2>1 DEF Timing
    <2> QED BY <1>2, <2>2 DEF SpanOf, Span
  <1> QED BY <1>1, <1>2

-----------------------------------------------------------------------------
LEMMA InitInv == Init => Inv
  <1> SUFFICES ASSUME Init PROVE Inv
    OBVIOUS
  <1>1. TypeOK
    BY ScriptAssumption DEF Init, VoiceInit, TypeOK, Nothing, NoTimeline
  <1>2. VoicedFirst
    <2>1. spans = <<>> /\ stage = "listening" /\ verdict = "none" /\ cards = {}
      BY DEF Init, VoiceInit
    <2>2. Len(narrations) \in Nat
      BY <1>1, NarrationsTyped
    <2> QED BY <2>1, <2>2 DEF VoicedFirst
  <1>3. Planned
    BY DEF Init, Planned
  <1> QED BY <1>1, <1>2, <1>3 DEF Inv

(* While the voice works there is no verdict, no card and no timeline yet, *)
(* so of the compiler's state only its types can be disturbed.             *)
LEMMA VoiceInv ==
    ASSUME Inv, Voice
    PROVE  Inv'
  <1>1. TypeOK /\ VoicedFirst
    BY DEF Inv
  <1>2. stage \in {"listening", "assigning"}
    BY DEF Voice, VoiceNext, HearSpace, Hear, EndOfAnswer, AssignScene, StoreNarration
  <1>3. verdict = "none" /\ cards = {}
    BY <1>1, <1>2 DEF VoicedFirst
  <1>4. verdict' = "none" /\ cards' = {} /\ timeline' = timeline
    BY <1>3 DEF Voice
  <1>5. Planned'
    BY <1>4 DEF Planned
  <1>6. /\ stage \in {"listening", "assigning", "stored", "unvoiced"}
        /\ narrations \in Scripts
        /\ heard \in Nat /\ reached \in Nat
        /\ words \in Seq(Timing)
        /\ open \in [text : Seq(Char), start : Nat, offset : Nat]
        /\ spans \in Seq(Span)
        /\ cursor \in 0 .. Len(words)
        /\ timeline.total \in Nat
    BY <1>1 DEF TypeOK, Span
  <1>7. WordsSoFar \in Seq(Timing) /\ Len(words) <= Len(WordsSoFar)
    BY <1>1, WordsTyped
  <1>8. /\ Len(words) \in Nat /\ Len(WordsSoFar) \in Nat
        /\ Len(spans) \in Nat /\ Len(narrations) \in Nat
    BY <1>1, <1>6, <1>7, NarrationsTyped
  <1>9. cursor \in 0 .. Len(WordsSoFar)
    BY <1>6, <1>7, <1>8
  <1>10. SUFFICES
           /\ stage' \in {"listening", "assigning", "stored", "unvoiced"}
           /\ narrations' \in Scripts
           /\ heard' \in Nat /\ reached' \in Nat
           /\ words' \in Seq(Timing)
           /\ open' \in [text : Seq(Char), start : Nat, offset : Nat]
           /\ spans' \in Seq(Span)
           /\ cursor' \in 0 .. Len(words')
           /\ Len(spans') <= Len(narrations')
           /\ stage' = "stored" => Len(spans') = Len(narrations')
    BY <1>4, <1>5, <1>6 DEF Inv, TypeOK, Span, VoicedFirst
  <1>11. Len(spans) <= Len(narrations)
    BY <1>1 DEF VoicedFirst
  <1>12. Nothing \in [text : Seq(Char), start : Nat, offset : Nat]
    BY DEF Nothing
  <1>13. CASE HearSpace
    <2> HIDE DEF WordsSoFar
    <2> QED BY <1>13, <1>6, <1>7, <1>9, <1>11, <1>12, <1>2 DEF HearSpace
  <1>14. ASSUME NEW char \in Char \ {Space}, NEW pause \in Pauses, NEW length \in Lengths,
                Hear(char, pause, length)
         PROVE  /\ stage' = stage /\ narrations' = narrations /\ words' = words
                /\ spans' = spans /\ cursor' = cursor
                /\ heard' \in Nat /\ reached' \in Nat
                /\ open' \in [text : Seq(Char), start : Nat, offset : Nat]
    <2> DEFINE at == reached + pause
    <2>1. at \in Nat /\ length \in Int
      <3>1. pause \in Int /\ length \in Int
        BY TimeAssumption
      <3>2. at >= 0
        BY <1>14 DEF Hear
      <3> QED BY <3>1, <3>2, <1>6
    <2>2. reached' = IF at + length > reached THEN at + length ELSE reached
      BY <1>14 DEF Hear
    <2>3. open' = IF open.text = <<>>
                    THEN [text |-> <<char>>, start |-> at, offset |-> heard]
                    ELSE [open EXCEPT !.text = Append(@, char)]
      BY <1>14 DEF Hear
    <2>4. /\ stage' = stage /\ narrations' = narrations /\ words' = words
          /\ spans' = spans /\ cursor' = cursor /\ heard' = heard + 1
      BY <1>14 DEF Hear
    <2> HIDE DEF at
    <2>5. reached' \in Nat
      BY <2>1, <2>2, <1>6
    <2>6. open' \in [text : Seq(Char), start : Nat, offset : Nat]
      <3>1. CASE open.text = <<>>
        <4>1. open' = [text |-> <<char>>, start |-> at, offset |-> heard]
          BY <3>1, <2>3
        <4>2. <<char>> \in Seq(Char)
          OBVIOUS
        <4> QED BY <4>1, <4>2, <2>1, <1>6
      <3>2. CASE open.text # <<>>
        <4>1. open' = [open EXCEPT !.text = Append(open.text, char)]
          BY <3>2, <2>3
        <4>2. Append(open.text, char) \in Seq(Char)
          BY <1>6
        <4> QED BY <4>1, <4>2, <1>6
      <3> QED BY <3>1, <3>2
    <2>7. heard' \in Nat
      BY <2>4, <1>6
    <2> QED BY <2>4, <2>5, <2>6, <2>7
  <1>15. CASE EndOfAnswer
    <2> HIDE DEF WordsSoFar
    <2> QED BY <1>15, <1>6, <1>7, <1>9, <1>11, <1>12 DEF EndOfAnswer
  <1>16. CASE AssignScene
    <2>1. Len(spans) < Len(narrations)
      BY <1>16 DEF AssignScene
    <2>2. SpanOf(Claimed) \in Span /\ cursor + Len(Claimed) \in 0 .. Len(words)
      BY <2>1, <1>1, ClaimedTyped, SpanTyped
    <2>3. /\ spans' = Append(spans, SpanOf(Claimed)) /\ cursor' = cursor + Len(Claimed)
          /\ stage' = stage /\ stage = "assigning" /\ narrations' = narrations
          /\ heard' = heard /\ words' = words /\ open' = open /\ reached' = reached
      BY <1>16 DEF AssignScene
    <2>4. spans' \in Seq(Span) /\ Len(spans') = Len(spans) + 1
      BY <2>2, <2>3, <1>6
    <2>5. Len(spans') <= Len(narrations')
      BY <2>1, <2>3, <2>4, <1>8
    <2> QED BY <2>2, <2>3, <2>4, <2>5, <1>6
  <1>17. CASE StoreNarration
    BY <1>17, <1>6, <1>11 DEF StoreNarration
  <1>18. VoiceNext
    BY DEF Voice
  <1>19. ASSUME NEW char \in Char \ {Space}, NEW pause \in Pauses, NEW length \in Lengths,
                Hear(char, pause, length)
         PROVE  stage' # "stored"
    BY <1>19, <1>14, <1>2
  <1> QED
    BY <1>13, <1>14, <1>15, <1>16, <1>17, <1>18, <1>19, <1>6, <1>11 DEF VoiceNext

(* The plan is made of the spans alone.                                    *)
LEMMA PlanIsOfSpans ==
    ASSUME NEW p, NEW configured, NEW total, spans' = spans
    PROVE  /\ Checked(p)' <=> Checked(p)
           /\ Clips(p, configured, total)' = Clips(p, configured, total)
           /\ Handovers(p, configured)' = Handovers(p, configured)
  <1>1. Scene' = Scene
    BY DEF Scene
  <1>2. ByStart(p)' <=> ByStart(p)
    BY DEF ByStart
  <1>3. Empty(p)' <=> Empty(p)
    BY DEF Empty
  <1>4. Overlapping(p)' <=> Overlapping(p)
    BY DEF Overlapping
  <1>5. Checked(p)' <=> Checked(p)
    BY <1>1, <1>2, <1>3, <1>4 DEF Checked
  <1>6. ASSUME NEW i
        PROVE  /\ Boundary(p, i)' = Boundary(p, i)
               /\ Blend(p, configured, i)' = Blend(p, configured, i)
    BY DEF Boundary, Blend, Gap
  <1>7. ASSUME NEW i
        PROVE  /\ Lead(p, configured, i)' = Lead(p, configured, i)
               /\ Trail(p, configured, i)' = Trail(p, configured, i)
    BY <1>6 DEF Lead, Trail
  <1>8. Clips(p, configured, total)' = Clips(p, configured, total)
    BY <1>6, <1>7 DEF Clips
  <1>9. Handovers(p, configured)' = Handovers(p, configured)
    BY <1>6, <1>7 DEF Handovers
  <1> QED BY <1>5, <1>8, <1>9

LEMMA StutterInv ==
    ASSUME Inv, UNCHANGED vars
    PROVE  Inv'
  <1>1. TypeOK'
    BY DEF Inv, vars, voiceVars, TypeOK, Scene
  <1>2. VoicedFirst'
    BY DEF Inv, vars, voiceVars, VoicedFirst
  <1>3. Planned'
    <2>1. spans' = spans /\ verdict' = verdict /\ timeline' = timeline
      BY DEF vars, voiceVars
    <2>2. SUFFICES ASSUME verdict = "compiled"
                   PROVE  \E p \in [Scene -> Scene], configured \in Int, total \in Int :
                            PlannedFrom(p, configured, total)'
      BY <2>1 DEF Planned, Scene
    <2>3. PICK p \in [Scene -> Scene], configured \in Int, total \in Int :
            PlannedFrom(p, configured, total)
      BY <2>2 DEF Inv, Planned
    <2>4. PlannedFrom(p, configured, total)'
      BY <2>1, <2>3, PlanIsOfSpans DEF PlannedFrom
    <2> QED BY <2>4
  <1> QED BY <1>1, <1>2, <1>3 DEF Inv

LEMMA NoFrameInv ==
    ASSUME Inv, NoFrame
    PROVE  Inv'
  <1>1. TypeOK'
    BY DEF Inv, NoFrame, voiceVars, TypeOK, Scene
  <1>2. VoicedFirst'
    BY DEF Inv, NoFrame, voiceVars, VoicedFirst
  <1>3. Planned'
    BY DEF NoFrame, Planned
  <1> QED BY <1>1, <1>2, <1>3 DEF Inv

LEMMA CompileInv ==
    ASSUME Inv, NEW carded \in SUBSET Scene, NEW configured \in Transitions,
           NEW tail \in Tails, NEW padding \in Paddings,
           Compile(carded, configured, tail, padding)
    PROVE  Inv'
  <1> DEFINE duration == reached + padding
             Result(p) == Compiled(p, carded, configured, tail, duration)
  <1>1. PICK p \in [Scene -> Scene] :
          /\ stage = "stored" /\ duration > 0
          /\ ByStart(p)
          /\ cards' = carded
          /\ verdict' = CASE Empty(p) -> "empty span"
                          [] ~Empty(p) /\ Overlapping(p) -> "overlap"
                          [] ~Empty(p) /\ ~Overlapping(p)
                               /\ ~Accepted(Result(p), duration) -> "refused"
                          [] OTHER -> "compiled"
          /\ timeline' = IF verdict' = "compiled" THEN Result(p) ELSE timeline
          /\ UNCHANGED voiceVars
    BY Zenon DEF Compile
  <1>2. verdict' \in {"empty span", "overlap", "refused", "compiled"}
    BY <1>1
  <1>3. verdict' = "compiled" => ~Empty(p) /\ ~Overlapping(p)
    BY <1>1
  <1>4. /\ spans \in Seq(Span) /\ Len(spans) \in Nat /\ Len(spans) > 0
        /\ reached \in Nat /\ timeline.total \in Nat
    <2>1. TypeOK /\ Len(spans) = Len(narrations)
      BY <1>1 DEF Inv, VoicedFirst
    <2>2. Len(narrations) \in Nat \ {0}
      BY <2>1, NarrationsTyped
    <2>3. spans \in Seq(Span) /\ reached \in Nat /\ timeline.total \in Nat
      BY <2>1 DEF TypeOK, Span
    <2> QED BY <2>1, <2>2, <2>3
  <1>5. Len(p) \in Nat /\ Len(p) > 0 /\ spans[p[Len(p)]].end \in Nat
    <2>1. Len(p) = Len(spans) /\ \A i \in 1 .. Len(p) : spans[p[i]].end \in Nat
      BY <1>4, OrderIsSequence
    <2>2. Len(p) \in 1 .. Len(p)
      BY <2>1, <1>4
    <2> QED BY <2>1, <2>2, <1>4
  <1>6. /\ TotalOf(p, duration, tail) \in Nat
        /\ spans[p[Len(p)]].end <= TotalOf(p, duration, tail)
    <2>1. duration \in Nat /\ tail \in Nat
      <3>1. tail \in Nat /\ padding \in Int
        BY OptionAssumption
      <3>2. reached + padding > 0
        BY <1>1
      <3> QED BY <3>1, <3>2, <1>4
    <2> HIDE DEF duration
    <2> QED BY <2>1, <1>5 DEF TotalOf
  <1>7. Result(p).total \in Nat
    BY <1>6 DEF Compiled
  <1>8. TypeOK'
    <2>1. timeline'.total \in Nat
      BY <1>1, <1>4, <1>7
    <2>2. cards' \in SUBSET Scene
      BY <1>1
    <2> QED BY <1>1, <1>2, <2>1, <2>2 DEF Inv, voiceVars, TypeOK, Scene
  <1>9. VoicedFirst'
    BY <1>1, <1>2 DEF Inv, voiceVars, VoicedFirst
  <1>10. Planned'
    <2> DEFINE total == TotalOf(p, duration, tail)
    <2>1. SUFFICES ASSUME verdict' = "compiled"
                   PROVE  \E q \in [Scene -> Scene], c \in Int, t \in Int :
                            PlannedFrom(q, c, t)'
      BY <1>1 DEF Planned, Scene, voiceVars
    <2>2. timeline' = Result(p)
      BY <1>1, <2>1
    <2>3. /\ timeline'.total = total
          /\ timeline'.clips = Clips(p, configured, total)
          /\ timeline'.transitions = Handovers(p, configured)
      BY <2>2 DEF Compiled
    <2>4. Checked(p)
      BY <1>1, <1>3, <1>4, <2>1 DEF Checked
    <2>5. spans' = spans
      BY <1>1 DEF voiceVars
    <2>6. configured \in Int /\ total \in Int
      BY <1>6, OptionAssumption
    <2>7. PICK t \in Int : t = total
      BY <2>6
    <2>8. spans[p[Len(p)]].end <= t
      BY <1>6, <2>7
    <2>9. PlannedFrom(p, configured, t)'
      BY <2>3, <2>4, <2>5, <2>7, <2>8, <1>5, PlanIsOfSpans DEF PlannedFrom
    <2> QED BY <2>6, <2>9
  <1> QED BY <1>8, <1>9, <1>10 DEF Inv

LEMMA NextInv == Inv /\ [Next]_vars => Inv'
  <1> SUFFICES ASSUME Inv, [Next]_vars PROVE Inv'
    OBVIOUS
  <1>1. CASE Voice
    BY <1>1, VoiceInv
  <1>2. CASE NoFrame
    BY <1>2, NoFrameInv
  <1>3. ASSUME NEW carded \in SUBSET Scene, NEW configured \in Transitions,
               NEW tail \in Tails, NEW padding \in Paddings,
               Compile(carded, configured, tail, padding)
        PROVE  Inv'
    BY <1>3, CompileInv
  <1>4. CASE UNCHANGED vars
    BY <1>4, StutterInv
  <1> QED BY <1>1, <1>2, <1>3, <1>4 DEF Next

LEMMA SpecInv == Spec => []Inv
  BY InitInv, NextInv, PTL DEF Spec

(* The state's types. *)
THEOREM TypeCorrect == Spec => []TypeOK
  <1>1. Inv => TypeOK
    BY DEF Inv
  <1> QED BY SpecInv, <1>1, PTL

LEMMA PlanIsSafe == Inv => SpeechOverItsOwnFrame /\ EveryInstantHasItsFrame
  <1> SUFFICES ASSUME Inv, verdict = "compiled"
               PROVE  /\ SpeechInside(timeline.clips)
                      /\ Tiled(timeline.clips, timeline.transitions, timeline.total)
    BY Zenon DEF SpeechOverItsOwnFrame, EveryInstantHasItsFrame, SpeechInside, Tiled
  <1>1. PICK p \in [Scene -> Scene], configured \in Int, total \in Int :
            PlannedFrom(p, configured, total)
    BY DEF Inv, Planned
  <1> QED BY <1>1, SpeechIsCovered, ClipsTile DEF PlannedFrom

(* While a scene is spoken its own frame, and no other, is on screen: what *)
(* the midpoint rule of _plan_clips and the blend that must fit the pause  *)
(* promise, for any timings and any configured cross-fade.                 *)
THEOREM SpeechHasItsFrame == Spec => []SpeechOverItsOwnFrame
  BY SpecInv, PlanIsSafe, PTL

(* No instant of a compiled video is black, and two frames share one only  *)
(* inside the transition between them.                                     *)
THEOREM FramesTileTheVideo == Spec => []EveryInstantHasItsFrame
  BY SpecInv, PlanIsSafe, PTL

-----------------------------------------------------------------------------
(* The narrations joined: the n-th value is the first n of them with single *)
(* spaces between, and Script is the last one.                             *)
Joins(joined, texts) ==
    joined = [k \in 1 .. Len(texts) |->
                IF k = 1 THEN texts[1] ELSE joined[k - 1] \o <<Space>> \o texts[k]]

Joined == CHOOSE joined : Joins(joined, narrations)

(* Where a scene's text ends in the script, and what comes before it. *)
EndOf(k) == IF k = 0 THEN 0 ELSE Len(Joined[k])
BeginOf(k) == IF k = 1 THEN 0 ELSE EndOf(k - 1) + 1

-----------------------------------------------------------------------------
(* What the two loops over the answer keep.                                *)

Within(i, word) == i \in word.offset + 1 .. word.offset + Len(word.text)

(* A word is the script's text at its offset, has no white space, comes    *)
(* after some and has been heard.                                          *)
Sound(word, h) ==
    /\ word.text \in Seq(Char) /\ word.text # <<>> /\ word.offset \in Nat
    /\ word.offset + Len(word.text) <= h
    /\ \A j \in 1 .. Len(word.text) :
         word.text[j] = Script[word.offset + j] /\ word.text[j] # Space
    /\ word.offset = 0 \/ Script[word.offset] = Space

(* The words are sound, follow each other, and leave nothing heard out.    *)
Hears(heardWords, h) ==
    /\ \A m \in 1 .. Len(heardWords) : Sound(heardWords[m], h)
    /\ \A m, l \in 1 .. Len(heardWords) :
         m < l => heardWords[m].offset + Len(heardWords[m].text) <= heardWords[l].offset
    /\ \A i \in 1 .. h :
         Script[i] # Space => \E m \in 1 .. Len(heardWords) : Within(i, heardWords[m])

Listens ==
    /\ heard <= Len(Script)
    /\ Hears(WordsSoFar, heard)
    /\ stage = "listening" =>
         /\ spans = <<>> /\ cursor = 0
         /\ open.text = <<>> => heard = 0 \/ Script[heard] = Space
         /\ open.text # <<>> => open.offset + Len(open.text) = heard
    /\ stage # "listening" => open.text = <<>>

(* The scenes so far have claimed exactly the words that begin in their    *)
(* text, each in the scene it begins in and each once.                     *)
Counted ==
    \A m \in 1 .. Len(words) : m <= cursor <=> words[m].offset < EndOf(Len(spans))

Placed ==
    \A k \in Scene : \A j \in 1 .. Len(spans[k].words) :
        \E m \in 1 .. cursor :
            /\ spans[k].words[j] = words[m]
            /\ EndOf(k - 1) <= words[m].offset /\ words[m].offset < EndOf(k)

Ascending ==
    \A k \in Scene : \A i, j \in 1 .. Len(spans[k].words) :
        i < j => spans[k].words[i].offset < spans[k].words[j].offset

NoneLeft ==
    \A m \in 1 .. cursor :
        \E k \in Scene : \E j \in 1 .. Len(spans[k].words) : spans[k].words[j] = words[m]

Claims == Counted /\ Placed /\ Ascending /\ NoneLeft

HeardInv == Inv /\ Listens /\ (stage # "listening" => Claims)


-----------------------------------------------------------------------------
LEMMA SpaceIsChar == Space \in Char
  BY Zenon DEF Char

(* A property of 0 to n that starts and is passed on holds throughout.     *)
LEMMA Upwards ==
    ASSUME NEW n \in Nat, NEW Good, 0 \in Good,
           \A m \in 0 .. n : m \in Good /\ m < n => m + 1 \in Good
    PROVE  \A m \in 0 .. n : m \in Good
  <1> DEFINE Bad == {m \in 0 .. n : m \notin Good}
  <1> SUFFICES ASSUME Bad # {} PROVE FALSE
    OBVIOUS
  <1>1. Bad \subseteq Nat
    OBVIOUS
  <1>2. PICK m \in Bad : \A l \in Bad : m <= l
    <2> HIDE DEF Bad
    <2> QED BY <1>1, LeastPosition
  <1>3. m \in 0 .. n /\ m \notin Good /\ m # 0
    BY <1>2
  <1>4. m - 1 \in 0 .. n /\ m - 1 < n /\ ~(m <= m - 1)
    BY <1>3
  <1>5. m - 1 \in Good
    BY <1>2, <1>4
  <1>6. (m - 1) + 1 = m
    BY <1>3
  <1> QED BY <1>3, <1>4, <1>5, <1>6

LEMMA JoinExists ==
    ASSUME NEW texts \in Seq(Seq(Char))
    PROVE  \E joined : Joins(joined, texts)
  <1> DEFINE n == Len(texts)
             Upto(f, m) == f = [k \in 1 .. m |->
                   IF k = 1 THEN texts[1] ELSE f[k - 1] \o <<Space>> \o texts[k]]
             Good == {m \in Nat : \E f : Upto(f, m)}
  <1>1. n \in Nat
    OBVIOUS
  <1>2. 0 \in Good
    <2>1. Upto([k \in 1 .. 0 |-> <<>>], 0)
      OBVIOUS
    <2> QED BY <2>1
  <1>3. ASSUME NEW m \in 0 .. n, m \in Good, m < n PROVE m + 1 \in Good
    <2>1. PICK f : Upto(f, m)
      BY <1>3
    <2> DEFINE next == IF m = 0 THEN texts[1] ELSE f[m] \o <<Space>> \o texts[m + 1]
               g == [k \in 1 .. m + 1 |-> IF k = m + 1 THEN next ELSE f[k]]
    <2>2. m \in Nat
      OBVIOUS
    <2>3. \A k \in 1 .. m : f[k] = IF k = 1 THEN texts[1] ELSE f[k - 1] \o <<Space>> \o texts[k]
      BY <2>1
    <2> HIDE DEF Upto
    <2>4. ASSUME NEW k \in 1 .. m + 1
          PROVE  g[k] = IF k = 1 THEN texts[1] ELSE g[k - 1] \o <<Space>> \o texts[k]
      <3>1. CASE k = m + 1
        <4>1. CASE m = 0
          BY <3>1, <4>1
        <4>2. CASE m # 0
          <5>1. m \in 1 .. m + 1 /\ m # m + 1 /\ k # 1 /\ k - 1 = m
            BY <2>2, <3>1, <4>2
          <5>2. g[m] = f[m] /\ g[k] = next
            BY <3>1, <5>1
          <5> QED BY <3>1, <4>2, <5>1, <5>2
        <4> QED BY <4>1, <4>2
      <3>2. CASE k # m + 1
        <4>1. k \in 1 .. m /\ g[k] = f[k]
          BY <2>2, <3>2
        <4>2. CASE k = 1
          BY <2>3, <4>1, <4>2
        <4>3. CASE k # 1
          <5>1. k - 1 \in 1 .. m + 1 /\ k - 1 # m + 1
            BY <2>2, <4>1, <4>3
          <5>2. g[k - 1] = f[k - 1]
            BY <5>1
          <5> QED BY <2>3, <4>1, <4>3, <5>2
        <4> QED BY <4>2, <4>3
      <3> QED BY <3>1, <3>2
    <2>5. g = [k \in 1 .. m + 1 |-> g[k]]
      OBVIOUS
    <2> HIDE DEF g
    <2>6. g = [k \in 1 .. m + 1 |->
                 IF k = 1 THEN texts[1] ELSE g[k - 1] \o <<Space>> \o texts[k]]
      BY <2>4, <2>5
    <2>7. Upto(g, m + 1)
      BY <2>6 DEF Upto
    <2> QED BY <2>2, <2>7
  <1> HIDE DEF Good
  <1>4. \A m \in 0 .. n : m \in Good
    BY <1>1, <1>2, <1>3, Upwards
  <1>5. n \in Good
    BY <1>1, <1>4
  <1> QED BY <1>5 DEF Good, Joins

(* The joined texts are sequences, each a prefix of those after it. *)
LEMMA JoinedTyped ==
    ASSUME NEW texts \in Seq(Seq(Char)), NEW joined, Joins(joined, texts)
    PROVE  \A k \in 1 .. Len(texts) : joined[k] \in Seq(Char)
  <1> DEFINE n == Len(texts)
             Good == {k \in Nat : k \in 1 .. n => joined[k] \in Seq(Char)}
  <1>1. n \in Nat
    OBVIOUS
  <1>2. \A k \in 1 .. n :
          joined[k] = IF k = 1 THEN texts[1] ELSE joined[k - 1] \o <<Space>> \o texts[k]
    BY DEF Joins
  <1>3. \A k \in 1 .. n : texts[k] \in Seq(Char)
    OBVIOUS
  <1>4. 0 \in Good
    BY <1>1
  <1>5. ASSUME NEW m \in 0 .. n, m \in Good, m < n PROVE m + 1 \in Good
    <2>1. m + 1 \in 1 .. n /\ m + 1 \in Nat
      BY <1>1, <1>5
    <2>2. CASE m = 0
      BY <1>2, <1>3, <2>1, <2>2
    <2>3. CASE m # 0
      <3>1. joined[m] \in Seq(Char)
        BY <1>5, <2>3
      <3>2. joined[m + 1] = joined[m] \o <<Space>> \o texts[m + 1]
        <4>1. (m + 1) - 1 = m /\ m + 1 # 1
          BY <2>3
        <4> QED BY <1>2, <2>1, <4>1
      <3>3. texts[m + 1] \in Seq(Char) /\ <<Space>> \in Seq(Char)
        BY <1>3, <2>1, SpaceIsChar
      <3>4. joined[m] \o <<Space>> \o texts[m + 1] \in Seq(Char)
        BY <3>1, <3>3
      <3> QED BY <2>1, <3>2, <3>4
    <2> QED BY <2>2, <2>3
  <1>6. \A m \in 0 .. n : m \in Good
    <2> HIDE DEF Good
    <2> QED BY <1>1, <1>4, <1>5, Upwards
  <1> QED BY <1>1, <1>6


-----------------------------------------------------------------------------
(* Texts that begin others, and a text joined to what comes before it.     *)
Begins(s, t) == Len(s) <= Len(t) /\ \A i \in 1 .. Len(s) : t[i] = s[i]

Follows(before, text, after) ==
    /\ Len(after) = Len(before) + 1 + Len(text)
    /\ after[Len(before) + 1] = Space
    /\ \A j \in 1 .. Len(text) : after[Len(before) + 1 + j] = text[j]

LEMMA JoinTwo ==
    ASSUME NEW before \in Seq(Char), NEW text \in Seq(Char)
    PROVE  /\ Begins(before, before \o <<Space>> \o text)
           /\ Follows(before, text, before \o <<Space>> \o text)
  <1> DEFINE spaced == before \o <<Space>>
  <1>1. <<Space>> \in Seq(Char)
    BY SpaceIsChar
  <1>2. /\ spaced \in Seq(Char) /\ Len(spaced) = Len(before) + 1 /\ Len(before) \in Nat
        /\ spaced[Len(before) + 1] = Space
        /\ \A i \in 1 .. Len(before) : spaced[i] = before[i]
    BY <1>1
  <1> HIDE DEF spaced
  <1>3. /\ Len(spaced \o text) = Len(spaced) + Len(text) /\ Len(text) \in Nat
        /\ \A i \in 1 .. Len(spaced) : (spaced \o text)[i] = spaced[i]
        /\ \A j \in 1 .. Len(text) : (spaced \o text)[Len(spaced) + j] = text[j]
    BY <1>2, SMTT(30)
  <1> DEFINE whole == spaced \o text
  <1> HIDE DEF whole
  <1>4. /\ Len(whole) = Len(before) + 1 + Len(text)
        /\ Len(before) <= Len(whole)
        /\ \A j \in 1 .. Len(text) : whole[Len(before) + 1 + j] = text[j]
    BY <1>2, <1>3 DEF whole
  <1>5. Len(before) + 1 \in 1 .. Len(spaced)
        /\ \A i \in 1 .. Len(before) : i \in 1 .. Len(spaced)
    BY <1>2
  <1>6. whole[Len(before) + 1] = Space /\ \A i \in 1 .. Len(before) : whole[i] = before[i]
    BY <1>2, <1>3, <1>5 DEF whole
  <1> QED BY <1>4, <1>6 DEF Begins, Follows, whole, spaced

LEMMA BeginsOnward ==
    ASSUME NEW s \in Seq(Char), NEW t \in Seq(Char), NEW u \in Seq(Char),
           Begins(s, t), Begins(t, u)
    PROVE  Begins(s, u)
  <1>1. Len(s) \in Nat /\ Len(t) \in Nat /\ Len(u) \in Nat
    OBVIOUS
  <1>2. Len(s) <= Len(u)
    BY <1>1 DEF Begins
  <1>3. ASSUME NEW i \in 1 .. Len(s) PROVE u[i] = s[i]
    <2>1. i \in 1 .. Len(t)
      BY <1>1 DEF Begins
    <2> QED BY <2>1 DEF Begins
  <1> QED BY <1>2, <1>3 DEF Begins

LEMMA JoinStep ==
    ASSUME NEW texts \in Seq(Seq(Char)), NEW joined, Joins(joined, texts),
           NEW l \in 1 .. Len(texts), NEW k \in 1 .. Len(texts), k = l + 1
    PROVE  Begins(joined[l], joined[k]) /\ Follows(joined[l], texts[k], joined[k])
  <1>1. k - 1 = l /\ k # 1
    OBVIOUS
  <1>2. joined[k] = joined[l] \o <<Space>> \o texts[k]
    BY <1>1 DEF Joins
  <1>3. joined[l] \in Seq(Char) /\ texts[k] \in Seq(Char)
    BY JoinedTyped
  <1> QED BY <1>2, <1>3, JoinTwo

(* Each joined text begins the later ones. *)
LEMMA JoinPrefix ==
    ASSUME NEW texts \in Seq(Seq(Char)), NEW joined, Joins(joined, texts),
           NEW k \in 1 .. Len(texts)
    PROVE  \A m \in k .. Len(texts) : Begins(joined[k], joined[m])
  <1> DEFINE n == Len(texts)
             Good == {m \in Nat : m \in k .. n => Begins(joined[k], joined[m])}
  <1>1. n \in Nat /\ k \in Nat /\ \A m \in 1 .. n : joined[m] \in Seq(Char)
    BY JoinedTyped
  <1>2. 0 \in Good
    BY <1>1
  <1>3. ASSUME NEW m \in 0 .. n, m \in Good, m < n PROVE m + 1 \in Good
    <2> SUFFICES ASSUME m + 1 \in k .. n PROVE Begins(joined[k], joined[m + 1])
      BY <1>1
    <2>1. CASE m + 1 = k
      <3>1. Len(joined[k]) \in Nat
        BY <1>1
      <3> QED BY <2>1, <3>1 DEF Begins
    <2>2. CASE m + 1 # k
      <3>1. m \in k .. n /\ m + 1 \in 1 .. n /\ m \in 1 .. n
        BY <1>1, <2>2
      <3>2. Begins(joined[k], joined[m])
        BY <1>3, <3>1
      <3>3. Begins(joined[m], joined[m + 1])
        BY <3>1, JoinStep
      <3> QED BY <1>1, <3>1, <3>2, <3>3, BeginsOnward
    <2> QED BY <2>1, <2>2
  <1> HIDE DEF Good
  <1>4. \A m \in 0 .. n : m \in Good
    BY <1>1, <1>2, <1>3, Upwards
  <1>5. ASSUME NEW m \in k .. n PROVE Begins(joined[k], joined[m])
    <2>1. m \in Good
      BY <1>1, <1>4
    <2> QED BY <2>1 DEF Good
  <1> QED BY <1>5


-----------------------------------------------------------------------------
(* Where the scenes are in the script. *)
LEMMA JoinedJoins ==
    ASSUME narrations \in Seq(Seq(Char))
    PROVE  Joins(Joined, narrations) /\ Script = Joined[Len(narrations)]
  <1>1. \E joined : Joins(joined, narrations)
    BY JoinExists
  <1>2. Joins(Joined, narrations)
    BY <1>1, Zenon DEF Joined
  <1>3. Script = Joined[Len(narrations)]
    BY DEF Script, Joined, Joins
  <1> QED BY <1>2, <1>3

Narrated == narrations \in Seq(Seq(Char)) /\ narrations # <<>>

LEMMA Ends ==
    ASSUME Narrated
    PROVE  /\ Script \in Seq(Char) /\ Len(narrations) \in Nat \ {0}
           /\ EndOf(0) = 0 /\ Len(Script) = EndOf(Len(narrations))
           /\ \A k \in 0 .. Len(narrations) : EndOf(k) \in Nat
           /\ \A k, m \in 0 .. Len(narrations) : k <= m => EndOf(k) <= EndOf(m)
  <1> DEFINE n == Len(narrations)
  <1>1. Joins(Joined, narrations) /\ Script = Joined[n]
    BY JoinedJoins DEF Narrated
  <1>2. n \in Nat \ {0} /\ narrations \in Seq(Seq(Char))
    BY DEF Narrated
  <1>3. \A k \in 1 .. n : Joined[k] \in Seq(Char)
    BY <1>1, <1>2, JoinedTyped
  <1>4. EndOf(0) = 0 /\ \A k \in 1 .. n : EndOf(k) = Len(Joined[k]) /\ EndOf(k) \in Nat
    BY <1>2, <1>3 DEF EndOf
  <1>5. ASSUME NEW k \in 0 .. n, NEW m \in 0 .. n, k <= m PROVE EndOf(k) <= EndOf(m)
    <2>1. CASE k = 0
      BY <1>4, <2>1
    <2>2. CASE k # 0
      <3>1. k \in 1 .. n /\ m \in 1 .. n /\ m \in k .. n
        BY <1>2, <1>5, <2>2
      <3>2. Begins(Joined[k], Joined[m])
        BY <1>1, <1>2, <3>1, JoinPrefix
      <3> QED BY <1>4, <3>1, <3>2 DEF Begins
    <2> QED BY <2>1, <2>2
  <1>6. Script \in Seq(Char) /\ Len(Script) = EndOf(n)
    BY <1>1, <1>2, <1>3, <1>4
  <1> QED BY <1>2, <1>4, <1>5, <1>6

LEMMA ScriptOf ==
    ASSUME Narrated, NEW k \in 1 .. Len(narrations), NEW i \in 1 .. EndOf(k)
    PROVE  Script[i] = Joined[k][i]
  <1>1. Joins(Joined, narrations) /\ Script = Joined[Len(narrations)]
    BY JoinedJoins DEF Narrated
  <1>2. Len(narrations) \in k .. Len(narrations) /\ narrations \in Seq(Seq(Char)) /\ k # 0
    BY DEF Narrated
  <1>3. Begins(Joined[k], Joined[Len(narrations)])
    BY <1>1, <1>2, JoinPrefix
  <1> QED BY <1>1, <1>2, <1>3 DEF Begins, EndOf

(* A scene's text is in the script after its beginning, and a space comes  *)
(* between two scenes.                                                     *)
LEMMA SceneInScript ==
    ASSUME Narrated, NEW k \in 1 .. Len(narrations)
    PROVE  /\ narrations[k] \in Seq(Char)
           /\ BeginOf(k) \in Nat
           /\ EndOf(k) = BeginOf(k) + Len(narrations[k])
           /\ \A j \in 1 .. Len(narrations[k]) : Script[BeginOf(k) + j] = narrations[k][j]
           /\ k = 1 => BeginOf(k) = 0 /\ EndOf(k - 1) = 0
           /\ k # 1 => BeginOf(k) = EndOf(k - 1) + 1 /\ Script[BeginOf(k)] = Space
  <1> DEFINE n == Len(narrations)
  <1>1. Joins(Joined, narrations) /\ narrations \in Seq(Seq(Char)) /\ n \in Nat \ {0}
    BY JoinedJoins DEF Narrated
  <1>2. narrations[k] \in Seq(Char) /\ Len(narrations[k]) \in Nat
    BY <1>1
  <1>3. EndOf(k) = Len(Joined[k]) /\ EndOf(k) \in Nat /\ EndOf(0) = 0
    BY <1>1, Ends DEF EndOf
  <1>4. CASE k = 1
    <2>1. Joined[k] = narrations[k] /\ BeginOf(k) = 0
      BY <1>1, <1>4 DEF Joins, BeginOf
    <2>2. \A j \in 1 .. Len(narrations[k]) : Script[j] = narrations[k][j]
      BY <1>3, <2>1, ScriptOf
    <2> QED BY <1>2, <1>3, <1>4, <2>1, <2>2
  <1>5. CASE k # 1
    <2>1. PICK l \in 1 .. n : k = l + 1
      BY <1>1, <1>5
    <2>2. k - 1 = l /\ EndOf(l) = Len(Joined[l]) /\ EndOf(l) \in Nat
      <3>1. k - 1 = l /\ l # 0 /\ l \in 0 .. n
        BY <2>1
      <3> QED BY <1>1, <3>1, Ends DEF EndOf
    <2>3. BeginOf(k) = EndOf(l) + 1
      BY <1>5, <2>2 DEF BeginOf
    <2>4. Follows(Joined[l], narrations[k], Joined[k])
      BY <1>1, <2>1, JoinStep
    <2>5. EndOf(k) = BeginOf(k) + Len(narrations[k])
      BY <1>3, <2>2, <2>3, <2>4 DEF Follows
    <2>6. /\ Joined[k][BeginOf(k)] = Space
          /\ \A j \in 1 .. Len(narrations[k]) : Joined[k][BeginOf(k) + j] = narrations[k][j]
      BY <2>2, <2>3, <2>4 DEF Follows
    <2>7. BeginOf(k) \in Nat /\ BeginOf(k) \in 1 .. EndOf(k)
      <3>1. BeginOf(k) \in Nat \ {0}
        BY <2>2, <2>3
      <3> QED BY <1>2, <2>5, <3>1
    <2>8. ASSUME NEW j \in 1 .. Len(narrations[k])
          PROVE  Script[BeginOf(k) + j] = narrations[k][j]
      <3>1. BeginOf(k) + j \in 1 .. EndOf(k)
        BY <1>2, <2>5, <2>7
      <3>2. Script[BeginOf(k) + j] = Joined[k][BeginOf(k) + j]
        BY <3>1, ScriptOf
      <3> QED BY <2>6, <3>2
    <2>9. Script[BeginOf(k)] = Space
      BY <2>6, <2>7, ScriptOf
    <2>10. BeginOf(k) = EndOf(k - 1) + 1
      BY <1>5 DEF BeginOf
    <2> QED BY <1>2, <1>5, <2>5, <2>7, <2>8, <2>9, <2>10
  <1> QED BY <1>4, <1>5


(* SceneOf answers the scene whose stretch of the script it is asked about. *)
LEMMA SceneIs ==
    ASSUME Narrated, NEW k \in 1 .. Len(narrations), NEW i \in Nat,
           EndOf(k - 1) < i, i <= EndOf(k)
    PROVE  SceneOf(i) = k
  <1> DEFINE n == Len(narrations)
             Adds(f) == f = [m \in 1 .. n |->
                               Len(narrations[m]) + IF m = 1 THEN 0 ELSE f[m - 1] + 1]
             ends == CHOOSE f : Adds(f)
             g == [m \in 1 .. n |-> EndOf(m)]
             Good == {m \in Nat : m \in 1 .. n => ends[m] = EndOf(m)}
  <1>1. /\ n \in Nat \ {0} /\ EndOf(0) = 0 /\ \A m \in 0 .. n : EndOf(m) \in Nat
        /\ \A l, m \in 0 .. n : l <= m => EndOf(l) <= EndOf(m)
    BY Ends
  <1>2. \A m \in 1 .. n : EndOf(m) = Len(narrations[m]) + IF m = 1 THEN 0 ELSE EndOf(m - 1) + 1
    <2> SUFFICES ASSUME NEW m \in 1 .. n
                 PROVE  EndOf(m) = Len(narrations[m]) + IF m = 1 THEN 0 ELSE EndOf(m - 1) + 1
      OBVIOUS
    <2>1. EndOf(m) = BeginOf(m) + Len(narrations[m]) /\ Len(narrations[m]) \in Nat
      BY SceneInScript
    <2>2. m - 1 \in 0 .. n
      BY <1>1
    <2>3. EndOf(m - 1) \in Nat
      BY <1>1, <2>2
    <2> QED BY <2>1, <2>3 DEF BeginOf
  <1>3. \A m \in 1 .. n : m # 1 => m - 1 \in 1 .. n
    BY <1>1
  <1>4. g = [m \in 1 .. n |-> Len(narrations[m]) + IF m = 1 THEN 0 ELSE g[m - 1] + 1]
    <2>1. \A m \in 1 .. n : g[m] = EndOf(m)
      OBVIOUS
    <2>2. \A m \in 1 .. n : g[m] = Len(narrations[m]) + IF m = 1 THEN 0 ELSE g[m - 1] + 1
      BY <1>2, <1>3, <2>1
    <2>3. g = [m \in 1 .. n |-> g[m]]
      OBVIOUS
    <2> HIDE DEF g
    <2> QED BY <2>2, <2>3
  <1> HIDE DEF g
  <1>5. Adds(ends)
    <2>1. \E f : Adds(f)
      BY <1>4
    <2> HIDE DEF Adds
    <2> QED BY <2>1, Zenon
  <1>6. SceneOf(i) = CHOOSE m \in 1 .. n : i <= ends[m] /\ (m > 1 => i > ends[m - 1])
    BY DEF SceneOf
  <1>7. \A m \in 1 .. n : ends[m] = Len(narrations[m]) + IF m = 1 THEN 0 ELSE ends[m - 1] + 1
    <2> HIDE DEF ends
    <2> QED BY <1>5
  <1> HIDE DEF ends
  <1>8. \A m \in 1 .. n : ends[m] = EndOf(m)
    <2>1. 0 \in Good
      BY <1>1
    <2>2. ASSUME NEW m \in 0 .. n, m \in Good, m < n PROVE m + 1 \in Good
      <3>1. m + 1 \in 1 .. n /\ (m + 1) - 1 = m
        BY <1>1, <2>2
      <3>2. CASE m = 0
        BY <1>2, <1>7, <3>1, <3>2
      <3>3. CASE m # 0
        <4>1. m + 1 # 1 /\ ends[m] = EndOf(m)
          BY <2>2, <3>3
        <4> QED BY <1>2, <1>7, <3>1, <4>1
      <3> QED BY <3>2, <3>3
    <2> HIDE DEF Good
    <2>3. \A m \in 0 .. n : m \in Good
      BY <1>1, <2>1, <2>2, Upwards
    <2>4. ASSUME NEW m \in 1 .. n PROVE ends[m] = EndOf(m)
      <3>1. m \in Good
        BY <1>1, <2>3
      <3> QED BY <3>1 DEF Good
    <2> QED BY <2>4
  <1>9. i <= ends[k] /\ (k > 1 => i > ends[k - 1])
    BY <1>1, <1>3, <1>8
  <1>10. ASSUME NEW m \in 1 .. n, i <= ends[m], m > 1 => i > ends[m - 1] PROVE m = k
    <2>1. /\ k - 1 \in 0 .. n /\ m - 1 \in 0 .. n /\ k \in 0 .. n /\ m \in 0 .. n
          /\ ends[m] = EndOf(m)
      BY <1>1, <1>8
    <2>2. ASSUME m < k PROVE FALSE
      <3>1. EndOf(m) <= EndOf(k - 1)
        BY <1>1, <2>1, <2>2
      <3>2. EndOf(m) \in Nat /\ EndOf(k - 1) \in Nat
        BY <1>1, <2>1
      <3> QED BY <1>10, <2>1, <3>1, <3>2
    <2>3. ASSUME k < m PROVE FALSE
      <3>1. m # 1 /\ m > 1 /\ EndOf(k) <= EndOf(m - 1)
        BY <1>1, <2>1, <2>3
      <3>2. EndOf(k) \in Nat /\ EndOf(m - 1) \in Nat /\ i > EndOf(m - 1)
        BY <1>1, <1>3, <1>8, <1>10, <2>1, <3>1
      <3> QED BY <3>1, <3>2
    <2> QED BY <2>2, <2>3
  <1> QED BY <1>6, <1>9, <1>10


-----------------------------------------------------------------------------
(* Sound words. *)
LEMMA WordIsThere ==
    ASSUME NEW word, NEW h \in Nat, Sound(word, h)
    PROVE  /\ word.offset \in Nat /\ Len(word.text) \in Nat \ {0}
           /\ word.text \in Seq(Char) /\ word.offset + Len(word.text) <= h
           /\ \A j \in 1 .. Len(word.text) :
                word.text[j] = Script[word.offset + j] /\ word.text[j] # Space
  <1>1. word.text \in Seq(Char) /\ word.text # <<>>
    BY DEF Sound
  <1>2. Len(word.text) \in Nat \ {0}
    BY <1>1
  <1> QED BY <1>2 DEF Sound

LEMMA WithinIsText ==
    ASSUME NEW word, NEW h \in Nat, Sound(word, h), NEW i, Within(i, word)
    PROVE  i \in 1 .. h /\ word.offset < i /\ Script[i] # Space
  <1>1. /\ word.offset \in Nat /\ Len(word.text) \in Nat \ {0}
        /\ word.offset + Len(word.text) <= h
        /\ \A j \in 1 .. Len(word.text) :
             word.text[j] = Script[word.offset + j] /\ word.text[j] # Space
    BY WordIsThere
  <1>2. i \in word.offset + 1 .. word.offset + Len(word.text)
    BY DEF Within
  <1>3. i \in 1 .. h /\ word.offset < i /\ i - word.offset \in 1 .. Len(word.text)
        /\ word.offset + (i - word.offset) = i
    BY <1>1, <1>2
  <1> QED BY <1>1, <1>3

LEMMA OffsetsAscend ==
    ASSUME NEW ws, NEW h \in Nat, Hears(ws, h)
    PROVE  /\ \A m \in 1 .. Len(ws) : ws[m].offset \in Nat /\ ws[m].offset < h
           /\ \A m, l \in 1 .. Len(ws) : m < l => ws[m].offset < ws[l].offset
  <1>1. \A m \in 1 .. Len(ws) : Sound(ws[m], h)
    BY DEF Hears
  <1>2. ASSUME NEW m \in 1 .. Len(ws)
        PROVE  /\ ws[m].offset \in Nat /\ Len(ws[m].text) \in Nat \ {0}
               /\ ws[m].offset + Len(ws[m].text) <= h
    BY <1>1, WordIsThere
  <1>3. ASSUME NEW m \in 1 .. Len(ws) PROVE ws[m].offset \in Nat /\ ws[m].offset < h
    BY <1>2
  <1>4. ASSUME NEW m \in 1 .. Len(ws), NEW l \in 1 .. Len(ws), m < l
        PROVE  ws[m].offset < ws[l].offset
    <2>1. ws[m].offset + Len(ws[m].text) <= ws[l].offset
      BY <1>4 DEF Hears
    <2> QED BY <1>2, <2>1
  <1> QED BY <1>3, <1>4

(* A word that begins in a scene's stretch lies in that scene's text. *)
LEMMA WordInScene ==
    ASSUME Narrated, NEW word, NEW h \in Nat, Sound(word, h), h <= Len(Script),
           NEW k \in 1 .. Len(narrations), EndOf(k - 1) <= word.offset, word.offset < EndOf(k)
    PROVE  /\ BeginOf(k) <= word.offset
           /\ \A i : Within(i, word) => SceneOf(i) = k
  <1> DEFINE n == Len(narrations)
  <1>1. /\ n \in Nat \ {0} /\ Len(Script) = EndOf(n) /\ EndOf(k) \in Nat /\ EndOf(k - 1) \in Nat
        /\ EndOf(n) \in Nat
    <2>1. k \in 0 .. n /\ k - 1 \in 0 .. n /\ n \in 0 .. n
      BY Ends
    <2> QED BY <2>1, Ends
  <1>2. /\ word.offset \in Nat /\ Len(word.text) \in Nat \ {0}
        /\ word.offset + Len(word.text) <= h
        /\ \A j \in 1 .. Len(word.text) :
             word.text[j] = Script[word.offset + j] /\ word.text[j] # Space
    BY WordIsThere
  <1>3. BeginOf(k) <= word.offset
    <2>1. CASE k = 1
      BY <1>2, <2>1, SceneInScript
    <2>2. CASE k # 1
      <3>1. BeginOf(k) = EndOf(k - 1) + 1 /\ Script[BeginOf(k)] = Space
        BY <2>2, SceneInScript
      <3>2. 1 \in 1 .. Len(word.text)
        BY <1>2
      <3>3. Script[word.offset + 1] # Space
        BY <1>2, <3>2
      <3>4. word.offset # EndOf(k - 1)
        BY <3>1, <3>3
      <3> QED BY <1>1, <1>2, <3>1, <3>4
    <2> QED BY <2>1, <2>2
  <1>4. ASSUME NEW i, Within(i, word) PROVE SceneOf(i) = k
    <2>1. i \in 1 .. h /\ word.offset < i /\ i <= word.offset + Len(word.text)
      BY <1>2, <1>4, WithinIsText DEF Within
    <2>2. i <= EndOf(k)
      <3> SUFFICES ASSUME EndOf(k) < i PROVE FALSE
        BY <1>1, <2>1
      <3>1. EndOf(k) < EndOf(n)
        BY <1>1, <2>1
      <3>2. k # n
        BY <1>1, <3>1
      <3>3. k + 1 \in 1 .. n /\ k + 1 # 1 /\ (k + 1) - 1 = k
        BY <1>1, <3>2
      <3>4. Script[EndOf(k) + 1] = Space
        BY <3>3, SceneInScript
      <3>5. Within(EndOf(k) + 1, word)
        BY <1>1, <1>2, <2>1 DEF Within
      <3> QED BY <3>4, <3>5, WithinIsText
    <2> QED BY <1>1, <1>2, <2>1, <2>2, SceneIs
  <1> QED BY <1>3, <1>4

(* A set of positions without gaps at its lower end. *)
LEMMA InitialSegment ==
    ASSUME NEW a \in Nat, NEW b \in Nat, a <= b, NEW S, S \subseteq a + 1 .. b,
           \A x \in S : \A y \in a + 1 .. b : y < x => y \in S
    PROVE  \E q \in a .. b : S = a + 1 .. q /\ IsFiniteSet(S) /\ Cardinality(S) = q - a
  <1> DEFINE Out == (a + 1 .. b + 1) \ S
  <1>1. b + 1 \in Out /\ Out \subseteq Nat
    OBVIOUS
  <1> HIDE DEF Out
  <1>2. PICK r \in Out : \A o \in Out : r <= o
    BY <1>1, LeastPosition
  <1>3. r \in a + 1 .. b + 1 /\ r \notin S
    BY DEF Out
  <1>4. S = a + 1 .. r - 1
    <2>1. ASSUME NEW x \in S PROVE x \in a + 1 .. r - 1
      <3>1. x \in a + 1 .. b /\ x # r
        BY <1>3
      <3>2. ~(r < x)
        BY <1>3, <3>1
      <3> QED BY <1>3, <3>1, <3>2
    <2>2. ASSUME NEW x \in a + 1 .. r - 1 PROVE x \in S
      <3>1. x \in a + 1 .. b + 1 /\ ~(r <= x)
        BY <1>3
      <3> QED BY <1>2, <3>1 DEF Out
    <2> QED BY <2>1, <2>2
  <1>5. r - 1 \in a .. b
    BY <1>3
  <1>6. IsFiniteSet(a + 1 .. r - 1) /\ Cardinality(a + 1 .. r - 1) = (r - 1) - a
    BY <1>5, FS_Interval
  <1> QED BY <1>4, <1>5, <1>6


-----------------------------------------------------------------------------
(* A scene claims, by counting, exactly the words that begin in its text.  *)

StartsOf(text) ==
    {i \in 1 .. Len(text) : text[i] # Space /\ (i = 1 \/ text[i - 1] = Space)}

LEMMA StartsAreCounted ==
    ASSUME NEW text \in Seq(Char)
    PROVE  IsFiniteSet(StartsOf(text)) /\ WordCount(text) = Cardinality(StartsOf(text))
  <1>1. IsFiniteSet(1 .. Len(text))
    BY FS_Interval
  <1>2. StartsOf(text) \in SUBSET (1 .. Len(text))
    BY DEF StartsOf
  <1> QED BY <1>1, <1>2, FS_Subset DEF WordCount, StartsOf

(* A word of the scene is one of its text's starts. *)
LEMMA WordStarts ==
    ASSUME Narrated, NEW word, NEW h \in Nat, Sound(word, h), h <= Len(Script),
           NEW k \in 1 .. Len(narrations), BeginOf(k) <= word.offset, word.offset < EndOf(k)
    PROVE  word.offset + 1 - BeginOf(k) \in StartsOf(narrations[k])
  <1> DEFINE text == narrations[k]
             s == word.offset + 1 - BeginOf(k)
  <1>1. /\ BeginOf(k) \in Nat /\ Len(text) \in Nat /\ EndOf(k) = BeginOf(k) + Len(text)
        /\ \A j \in 1 .. Len(text) : Script[BeginOf(k) + j] = text[j]
        /\ k # 1 => Script[BeginOf(k)] = Space
        /\ k = 1 => BeginOf(k) = 0
    BY SceneInScript
  <1>2. /\ word.offset \in Nat /\ Len(word.text) \in Nat \ {0}
        /\ \A j \in 1 .. Len(word.text) :
             word.text[j] = Script[word.offset + j] /\ word.text[j] # Space
        /\ word.offset = 0 \/ Script[word.offset] = Space
    BY WordIsThere DEF Sound
  <1> HIDE DEF text
  <1>3. s \in 1 .. Len(text) /\ BeginOf(k) + s = word.offset + 1
    BY <1>1, <1>2
  <1>4. text[s] # Space
    <2>1. 1 \in 1 .. Len(word.text)
      BY <1>2
    <2>2. Script[word.offset + 1] # Space
      BY <1>2, <2>1
    <2>3. text[s] = Script[BeginOf(k) + s]
      BY <1>1, <1>3
    <2> QED BY <1>3, <2>2, <2>3
  <1>5. s = 1 \/ text[s - 1] = Space
    <2> SUFFICES ASSUME s # 1 PROVE text[s - 1] = Space
      OBVIOUS
    <2>1. s - 1 \in 1 .. Len(text) /\ BeginOf(k) + (s - 1) = word.offset /\ word.offset # 0
      <3>1. BeginOf(k) \in Nat /\ Len(text) \in Nat /\ word.offset \in Nat
        BY <1>1, <1>2
      <3> HIDE DEF s
      <3> QED BY <1>3, <3>1, SMTT(30)
    <2>2. text[s - 1] = Script[BeginOf(k) + (s - 1)]
      BY <1>1, <2>1
    <2> QED BY <1>2, <2>1, <2>2
  <1> QED BY <1>3, <1>4, <1>5 DEF StartsOf, text

LEMMA NeitherBelow ==
    ASSUME NEW a \in Nat, NEW b \in Nat, a + 1 <= b, ~(a + 1 < b)
    PROVE  a + 1 = b
  OBVIOUS

(* A start that was heard is where a word begins. *)
LEMMA StartIsWord ==
    ASSUME Narrated, NEW ws, NEW h \in Nat, Hears(ws, h), h <= Len(Script),
           NEW k \in 1 .. Len(narrations), NEW s \in StartsOf(narrations[k]),
           BeginOf(k) + s <= h
    PROVE  \E m \in 1 .. Len(ws) : ws[m].offset + 1 = BeginOf(k) + s
  <1> DEFINE text == narrations[k]
             i == BeginOf(k) + s
  <1>1. /\ BeginOf(k) \in Nat /\ Len(text) \in Nat
        /\ \A j \in 1 .. Len(text) : Script[BeginOf(k) + j] = text[j]
        /\ k # 1 => Script[BeginOf(k)] = Space
        /\ k = 1 => BeginOf(k) = 0
    BY SceneInScript
  <1>2. s \in 1 .. Len(text) /\ text[s] # Space /\ (s = 1 \/ text[s - 1] = Space)
    BY DEF StartsOf
  <1> HIDE DEF text
  <1>3. i \in 1 .. h /\ i \in Nat
    BY <1>1, <1>2
  <1>4. Script[i] # Space
    BY <1>1, <1>2
  <1>5. i = 1 \/ Script[i - 1] = Space
    <2>1. CASE s = 1
      <3>1. i - 1 = BeginOf(k)
        BY <1>1, <2>1
      <3> QED BY <1>1, <2>1, <3>1
    <2>2. CASE s # 1
      <3>1. s - 1 \in 1 .. Len(text) /\ BeginOf(k) + (s - 1) = i - 1
        <4>1. BeginOf(k) \in Nat /\ Len(text) \in Nat /\ s \in 1 .. Len(text)
          BY <1>1, <1>2
        <4> QED BY <2>2, <4>1
      <3>2. Script[BeginOf(k) + (s - 1)] = text[s - 1]
        BY <1>1, <3>1
      <3> QED BY <1>2, <2>2, <3>1, <3>2
    <2> QED BY <2>1, <2>2
  <1> HIDE DEF i
  <1>6. PICK m \in 1 .. Len(ws) : Within(i, ws[m])
    BY <1>3, <1>4 DEF Hears
  <1>7. Sound(ws[m], h)
    BY DEF Hears
  <1>8. ws[m].offset \in Nat /\ Len(ws[m].text) \in Nat
    BY <1>7, WordIsThere
  <1>9. ~(ws[m].offset + 1 < i)
    <2> SUFFICES ASSUME ws[m].offset + 1 < i PROVE FALSE
      OBVIOUS
    <2>1. Within(i - 1, ws[m])
      BY <1>3, <1>6, <1>8, SMTT(30) DEF Within
    <2>2. Script[i - 1] # Space
      BY <1>7, <2>1, WithinIsText
    <2> QED BY <1>3, <1>5, <1>8, <2>2
  <1>10. ws[m].offset + 1 = i
    <2>1. i \in Nat /\ ws[m].offset + 1 <= i
      BY <1>3, <1>6, <1>8 DEF Within
    <2> QED BY <1>8, <1>9, <2>1, NeitherBelow, Zenon
  <1> QED BY <1>10 DEF i

LEMMA Below ==
    ASSUME NEW a \in Nat, NEW b \in Nat, NEW c \in Nat, a < b, b <= c
    PROVE  a < c
  OBVIOUS

LEMMA Ascends ==
    ASSUME NEW a \in Nat, NEW b \in Nat, NEW c \in Nat, a < b, b < c
    PROVE  a < c
  OBVIOUS

LEMMA SameStart ==
    ASSUME NEW a \in Nat, NEW b \in Nat, NEW c \in Nat, a + 1 - c = b + 1 - c
    PROVE  a = b
  OBVIOUS

LEMMA StartFrom ==
    ASSUME NEW a \in Nat, NEW b \in Nat, NEW c \in Nat, a + 1 = c + b
    PROVE  a + 1 - c = b
  OBVIOUS

LEMMA ClaimsItsOwn ==
    ASSUME Narrated, NEW ws, Len(ws) \in Nat, NEW h \in Nat, Hears(ws, h), h <= Len(Script),
           NEW k \in 1 .. Len(narrations), NEW claimed \in 0 .. Len(ws),
           \A m \in 1 .. Len(ws) : m <= claimed <=> ws[m].offset < EndOf(k - 1),
           NEW share,
           share = LET wanted == WordCount(narrations[k])
                       left == Len(ws) - claimed
                   IN  IF wanted < left THEN wanted ELSE left
    PROVE  /\ share \in Nat /\ claimed + share \in 0 .. Len(ws)
           /\ \A m \in 1 .. Len(ws) : m <= claimed + share <=> ws[m].offset < EndOf(k)
  <1> DEFINE text == narrations[k]
             Mine == {m \in claimed + 1 .. Len(ws) : ws[m].offset < EndOf(k)}
             start == [m \in Mine |-> ws[m].offset + 1 - BeginOf(k)]
  <1>1. /\ EndOf(k) \in Nat /\ EndOf(k - 1) \in Nat /\ EndOf(k - 1) <= EndOf(k)
        /\ BeginOf(k) \in Nat /\ EndOf(k - 1) <= BeginOf(k) /\ text \in Seq(Char)
        /\ EndOf(k) = BeginOf(k) + Len(text)
    <2>1. k \in 0 .. Len(narrations) /\ k - 1 \in 0 .. Len(narrations) /\ k - 1 <= k
      BY Ends
    <2>2. EndOf(k) \in Nat /\ EndOf(k - 1) \in Nat /\ EndOf(k - 1) <= EndOf(k)
      BY <2>1, Ends
    <2>3. /\ BeginOf(k) \in Nat /\ text \in Seq(Char) /\ EndOf(k) = BeginOf(k) + Len(text)
          /\ k = 1 => BeginOf(k) = 0 /\ EndOf(k - 1) = 0
          /\ k # 1 => BeginOf(k) = EndOf(k - 1) + 1
      BY SceneInScript
    <2> QED BY <2>2, <2>3
  <1>2. /\ \A m \in 1 .. Len(ws) : Sound(ws[m], h) /\ ws[m].offset \in Nat /\ ws[m].offset < h
        /\ \A m, l \in 1 .. Len(ws) : m < l => ws[m].offset < ws[l].offset
    BY OffsetsAscend DEF Hears
  <1>3. claimed + 1 .. Len(ws) \subseteq 1 .. Len(ws) /\ claimed \in Nat /\ claimed <= Len(ws)
    OBVIOUS
  <1>4. Mine \subseteq claimed + 1 .. Len(ws)
    OBVIOUS
  <1>5. ASSUME NEW m \in Mine
        PROVE  /\ m \in 1 .. Len(ws) /\ EndOf(k - 1) <= ws[m].offset /\ ws[m].offset < EndOf(k)
               /\ BeginOf(k) <= ws[m].offset
    <2>1. m \in 1 .. Len(ws) /\ ~(m <= claimed) /\ ws[m].offset < EndOf(k)
      BY <1>3
    <2>2. ~(ws[m].offset < EndOf(k - 1))
      BY <2>1
    <2>3. EndOf(k - 1) <= ws[m].offset
      BY <1>1, <1>2, <2>1, <2>2, SMTT(30)
    <2> QED BY <1>2, <2>1, <2>3, WordInScene
  <1>6. ASSUME NEW x \in Mine, NEW y \in claimed + 1 .. Len(ws), y < x PROVE y \in Mine
    <2>1. x \in 1 .. Len(ws) /\ y \in 1 .. Len(ws) /\ ws[x].offset < EndOf(k)
      BY <1>3
    <2>2. ws[y].offset < ws[x].offset /\ ws[x].offset \in Nat /\ ws[y].offset \in Nat
      BY <1>2, <1>6, <2>1
    <2>3. EndOf(k) \in Nat
      BY <1>1
    <2>4. ws[y].offset < EndOf(k)
      BY <2>1, <2>2, <2>3, Ascends, Zenon
    <2> QED BY <2>4
  <1>7. PICK q \in claimed .. Len(ws) :
            Mine = claimed + 1 .. q /\ IsFiniteSet(Mine) /\ Cardinality(Mine) = q - claimed
    <2> HIDE DEF Mine
    <2> QED BY <1>3, <1>4, <1>6, InitialSegment
  <1>8. IsFiniteSet(StartsOf(text)) /\ WordCount(text) = Cardinality(StartsOf(text))
        /\ WordCount(text) \in Nat
    BY <1>1, StartsAreCounted, WordCountIsNatural
  <1>9. start \in Injection(Mine, StartsOf(text))
    <2>1. \A m \in Mine : start[m] \in StartsOf(text)
      BY <1>2, <1>5, WordStarts
    <2>2. \A m \in Mine : start[m] = ws[m].offset + 1 - BeginOf(k)
      OBVIOUS
    <2>3. ASSUME NEW x \in Mine, NEW y \in Mine, start[x] = start[y] PROVE x = y
      <3>1. x \in 1 .. Len(ws) /\ y \in 1 .. Len(ws)
        BY <1>5
      <3>2. ws[x].offset \in Nat /\ ws[y].offset \in Nat /\ BeginOf(k) \in Nat
        BY <1>1, <1>2, <3>1
      <3>3. ws[x].offset + 1 - BeginOf(k) = ws[y].offset + 1 - BeginOf(k)
        BY <2>2, <2>3
      <3>4. ws[x].offset = ws[y].offset
        BY <3>2, <3>3, SameStart, Zenon
      <3>5. ~(ws[x].offset < ws[y].offset) /\ ~(ws[y].offset < ws[x].offset)
        BY <3>2, <3>4
      <3>6. ~(x < y) /\ ~(y < x)
        BY <1>2, <3>1, <3>5
      <3> QED BY <3>1, <3>6
    <2>4. start \in [Mine -> StartsOf(text)]
      BY <2>1
    <2> HIDE DEF start
    <2> QED BY <2>3, <2>4 DEF Injection, IsInjective
  <1>10. /\ q - claimed <= WordCount(text)
         /\ start \in Surjection(Mine, StartsOf(text)) => q - claimed = WordCount(text)
    <2> HIDE DEF start, Mine
    <2> QED BY <1>7, <1>8, <1>9, FS_Injection
  <1>11. claimed + share = q
    <2>1. CASE q = Len(ws)
      BY <1>3, <1>7, <1>8, <1>10, <2>1
    <2>2. CASE q # Len(ws)
      <3>1. q + 1 \in claimed + 1 .. Len(ws) /\ q + 1 \notin Mine /\ q + 1 \in 1 .. Len(ws)
        BY <1>3, <1>7, <2>2
      <3>2. EndOf(k) <= ws[q + 1].offset /\ ws[q + 1].offset < h
        <4>1. ~(ws[q + 1].offset < EndOf(k))
          BY <3>1
        <4> QED BY <1>1, <1>2, <3>1, <4>1, SMTT(30)
      <3>3. ASSUME NEW s \in StartsOf(text) PROVE \E m \in Mine : start[m] = s
        <4>1. s \in 1 .. Len(text) /\ Len(text) \in Nat
          BY <1>1 DEF StartsOf
        <4>2. BeginOf(k) + s <= EndOf(k) /\ BeginOf(k) + s <= h
          <5>1. ws[q + 1].offset \in Nat
            BY <1>2, <3>1
          <5>2. EndOf(k) = BeginOf(k) + Len(text) /\ BeginOf(k) \in Nat
            BY <1>1
          <5> QED BY <3>2, <4>1, <5>1, <5>2, SMTT(30)
        <4>3. PICK m \in 1 .. Len(ws) : ws[m].offset + 1 = BeginOf(k) + s
          BY <4>2, StartIsWord
        <4>4. ws[m].offset \in Nat
          BY <1>2
        <4>5. ws[m].offset < EndOf(k) /\ ~(ws[m].offset < EndOf(k - 1))
          <5>1. /\ BeginOf(k) \in Nat /\ EndOf(k - 1) \in Nat /\ EndOf(k) \in Nat
                /\ EndOf(k - 1) <= BeginOf(k) /\ s \in Nat /\ 1 <= s
            BY <1>1, <4>1
          <5> QED BY <4>2, <4>3, <4>4, <5>1, SMTT(30)
        <4>6. m \in claimed + 1 .. Len(ws)
          BY <1>3, <4>5
        <4>7. m \in Mine
          BY <4>5, <4>6
        <4>8. start[m] = s
          <5>1. BeginOf(k) \in Nat /\ s \in Nat
            BY <1>1, <4>1
          <5>2. ws[m].offset + 1 - BeginOf(k) = s
            BY <4>3, <4>4, <5>1, StartFrom, Zenon
          <5> QED BY <4>7, <5>2
        <4> QED BY <4>7, <4>8
      <3>4. start \in Surjection(Mine, StartsOf(text))
        <4>1. start \in [Mine -> StartsOf(text)]
          BY <1>9 DEF Injection
        <4> HIDE DEF start, Mine
        <4> QED BY <3>3, <4>1 DEF Surjection
      <3>5. q - claimed = WordCount(text)
        BY <1>10, <3>4
      <3> QED BY <1>3, <1>7, <1>8, <3>5
    <2> QED BY <2>1, <2>2
  <1>12. ASSUME NEW m \in 1 .. Len(ws) PROVE m <= q <=> ws[m].offset < EndOf(k)
    <2>1. CASE m <= claimed
      <3>1. ws[m].offset < EndOf(k - 1)
        BY <2>1
      <3>2. ws[m].offset \in Nat
        BY <1>2
      <3>3. EndOf(k - 1) \in Nat /\ EndOf(k) \in Nat /\ EndOf(k - 1) <= EndOf(k)
        BY <1>1
      <3>5. ws[m].offset < EndOf(k)
        BY <3>1, <3>2, <3>3, Below, Zenon
      <3>4. q \in claimed .. Len(ws)
        BY <1>7
      <3> QED BY <1>3, <2>1, <3>4, <3>5
    <2>2. CASE ~(m <= claimed)
      <3>1. m \in claimed + 1 .. Len(ws)
        BY <1>3, <2>2
      <3>2. m \in Mine <=> ws[m].offset < EndOf(k)
        BY <3>1
      <3>3. m \in Mine <=> m <= q
        BY <1>7, <3>1, SMTT(30)
      <3> QED BY <3>2, <3>3
    <2> QED BY <2>1, <2>2
  <1>13. share \in Nat
    BY <1>3, <1>8
  <1> QED BY <1>7, <1>11, <1>12, <1>13, SMTT(30)


-----------------------------------------------------------------------------
(* The steps of the voice. First, what one more word says of the words.    *)
HearsLast(ws, last, h) ==
    /\ \A m \in 1 .. Len(ws) : Sound(ws[m], h)
    /\ \A m, l \in 1 .. Len(ws) :
         m < l => ws[m].offset + Len(ws[m].text) <= ws[l].offset
    /\ Sound(last, h)
    /\ \A m \in 1 .. Len(ws) : ws[m].offset + Len(ws[m].text) <= last.offset
    /\ \A i \in 1 .. h :
         Script[i] # Space => (\E m \in 1 .. Len(ws) : Within(i, ws[m])) \/ Within(i, last)

LEMMA HearsAppend ==
    ASSUME NEW ws \in Seq(Timing), NEW last \in Timing, NEW h \in Nat
    PROVE  Hears(Append(ws, last), h) <=> HearsLast(ws, last, h)
  <1> DEFINE all == Append(ws, last)
             n == Len(ws)
  <1>1. /\ n \in Nat /\ Len(all) = n + 1 /\ all[n + 1] = last
        /\ \A m \in 1 .. n : all[m] = ws[m]
    OBVIOUS
  <1>2. n + 1 \in 1 .. n + 1 /\ \A m \in 1 .. n : m \in 1 .. n + 1 /\ m < n + 1
    BY <1>1
  <1>3. \A m \in 1 .. n + 1 : m \in 1 .. n \/ m = n + 1
    BY <1>1
  <1>4. \A m, l \in 1 .. n + 1 : m < l => m \in 1 .. n
    BY <1>1
  <1> HIDE DEF n
  <1>5. PICK w : w = all
    OBVIOUS
  <1> HIDE DEF all
  <1>6. /\ Len(w) = n + 1 /\ w[n + 1] = last
        /\ \A m \in 1 .. n : w[m] = ws[m]
    BY <1>1, <1>5
  <1>7. (\A m \in 1 .. n + 1 : Sound(w[m], h))
          <=> (\A m \in 1 .. n : Sound(ws[m], h)) /\ Sound(last, h)
    BY <1>2, <1>3, <1>6, Zenon
  <1>8. (\A m, l \in 1 .. n + 1 :
           m < l => w[m].offset + Len(w[m].text) <= w[l].offset)
          <=> /\ \A m, l \in 1 .. n :
                   m < l => ws[m].offset + Len(ws[m].text) <= ws[l].offset
              /\ \A m \in 1 .. n : ws[m].offset + Len(ws[m].text) <= last.offset
    <2>1. ASSUME \A m, l \in 1 .. n + 1 :
                   m < l => w[m].offset + Len(w[m].text) <= w[l].offset
          PROVE  /\ \A m, l \in 1 .. n :
                      m < l => ws[m].offset + Len(ws[m].text) <= ws[l].offset
                 /\ \A m \in 1 .. n : ws[m].offset + Len(ws[m].text) <= last.offset
      <3>1. ASSUME NEW m \in 1 .. n, NEW l \in 1 .. n, m < l
            PROVE  ws[m].offset + Len(ws[m].text) <= ws[l].offset
        <4>1. w[m].offset + Len(w[m].text) <= w[l].offset
          BY <1>2, <2>1, <3>1, Zenon
        <4> QED BY <1>6, <4>1
      <3>2. ASSUME NEW m \in 1 .. n PROVE ws[m].offset + Len(ws[m].text) <= last.offset
        <4>1. w[m].offset + Len(w[m].text) <= w[n + 1].offset
          BY <1>2, <2>1, Zenon
        <4> QED BY <1>6, <4>1
      <3> QED BY <3>1, <3>2
    <2>2. ASSUME \A m, l \in 1 .. n :
                   m < l => ws[m].offset + Len(ws[m].text) <= ws[l].offset,
                 \A m \in 1 .. n : ws[m].offset + Len(ws[m].text) <= last.offset,
                 NEW m \in 1 .. n + 1, NEW l \in 1 .. n + 1, m < l
          PROVE  w[m].offset + Len(w[m].text) <= w[l].offset
      <3>1. m \in 1 .. n /\ w[m] = ws[m]
        BY <1>4, <1>6, <2>2
      <3>2. CASE l \in 1 .. n
        BY <1>6, <2>2, <3>1, <3>2
      <3>3. CASE l = n + 1
        BY <1>6, <2>2, <3>1, <3>3
      <3> QED BY <1>3, <3>2, <3>3
    <2> QED BY <2>1, <2>2
  <1>9. \A i : (\E m \in 1 .. n + 1 : Within(i, w[m]))
                 <=> (\E m \in 1 .. n : Within(i, ws[m])) \/ Within(i, last)
    BY <1>2, <1>3, <1>6, Zenon
  <1>10. Hears(w, h) <=> HearsLast(ws, last, h)
    BY <1>6, <1>7, <1>8, <1>9 DEF Hears, HearsLast, n
  <1> QED BY <1>5, <1>10 DEF all

(* Hearing white space, or nothing, keeps the words sound. *)
LEMMA HearsOn ==
    ASSUME NEW ws, NEW h \in Nat, Hears(ws, h), Script[h + 1] = Space
    PROVE  Hears(ws, h + 1)
  <1>1. ASSUME NEW m \in 1 .. Len(ws) PROVE Sound(ws[m], h + 1)
    <2>1. Sound(ws[m], h)
      BY DEF Hears
    <2>2. ws[m].offset \in Nat /\ Len(ws[m].text) \in Nat /\ ws[m].offset + Len(ws[m].text) <= h
      BY <2>1, WordIsThere
    <2>3. ws[m].offset + Len(ws[m].text) <= h + 1
      BY <2>2
    <2> QED BY <2>1, <2>3 DEF Sound
  <1>2. ASSUME NEW i \in 1 .. h + 1, Script[i] # Space
        PROVE  \E m \in 1 .. Len(ws) : Within(i, ws[m])
    <2>1. i \in 1 .. h
      BY <1>2
    <2> QED BY <1>2, <2>1 DEF Hears
  <1> QED BY <1>1, <1>2 DEF Hears

(* The words are judged by the script alone. *)
LEMMA HearsKept ==
    ASSUME Script' = Script, NEW ws, NEW h, WordsSoFar' = ws, heard' = h, Hears(ws, h)
    PROVE  Hears(WordsSoFar, heard)'
  BY DEF Hears, Sound, Within

LEMMA SameScript ==
    ASSUME narrations' = narrations
    PROVE  /\ Script' = Script
           /\ \A k : EndOf(k)' = EndOf(k)
  BY DEF Script, EndOf, Joined, Joins

LEMMA HeardTyped ==
    ASSUME HeardInv
    PROVE  /\ Narrated /\ heard \in Nat /\ words \in Seq(Timing) /\ Len(words) \in Nat
           /\ open \in [text : Seq(Char), start : Nat, offset : Nat]
           /\ reached \in Nat /\ Word \in Timing /\ spans \in Seq(Span) /\ Len(spans) \in Nat
           /\ cursor \in 0 .. Len(words) /\ Len(spans) <= Len(narrations)
           /\ Len(Script) \in Nat
  <1>1. TypeOK /\ VoicedFirst
    BY DEF HeardInv, Inv
  <1>2. /\ heard \in Nat /\ words \in Seq(Timing) /\ reached \in Nat /\ spans \in Seq(Span)
        /\ open \in [text : Seq(Char), start : Nat, offset : Nat]
        /\ cursor \in 0 .. Len(words)
    BY <1>1 DEF TypeOK, Span
  <1>3. Word \in Timing
    BY <1>2 DEF Word, Timing
  <1>4. Narrated
    BY <1>1, NarrationsTyped DEF Narrated
  <1>5. Len(Script) \in Nat
    BY <1>4, Ends
  <1>6. Len(spans) <= Len(narrations)
    BY <1>1 DEF VoicedFirst
  <1> QED BY <1>2, <1>3, <1>4, <1>5, <1>6


-----------------------------------------------------------------------------
LEMMA HearSpaceHeard ==
    ASSUME HeardInv, HearSpace
    PROVE  Listens' /\ stage' = "listening"
  <1>1. /\ Listens /\ heard \in Nat /\ Len(Script) \in Nat
    BY HeardTyped DEF HeardInv
  <1>2. /\ stage = "listening" /\ heard < Len(Script) /\ Script[heard + 1] = Space
        /\ heard' = heard + 1 /\ words' = WordsSoFar /\ open' = Nothing
        /\ stage' = stage /\ narrations' = narrations /\ spans' = spans /\ cursor' = cursor
    BY DEF HearSpace
  <1>3. Script' = Script
    BY <1>2, SameScript
  <1>4. Hears(WordsSoFar, heard + 1)
    BY <1>1, <1>2, HearsOn DEF Listens
  <1>5. open'.text = <<>>
    BY <1>2 DEF Nothing
  <1>6. WordsSoFar' = WordsSoFar
    BY <1>2, <1>5 DEF WordsSoFar
  <1>7. Hears(WordsSoFar, heard)'
    <2>1. PICK ws, h : ws = WordsSoFar /\ h = heard + 1
      OBVIOUS
    <2> QED BY <1>2, <1>3, <1>4, <1>6, <2>1, HearsKept
  <1>8. spans' = <<>> /\ cursor' = 0
    BY <1>1, <1>2 DEF Listens
  <1>9. heard' <= Len(Script')
    BY <1>1, <1>2, <1>3
  <1>10. Script'[heard'] = Space
    BY <1>2, <1>3
  <1> QED BY <1>2, <1>5, <1>7, <1>8, <1>9, <1>10 DEF Listens

(* What is heard of a word is the script's text. *)
LEMMA HearOpens ==
    ASSUME HeardInv, NEW char \in Char \ {Space}, NEW w \in Timing,
           stage = "listening", heard < Len(Script), Script[heard + 1] = char,
           open.text = <<>>, w.text = <<char>>, w.offset = heard
    PROVE  Hears(Append(words, w), heard + 1)
  <1>1. /\ heard \in Nat /\ words \in Seq(Timing) /\ Listens
    BY HeardTyped DEF HeardInv
  <1>2. /\ Hears(words, heard) /\ (heard = 0 \/ Script[heard] = Space)
    BY <1>1 DEF Listens, WordsSoFar
  <1>3. \A m \in 1 .. Len(words) : Sound(words[m], heard)
    BY <1>2 DEF Hears
  <1>4. ASSUME NEW m \in 1 .. Len(words)
        PROVE  Sound(words[m], heard + 1) /\ words[m].offset + Len(words[m].text) <= heard
    <2>1. /\ words[m].offset \in Nat /\ Len(words[m].text) \in Nat
          /\ words[m].offset + Len(words[m].text) <= heard
      BY <1>1, <1>3, WordIsThere
    <2>2. words[m].offset + Len(words[m].text) <= heard + 1
      BY <1>1, <2>1
    <2> QED BY <1>3, <2>1, <2>2 DEF Sound
  <1>5. Sound(w, heard + 1)
    <2>1. /\ w.text \in Seq(Char) /\ w.text # <<>> /\ Len(w.text) = 1 /\ w.text[1] = char
      OBVIOUS
    <2>2. w.offset + 1 = heard + 1 /\ w.offset \in Nat
      BY <1>1
    <2>3. ASSUME NEW j \in 1 .. Len(w.text)
          PROVE  w.text[j] = Script[w.offset + j] /\ w.text[j] # Space
      <3>1. j = 1
        BY <2>1
      <3> QED BY <2>1, <2>2, <3>1
    <2> QED BY <1>1, <1>2, <2>1, <2>2, <2>3 DEF Sound
  <1>6. Within(heard + 1, w)
    BY <1>1 DEF Within
  <1>7. ASSUME NEW i \in 1 .. heard + 1, Script[i] # Space
        PROVE  (\E m \in 1 .. Len(words) : Within(i, words[m])) \/ Within(i, w)
    <2>1. i \in 1 .. heard \/ i = heard + 1
      BY <1>1
    <2> QED BY <1>2, <1>6, <1>7, <2>1 DEF Hears
  <1>8. HearsLast(words, w, heard + 1)
    BY <1>2, <1>4, <1>5, <1>7 DEF HearsLast, Hears
  <1> QED BY <1>1, <1>8, HearsAppend

LEMMA HearJoins ==
    ASSUME HeardInv, NEW char \in Char \ {Space}, NEW w \in Timing,
           stage = "listening", heard < Len(Script), Script[heard + 1] = char,
           open.text # <<>>, w.text = Append(open.text, char), w.offset = open.offset
    PROVE  Hears(Append(words, w), heard + 1)
  <1>1. /\ heard \in Nat /\ words \in Seq(Timing) /\ Word \in Timing /\ Listens
        /\ open.text \in Seq(Char) /\ open.offset \in Nat
    BY HeardTyped DEF HeardInv
  <1>2. /\ Hears(Append(words, Word), heard) /\ open.offset + Len(open.text) = heard
    BY <1>1 DEF Listens, WordsSoFar
  <1>3. HearsLast(words, Word, heard) /\ Word.text = open.text /\ Word.offset = open.offset
    BY <1>1, <1>2, HearsAppend DEF Word
  <1>4. ASSUME NEW m \in 1 .. Len(words) PROVE Sound(words[m], heard + 1)
    <2>1. Sound(words[m], heard)
      BY <1>3 DEF HearsLast
    <2>2. /\ words[m].offset \in Nat /\ Len(words[m].text) \in Nat
          /\ words[m].offset + Len(words[m].text) <= heard
      BY <1>1, <2>1, WordIsThere
    <2>3. words[m].offset + Len(words[m].text) <= heard + 1
      BY <1>1, <2>2
    <2> QED BY <2>1, <2>3 DEF Sound
  <1>5. /\ Len(open.text) \in Nat /\ Len(w.text) = Len(open.text) + 1
        /\ w.text \in Seq(Char) /\ w.text # <<>>
        /\ w.text[Len(open.text) + 1] = char
        /\ \A j \in 1 .. Len(open.text) : w.text[j] = open.text[j]
    BY <1>1, SMTT(30)
  <1>6. /\ \A j \in 1 .. Len(open.text) :
             open.text[j] = Script[open.offset + j] /\ open.text[j] # Space
        /\ open.offset = 0 \/ Script[open.offset] = Space
    BY <1>3 DEF HearsLast, Sound
  <1>7. Sound(w, heard + 1)
    <2>1. w.offset + Len(w.text) = heard + 1 /\ w.offset \in Nat
      <3>1. Len(open.text) \in Nat /\ Len(w.text) = Len(open.text) + 1
        BY <1>5
      <3>2. open.offset + (Len(open.text) + 1) = heard + 1
        BY <1>1, <1>2, <3>1, SMTT(30)
      <3> QED BY <1>1, <3>1, <3>2, Zenon
    <2>2. ASSUME NEW j \in 1 .. Len(w.text)
          PROVE  w.text[j] = Script[w.offset + j] /\ w.text[j] # Space
      <3>1. CASE j \in 1 .. Len(open.text)
        BY <1>5, <1>6, <3>1
      <3>2. CASE j = Len(open.text) + 1
        <4>1. w.offset + j = heard + 1
          BY <1>5, <2>1, <3>2
        <4> QED BY <1>5, <3>2, <4>1
      <3> QED BY <1>5, <3>1, <3>2
    <2> QED BY <1>1, <1>5, <1>6, <2>1, <2>2 DEF Sound
  <1>8. ASSUME NEW i \in 1 .. heard + 1, Script[i] # Space
        PROVE  (\E m \in 1 .. Len(words) : Within(i, words[m])) \/ Within(i, w)
    <2>1. CASE i = heard + 1
      <3>1. Within(i, w)
        BY <1>1, <1>2, <1>5, <2>1 DEF Within
      <3> QED BY <3>1
    <2>2. CASE i # heard + 1
      <3>1. i \in 1 .. heard
        BY <1>1, <2>2
      <3>2. (\E m \in 1 .. Len(words) : Within(i, words[m])) \/ Within(i, Word)
        BY <1>3, <1>8, <3>1 DEF HearsLast
      <3>3. Within(i, Word) => Within(i, w)
        BY <1>1, <1>3, <1>5 DEF Within
      <3> QED BY <3>2, <3>3
    <2> QED BY <2>1, <2>2
  <1>9. HearsLast(words, w, heard + 1)
    <2>1. /\ \A m \in 1 .. Len(words) : words[m].offset + Len(words[m].text) <= w.offset
          /\ \A m, l \in 1 .. Len(words) :
               m < l => words[m].offset + Len(words[m].text) <= words[l].offset
      BY <1>3 DEF HearsLast
    <2> QED BY <1>4, <1>7, <1>8, <2>1 DEF HearsLast
  <1> QED BY <1>1, <1>9, HearsAppend

LEMMA HearHeard ==
    ASSUME HeardInv, Inv', NEW char \in Char \ {Space}, NEW pause \in Pauses,
           NEW length \in Lengths, Hear(char, pause, length)
    PROVE  Listens' /\ stage' = "listening"
  <1> DEFINE at == reached + pause
  <1>1. /\ Listens /\ heard \in Nat /\ Len(Script) \in Nat /\ open.text \in Seq(Char)
        /\ open \in [text : Seq(Char), start : Nat, offset : Nat]
    BY HeardTyped DEF HeardInv
  <1>2. /\ stage = "listening" /\ heard < Len(Script) /\ Script[heard + 1] = char
        /\ heard' = heard + 1 /\ words' = words
        /\ stage' = stage /\ narrations' = narrations /\ spans' = spans /\ cursor' = cursor
        /\ open' = IF open.text = <<>>
                     THEN [text |-> <<char>>, start |-> at, offset |-> heard]
                     ELSE [open EXCEPT !.text = Append(open.text, char)]
    BY DEF Hear
  <1> HIDE DEF at
  <1>3. Script' = Script
    BY <1>2, SameScript
  <1>4. /\ open'.text = IF open.text = <<>> THEN <<char>> ELSE Append(open.text, char)
        /\ open'.offset = IF open.text = <<>> THEN heard ELSE open.offset
    BY <1>1, <1>2
  <1>5. /\ open'.text # <<>> /\ open'.offset + Len(open'.text) = heard + 1
    <2>1. CASE open.text = <<>>
      BY <1>1, <1>4, <2>1
    <2>2. CASE open.text # <<>>
      <3>1. open.offset + Len(open.text) = heard /\ open.offset \in Nat /\ Len(open.text) \in Nat
        BY <1>1, <1>2, <2>2 DEF Listens
      <3>2. Len(open'.text) = Len(open.text) + 1 /\ open'.offset = open.offset
            /\ open'.text # <<>>
        BY <1>1, <1>4, <2>2
      <3> QED BY <3>1, <3>2
    <2> QED BY <2>1, <2>2
  <1>6. PICK w : w = Word'
    OBVIOUS
  <1>7. w.text = open'.text /\ w.offset = open'.offset
    BY <1>6 DEF Word
  <1>8. w \in Timing
    <2>1. open' \in [text : Seq(Char), start : Nat, offset : Nat] /\ reached' \in Nat
      BY DEF Inv, TypeOK
    <2> QED BY <1>6, <2>1 DEF Word, Timing
  <1>9. Hears(Append(words, w), heard + 1)
    <2>1. CASE open.text = <<>>
      BY <1>2, <1>4, <1>7, <1>8, <2>1, HearOpens
    <2>2. CASE open.text # <<>>
      BY <1>2, <1>4, <1>7, <1>8, <2>2, HearJoins
    <2> QED BY <2>1, <2>2
  <1>10. WordsSoFar' = Append(words, w)
    BY <1>2, <1>5, <1>6 DEF WordsSoFar
  <1>11. Hears(WordsSoFar, heard)'
    <2>1. PICK ws, h : ws = Append(words, w) /\ h = heard + 1
      OBVIOUS
    <2> QED BY <1>2, <1>3, <1>9, <1>10, <2>1, HearsKept
  <1>12. spans' = <<>> /\ cursor' = 0
    BY <1>1, <1>2 DEF Listens
  <1>13. heard' <= Len(Script')
    BY <1>1, <1>2, <1>3
  <1> QED BY <1>2, <1>5, <1>11, <1>12, <1>13 DEF Listens


LEMMA EndOfAnswerHeard ==
    ASSUME HeardInv, EndOfAnswer
    PROVE  Listens' /\ Claims'
  <1>1. /\ Listens /\ heard \in Nat /\ Len(Script) \in Nat /\ Narrated
    BY HeardTyped DEF HeardInv
  <1>2. /\ stage = "listening" /\ stage' = "assigning"
        /\ heard' = heard /\ words' = WordsSoFar /\ open' = Nothing
        /\ narrations' = narrations /\ spans' = spans /\ cursor' = cursor
    BY DEF EndOfAnswer
  <1>3. Script' = Script /\ \A k : EndOf(k)' = EndOf(k)
    BY <1>2, SameScript
  <1>4. Hears(WordsSoFar, heard) /\ heard <= Len(Script) /\ spans = <<>> /\ cursor = 0
    BY <1>1, <1>2 DEF Listens
  <1>5. open'.text = <<>>
    BY <1>2 DEF Nothing
  <1>6. WordsSoFar' = WordsSoFar
    BY <1>2, <1>5 DEF WordsSoFar
  <1>7. Hears(WordsSoFar, heard)'
    <2>1. PICK ws, h : ws = WordsSoFar /\ h = heard
      OBVIOUS
    <2> QED BY <1>2, <1>3, <1>4, <1>6, <2>1, HearsKept
  <1>8. Listens'
    BY <1>2, <1>3, <1>4, <1>5, <1>7 DEF Listens
  <1>9. PICK ws : ws = WordsSoFar
    OBVIOUS
  <1>10. \A m \in 1 .. Len(ws) : ws[m].offset \in Nat /\ 1 <= m
    BY <1>1, <1>4, <1>9, OffsetsAscend
  <1>11. words' = ws /\ spans' = <<>> /\ cursor' = 0 /\ Len(spans') = 0 /\ Scene' = {}
    BY <1>2, <1>4, <1>9 DEF Scene
  <1>12. EndOf(Len(spans))' = 0
    BY <1>11 DEF EndOf
  <1>13. \A m \in 1 .. Len(words') : m <= cursor' <=> words'[m].offset < EndOf(Len(spans))'
    <2>1. \A m \in 1 .. Len(ws) : ~(m <= 0) /\ ~(ws[m].offset < 0)
      BY <1>10
    <2> QED BY <1>11, <1>12, <2>1
  <1>14. 1 .. cursor' = {}
    BY <1>11
  <1>15. Claims'
    BY <1>11, <1>13, <1>14 DEF Claims, Counted, Placed, Ascending, NoneLeft
  <1> QED BY <1>8, <1>15

(* After the answer the words stay as they are. *)
LEMMA ListensOn ==
    ASSUME HeardInv, stage # "listening", stage' # "listening",
           UNCHANGED <<narrations, heard, words, open>>
    PROVE  Listens'
  <1>1. Listens
    BY DEF HeardInv
  <1>2. Script' = Script
    BY SameScript
  <1>3. open.text = <<>> /\ Hears(WordsSoFar, heard) /\ WordsSoFar = words
    BY <1>1 DEF Listens, WordsSoFar
  <1>4. WordsSoFar' = words
    BY <1>3 DEF WordsSoFar
  <1>5. Hears(WordsSoFar, heard)'
    <2>1. PICK ws, h : ws = words /\ h = heard
      OBVIOUS
    <2> QED BY <1>2, <1>3, <1>4, <2>1, HearsKept
  <1> QED BY <1>1, <1>2, <1>3, <1>5 DEF Listens

LEMMA StoredHeard ==
    ASSUME HeardInv, stage # "listening", stage' # "listening",
           UNCHANGED <<narrations, heard, words, open, spans, cursor>>
    PROVE  Listens' /\ Claims'
  <1>1. Claims
    BY DEF HeardInv
  <1>2. \A k : EndOf(k)' = EndOf(k)
    BY SameScript
  <1>3. Counted'
    BY <1>1, <1>2 DEF Claims, Counted
  <1>4. Placed'
    BY <1>1, <1>2 DEF Claims, Placed, Scene
  <1>5. Ascending' /\ NoneLeft'
    BY <1>1 DEF Claims, Ascending, NoneLeft, Scene
  <1> QED BY <1>3, <1>4, <1>5, ListensOn DEF Claims

(* What the next scene claims. *)
LEMMA ShareOfWords ==
    ASSUME TypeOK, Len(spans) < Len(narrations), NEW k, k = Len(spans) + 1
    PROVE  LET wanted == WordCount(narrations[k])
               left == Len(words) - cursor
               share == IF wanted < left THEN wanted ELSE left
           IN  /\ Len(Claimed) = share
               /\ \A j \in 1 .. share : Claimed[j] = words[cursor + j]
  <1> DEFINE wanted == WordCount(narrations[k])
             left == Len(words) - cursor
             share == IF wanted < left THEN wanted ELSE left
  <1>1. words \in Seq(Timing) /\ cursor \in 0 .. Len(words) /\ Len(words) \in Nat
        /\ Len(spans) \in Nat
    <2>1. words \in Seq(Timing) /\ cursor \in 0 .. Len(words)
      BY DEF TypeOK
    <2>2. spans \in Seq([start : Nat, end : Nat, words : Seq(Timing)])
      BY DEF TypeOK
    <2> QED BY <2>1, <2>2
  <1>2. wanted \in Nat
    <2>1. narrations \in Seq(Seq(Char)) /\ k \in 1 .. Len(narrations)
      BY <1>1, NarrationsTyped
    <2>2. narrations[k] \in Seq(Char)
      BY <2>1
    <2> QED BY <2>2, WordCountIsNatural
  <1>3. Claimed = SubSeq(words, cursor + 1, cursor + share)
    BY DEF Claimed
  <1> HIDE DEF wanted
  <1>4. share \in Nat /\ cursor + share \in 0 .. Len(words)
    BY <1>1, <1>2
  <1> HIDE DEF share
  <1>5. Len(Claimed) = share
    BY <1>1, <1>3, <1>4
  <1>6. ASSUME NEW j \in 1 .. share PROVE Claimed[j] = words[cursor + j]
    BY <1>1, <1>3, <1>4
  <1> QED BY <1>5, <1>6 DEF share, wanted

LEMMA AssignHeard ==
    ASSUME HeardInv, AssignScene
    PROVE  Listens' /\ Claims' /\ stage' # "listening"
  <1> DEFINE l == Len(spans)
  <1>1. /\ stage = "assigning" /\ Len(spans) < Len(narrations)
        /\ spans' = Append(spans, SpanOf(Claimed)) /\ cursor' = cursor + Len(Claimed)
        /\ stage' = stage /\ UNCHANGED <<narrations, heard, words, open>>
    BY DEF AssignScene
  <1>2. /\ Narrated /\ heard \in Nat /\ words \in Seq(Timing) /\ Len(words) \in Nat
        /\ spans \in Seq(Span) /\ l \in Nat /\ cursor \in 0 .. Len(words)
        /\ TypeOK /\ Listens /\ Claims /\ Len(narrations) \in Nat
    <2>1. Len(narrations) \in Nat
      BY HeardTyped, Ends
    <2> QED BY <1>1, <2>1, HeardTyped DEF HeardInv, Inv
  <1>3. Listens' /\ stage' # "listening"
    BY <1>1, ListensOn
  <1>4. PICK k \in 1 .. Len(narrations) : k = l + 1
    BY <1>1, <1>2
  <1>5. /\ k - 1 = l
    BY <1>2, <1>4
  <1>6. Hears(words, heard) /\ heard <= Len(Script)
    BY <1>1, <1>2 DEF Listens, WordsSoFar
  <1>7. Claimed \in Seq(Timing) /\ Len(Claimed) \in Nat
    BY <1>1, <1>2, ClaimedTyped
  <1>8. /\ Len(Claimed) = (LET wanted == WordCount(narrations[k])
                               left == Len(words) - cursor
                           IN  IF wanted < left THEN wanted ELSE left)
        /\ \A j \in 1 .. Len(Claimed) : Claimed[j] = words[cursor + j]
    BY <1>1, <1>2, <1>4, ShareOfWords
  <1>9. PICK share : share = Len(Claimed)
    OBVIOUS
  <1>10. \A m \in 1 .. Len(words) : m <= cursor <=> words[m].offset < EndOf(k - 1)
    BY <1>2, <1>5 DEF Claims, Counted
  <1>11. /\ share \in Nat /\ cursor + share \in 0 .. Len(words)
         /\ \A m \in 1 .. Len(words) : m <= cursor + share <=> words[m].offset < EndOf(k)
    BY <1>2, <1>6, <1>8, <1>9, <1>10, ClaimsItsOwn
  <1>12. PICK claimed \in Seq(Timing) : claimed = Claimed
    BY <1>7
  <1>13. SpanOf(claimed) \in Span /\ SpanOf(claimed).words = claimed
    BY SpanTyped DEF SpanOf
  <1>14. PICK after : after = spans'
    OBVIOUS
  <1>15. /\ Len(after) = l + 1 /\ after[l + 1].words = claimed
         /\ \A q \in 1 .. l : after[q] = spans[q]
    <2>1. PICK span \in Span : span = SpanOf(claimed)
      BY <1>13
    <2>2. after = Append(spans, span)
      BY <1>1, <1>12, <1>14, <2>1
    <2> QED BY <1>2, <1>13, <2>1, <2>2
  <1>16. /\ Len(claimed) = share /\ \A j \in 1 .. share : claimed[j] = words[cursor + j]
    BY <1>8, <1>9, <1>12
  <1> HIDE DEF l
  <1>17. \A q : EndOf(q)' = EndOf(q)
    BY <1>1, SameScript
  <1>18. cursor' = cursor + share /\ words' = words /\ spans' = after
    BY <1>1, <1>9, <1>14
  <1>19. \A q \in 1 .. l + 1 : q \in 1 .. l \/ q = k
    BY <1>2, <1>4
  <1>20. /\ \A q \in 1 .. l : q \in 1 .. l + 1
         /\ k \in 1 .. l + 1
    BY <1>2, <1>4
  <1>21. \A m \in 1 .. Len(words) : m <= cursor + share <=> words[m].offset < EndOf(l + 1)
    BY <1>4, <1>11
  <1>22. ASSUME NEW q \in 1 .. l + 1, NEW j \in 1 .. Len(after[q].words)
         PROVE  \E m \in 1 .. cursor + share :
                  /\ after[q].words[j] = words[m]
                  /\ EndOf(q - 1) <= words[m].offset /\ words[m].offset < EndOf(q)
    <2>1. CASE q \in 1 .. l
      <3>1. PICK m \in 1 .. cursor :
              /\ spans[q].words[j] = words[m]
              /\ EndOf(q - 1) <= words[m].offset /\ words[m].offset < EndOf(q)
        BY <1>2, <1>15, <2>1 DEF Claims, Placed, Scene, l
      <3>2. m \in 1 .. cursor + share
        BY <1>2, <1>11
      <3> QED BY <1>15, <2>1, <3>1, <3>2
    <2>2. CASE q = k
      <3>1. j \in 1 .. share /\ after[q].words[j] = words[cursor + j]
        BY <1>4, <1>15, <1>16, <2>2
      <3>2. cursor + j \in 1 .. Len(words) /\ cursor + j <= cursor + share
            /\ ~(cursor + j <= cursor) /\ cursor + j \in 1 .. cursor + share
        BY <1>2, <1>11, <3>1
      <3>3. words[cursor + j].offset < EndOf(k) /\ ~(words[cursor + j].offset < EndOf(k - 1))
        BY <1>10, <1>11, <3>2
      <3>4. words[cursor + j].offset \in Nat /\ EndOf(k - 1) \in Nat
        <4>1. k - 1 \in 0 .. Len(narrations)
          BY <1>2
        <4> QED BY <1>2, <1>6, <3>2, <4>1, OffsetsAscend, Ends
      <3>5. EndOf(k - 1) <= words[cursor + j].offset
        BY <3>3, <3>4
      <3> QED BY <2>2, <3>1, <3>2, <3>3, <3>5
    <2> QED BY <1>19, <2>1, <2>2
  <1>23. ASSUME NEW q \in 1 .. l + 1, NEW i \in 1 .. Len(after[q].words),
                NEW j \in 1 .. Len(after[q].words), i < j
         PROVE  after[q].words[i].offset < after[q].words[j].offset
    <2>1. CASE q \in 1 .. l
      BY <1>2, <1>15, <1>23, <2>1 DEF Claims, Ascending, Scene, l
    <2>2. CASE q = k
      <3>1. /\ i \in 1 .. share /\ after[q].words[i] = words[cursor + i]
            /\ j \in 1 .. share /\ after[q].words[j] = words[cursor + j]
        BY <1>4, <1>15, <1>16, <2>2
      <3>2. cursor + i \in 1 .. Len(words) /\ cursor + j \in 1 .. Len(words)
            /\ cursor + i < cursor + j
        BY <1>2, <1>11, <1>23, <3>1, SMTT(30)
      <3>3. words[cursor + i].offset < words[cursor + j].offset
        BY <1>2, <1>6, <3>2, OffsetsAscend
      <3> QED BY <3>1, <3>3
    <2> QED BY <1>19, <2>1, <2>2
  <1>24. ASSUME NEW m \in 1 .. cursor + share
         PROVE  \E q \in 1 .. l + 1 : \E j \in 1 .. Len(after[q].words) :
                  after[q].words[j] = words[m]
    <2>1. CASE m <= cursor
      <3>1. m \in 1 .. cursor
        BY <1>2, <1>11, <2>1
      <3>2. PICK q \in 1 .. l :
              \E j \in 1 .. Len(spans[q].words) : spans[q].words[j] = words[m]
        BY <1>2, <3>1 DEF Claims, NoneLeft, Scene, l
      <3> QED BY <1>15, <1>20, <3>2
    <2>2. CASE ~(m <= cursor)
      <3>1. PICK j \in 1 .. share : cursor + j = m
        <4>1. m - cursor \in 1 .. share /\ cursor + (m - cursor) = m
          BY <1>2, <1>11, <2>2
        <4> QED BY <4>1
      <3>2. j \in 1 .. Len(after[k].words) /\ after[k].words[j] = words[m]
        BY <1>4, <1>15, <1>16, <3>1
      <3> QED BY <1>20, <3>2
    <2> QED BY <2>1, <2>2
  <1>25. Scene' = 1 .. l + 1 /\ Len(spans') = l + 1
    BY <1>15, <1>18 DEF Scene
  <1>26. Counted'
    BY <1>17, <1>18, <1>21, <1>25 DEF Counted
  <1>27. Placed'
    BY <1>17, <1>18, <1>22, <1>25 DEF Placed
  <1>28. Ascending' /\ NoneLeft'
    BY <1>18, <1>23, <1>24, <1>25 DEF Ascending, NoneLeft
  <1>29. Claims'
    BY <1>26, <1>27, <1>28 DEF Claims
  <1> QED BY <1>3, <1>29


(* The compiler only reads what the voice left. *)
LEMMA VoiceKept ==
    ASSUME HeardInv, UNCHANGED voiceVars
    PROVE  Listens' /\ (stage' # "listening" => Claims')
  <1>1. /\ stage' = stage
        /\ UNCHANGED <<narrations, heard, words, open, reached, spans, cursor>>
    BY DEF voiceVars
  <1>2. Listens /\ (stage # "listening" => Claims)
    BY DEF HeardInv
  <1>3. Script' = Script /\ \A k : EndOf(k)' = EndOf(k)
    BY <1>1, SameScript
  <1>4. WordsSoFar' = WordsSoFar
    BY <1>1 DEF WordsSoFar, Word
  <1>5. Hears(WordsSoFar, heard)'
    <2>1. PICK ws, h : ws = WordsSoFar /\ h = heard
      OBVIOUS
    <2> QED BY <1>1, <1>2, <1>3, <1>4, <2>1, HearsKept DEF Listens
  <1>6. Listens'
    BY <1>1, <1>2, <1>3, <1>5 DEF Listens
  <1>7. Claims => Counted'
    BY <1>1, <1>3 DEF Claims, Counted
  <1>8. Claims => Placed'
    BY <1>1, <1>3 DEF Claims, Placed, Scene
  <1>9. Claims => Ascending' /\ NoneLeft'
    BY <1>1 DEF Claims, Ascending, NoneLeft, Scene
  <1> QED BY <1>1, <1>2, <1>6, <1>7, <1>8, <1>9 DEF Claims

LEMMA InitHeard == Init => HeardInv
  <1> SUFFICES ASSUME Init PROVE HeardInv
    OBVIOUS
  <1>1. /\ stage = "listening" /\ heard = 0 /\ words = <<>> /\ open = Nothing
        /\ spans = <<>> /\ cursor = 0
    BY DEF Init, VoiceInit
  <1>2. Inv
    BY InitInv
  <1>3. Narrated
    BY <1>2, NarrationsTyped DEF Inv, Narrated
  <1>4. 0 <= Len(Script)
    BY <1>3, Ends
  <1>5. WordsSoFar = <<>> /\ open.text = <<>>
    BY <1>1 DEF WordsSoFar, Nothing
  <1>6. Hears(<<>>, 0)
    BY DEF Hears
  <1>7. Listens
    BY <1>1, <1>4, <1>5, <1>6 DEF Listens
  <1> QED BY <1>1, <1>2, <1>7 DEF HeardInv

LEMMA NextHeard == HeardInv /\ [Next]_vars => HeardInv'
  <1> SUFFICES ASSUME HeardInv, [Next]_vars PROVE HeardInv'
    OBVIOUS
  <1>1. Inv'
    BY NextInv DEF HeardInv
  <1> SUFFICES Listens' /\ (stage' # "listening" => Claims')
    BY <1>1 DEF HeardInv
  <1>2. CASE UNCHANGED voiceVars
    BY <1>2, VoiceKept
  <1>3. CASE HearSpace
    BY <1>3, HearSpaceHeard
  <1>4. ASSUME NEW char \in Char \ {Space}, NEW pause \in Pauses, NEW length \in Lengths,
               Hear(char, pause, length)
        PROVE  Listens' /\ stage' = "listening"
    BY <1>1, <1>4, HearHeard
  <1>5. CASE EndOfAnswer
    BY <1>5, EndOfAnswerHeard
  <1>6. CASE AssignScene
    BY <1>6, AssignHeard
  <1>7. CASE StoreNarration
    <2>1. /\ stage = "assigning" /\ stage' \in {"stored", "unvoiced"}
          /\ UNCHANGED <<narrations, heard, words, open, spans, cursor>>
      BY <1>7 DEF StoreNarration
    <2> QED BY <2>1, StoredHeard
  <1>8. UNCHANGED voiceVars \/ VoiceNext
    <2>1. CASE Voice
      BY <2>1 DEF Voice
    <2>2. CASE NoFrame
      BY <2>2 DEF NoFrame
    <2>3. ASSUME NEW carded \in SUBSET Scene, NEW configured \in Transitions,
                 NEW tail \in Tails, NEW padding \in Paddings,
                 Compile(carded, configured, tail, padding)
          PROVE  UNCHANGED voiceVars
      BY <2>3, Zenon DEF Compile
    <2>4. CASE UNCHANGED vars
      BY <2>4 DEF vars
    <2> QED BY <2>1, <2>2, <2>3, <2>4 DEF Next
  <1> QED BY <1>2, <1>3, <1>4, <1>5, <1>6, <1>7, <1>8 DEF VoiceNext

-----------------------------------------------------------------------------
(* What the invariant says of a stored narration. *)
LEMMA OneWord ==
    ASSUME NEW ws, NEW h \in Nat, Hears(ws, h), NEW i,
           NEW m \in 1 .. Len(ws), NEW l \in 1 .. Len(ws), Within(i, ws[m]), Within(i, ws[l])
    PROVE  ~(m < l)
  <1> SUFFICES ASSUME m < l PROVE FALSE
    OBVIOUS
  <1>1. Sound(ws[m], h) /\ Sound(ws[l], h)
        /\ ws[m].offset + Len(ws[m].text) <= ws[l].offset
    BY DEF Hears
  <1>2. i \in 1 .. h /\ ws[l].offset < i /\ ws[l].offset \in Nat
    BY <1>1, WithinIsText, WordIsThere
  <1>3. ws[m].offset \in Nat /\ Len(ws[m].text) \in Nat
    BY <1>1, WordIsThere
  <1>4. i <= ws[m].offset + Len(ws[m].text)
    BY <1>2, <1>3 DEF Within
  <1> QED BY <1>1, <1>2, <1>3, <1>4

LEMMA SoundIsText ==
    ASSUME Script \in Seq(Char), NEW word, NEW h \in Nat, Sound(word, h), h <= Len(Script)
    PROVE  word.text = SubSeq(Script, word.offset + 1, word.offset + Len(word.text))
  <1>1. PICK text, o : text = word.text /\ o = word.offset
    OBVIOUS
  <1>2. /\ o \in Nat /\ Len(text) \in Nat \ {0} /\ text \in Seq(Char) /\ o + Len(text) <= h
        /\ \A j \in 1 .. Len(text) : text[j] = Script[o + j]
    BY <1>1, WordIsThere
  <1>3. Len(Script) \in Nat
    OBVIOUS
  <1> DEFINE part == SubSeq(Script, o + 1, o + Len(text))
  <1>4. /\ part \in Seq(Char) /\ Len(part) = Len(text)
    BY <1>2, <1>3
  <1>5. \A j \in 1 .. Len(text) : part[j] = Script[o + j]
    BY <1>2, <1>3
  <1> HIDE DEF part
  <1>6. text = part
    BY <1>2, <1>4, <1>5
  <1> QED BY <1>1, <1>6 DEF part

(* Everything heard was claimed, and a claimed word lies in its scene.     *)
LEMMA StoredWords ==
    ASSUME HeardInv, stage = "stored"
    PROVE  /\ Hears(words, heard) /\ heard \in Nat /\ heard <= Len(Script) /\ Narrated
           /\ Scene = 1 .. Len(narrations) /\ cursor = Len(words)
           /\ \A k \in Scene : /\ DOMAIN spans[k].words = 1 .. Len(spans[k].words)
                               /\ Len(spans[k].words) \in Nat
  <1>1. /\ Narrated /\ heard \in Nat /\ Len(words) \in Nat /\ spans \in Seq(Span)
        /\ cursor \in 0 .. Len(words) /\ Listens /\ Claims
    BY HeardTyped DEF HeardInv
  <1>2. Len(spans) = Len(narrations)
    BY DEF HeardInv, Inv, VoicedFirst
  <1>3. Hears(words, heard) /\ heard <= Len(Script)
    BY <1>1 DEF Listens, WordsSoFar
  <1>4. Len(Script) = EndOf(Len(spans)) /\ Len(Script) \in Nat
    BY <1>1, <1>2, Ends
  <1>5. cursor = Len(words)
    <2> SUFFICES ASSUME cursor # Len(words) PROVE FALSE
      OBVIOUS
    <2>1. cursor + 1 \in 1 .. Len(words) /\ ~(cursor + 1 <= cursor)
      BY <1>1
    <2>2. words[cursor + 1].offset \in Nat /\ words[cursor + 1].offset < heard
      BY <1>1, <1>3, <2>1, OffsetsAscend
    <2>3. ~(words[cursor + 1].offset < EndOf(Len(spans)))
      BY <1>1, <2>1 DEF Claims, Counted
    <2> QED BY <1>1, <1>3, <1>4, <2>2, <2>3
  <1>6. ASSUME NEW k \in Scene
        PROVE  DOMAIN spans[k].words = 1 .. Len(spans[k].words) /\ Len(spans[k].words) \in Nat
    <2>1. spans[k] \in Span
      BY <1>1 DEF Scene
    <2>2. spans[k].words \in Seq(Timing)
      BY <2>1 DEF Span
    <2> QED BY <2>2
  <1> QED BY <1>1, <1>2, <1>3, <1>5, <1>6 DEF Scene

LEMMA WordOfScene ==
    ASSUME HeardInv, stage = "stored", NEW k \in Scene, NEW j \in 1 .. Len(spans[k].words)
    PROVE  \E m \in 1 .. Len(words) :
             /\ spans[k].words[j] = words[m]
             /\ Sound(words[m], heard)
             /\ \A i : Within(i, words[m]) => SceneOf(i) = k
  <1>1. /\ Hears(words, heard) /\ heard \in Nat /\ heard <= Len(Script) /\ Narrated
        /\ Scene = 1 .. Len(narrations) /\ cursor = Len(words) /\ Claims
    BY StoredWords DEF HeardInv
  <1>2. PICK m \in 1 .. Len(words) :
          /\ spans[k].words[j] = words[m]
          /\ EndOf(k - 1) <= words[m].offset /\ words[m].offset < EndOf(k)
    BY <1>1 DEF Claims, Placed
  <1>3. Sound(words[m], heard)
    BY <1>1 DEF Hears
  <1>4. \A i : Within(i, words[m]) => SceneOf(i) = k
    BY <1>1, <1>2, <1>3, WordInScene
  <1> QED BY <1>2, <1>3, <1>4

LEMMA StoredIsHeard == HeardInv => NothingHeardIsLost
  <1> SUFFICES ASSUME HeardInv, stage = "stored", NEW i \in 1 .. heard, Script[i] # Space
               PROVE  LET holding ==
                            {h \in UNION {{k} \X DOMAIN spans[k].words : k \in Scene} :
                               LET word == spans[h[1]].words[h[2]]
                               IN  /\ i \in word.offset + 1 .. word.offset + Len(word.text)
                                   /\ word.text = SubSeq(Script, word.offset + 1,
                                                         word.offset + Len(word.text))}
                      IN  \E h \in holding : holding = {h} /\ h[1] = SceneOf(i)
    BY Zenon DEF NothingHeardIsLost
  <1> DEFINE places == UNION {{k} \X DOMAIN spans[k].words : k \in Scene}
             At(h) == spans[h[1]].words[h[2]]
             IsText(word) == word.text = SubSeq(Script, word.offset + 1,
                                                word.offset + Len(word.text))
             holding == {h \in places : Within(i, At(h)) /\ IsText(At(h))}
  <1>1. /\ Hears(words, heard) /\ heard \in Nat /\ heard <= Len(Script)
        /\ Script \in Seq(Char) /\ Scene = 1 .. Len(narrations) /\ cursor = Len(words) /\ Claims
        /\ \A k \in Scene : DOMAIN spans[k].words = 1 .. Len(spans[k].words)
    BY StoredWords, Ends DEF HeardInv
  <1>2. \A h : h \in places <=> \E k \in Scene : h \in {k} \X (1 .. Len(spans[k].words))
    BY <1>1
  <1> HIDE DEF places
  <1>3. PICK m \in 1 .. Len(words) : Within(i, words[m])
    BY <1>1 DEF Hears
  <1>4. PICK k \in Scene : \E j \in 1 .. Len(spans[k].words) : spans[k].words[j] = words[m]
    BY <1>1 DEF Claims, NoneLeft
  <1>5. PICK j \in 1 .. Len(spans[k].words) : spans[k].words[j] = words[m]
    BY <1>4
  <1>6. Sound(words[m], heard)
    BY <1>1 DEF Hears
  <1>7. PICK here : here = <<k, j>>
    OBVIOUS
  <1>8. here \in places /\ here[1] = k /\ here[2] = j
    BY <1>2, <1>7
  <1>9. here \in holding
    <2>1. At(here) = words[m]
      BY <1>5, <1>8
    <2>2. IsText(words[m])
      BY <1>1, <1>6, SoundIsText
    <2> HIDE DEF At, IsText
    <2> QED BY <1>3, <1>8, <2>1, <2>2
  <1>10. ASSUME NEW a \in Scene, NEW b \in 1 .. Len(spans[a].words),
                Within(i, spans[a].words[b])
         PROVE  a = SceneOf(i)
    <2>1. PICK l \in 1 .. Len(words) :
            spans[a].words[b] = words[l] /\ \A x : Within(x, words[l]) => SceneOf(x) = a
      BY WordOfScene
    <2> QED BY <1>10, <2>1
  <1>11. k = SceneOf(i)
    BY <1>3, <1>5, <1>10
  <1>12. ASSUME NEW b \in 1 .. Len(spans[k].words), Within(i, spans[k].words[b]) PROVE b = j
    <2>1. PICK l \in 1 .. Len(words) : spans[k].words[b] = words[l]
      BY WordOfScene
    <2>2. m = l
      <3>1. ~(m < l) /\ ~(l < m)
        BY <1>1, <1>3, <1>12, <2>1, OneWord
      <3> QED BY <3>1
    <2>3. spans[k].words[b].offset = spans[k].words[j].offset /\ words[m].offset \in Nat
      BY <1>1, <1>5, <2>1, <2>2, OffsetsAscend
    <2>4. ~(spans[k].words[b].offset < spans[k].words[j].offset)
          /\ ~(spans[k].words[j].offset < spans[k].words[b].offset)
      BY <1>5, <2>3
    <2>5. ~(b < j) /\ ~(j < b)
      BY <1>1, <2>4 DEF Claims, Ascending
    <2> QED BY <2>5
  <1>13. ASSUME NEW h \in holding PROVE h = here
    <2>1. PICK a \in Scene : h \in {a} \X (1 .. Len(spans[a].words))
      BY <1>2
    <2>2. h[1] = a /\ h[2] \in 1 .. Len(spans[a].words) /\ h = <<a, h[2]>>
      <3> HIDE DEF holding
      <3> QED BY <2>1
    <2>3. Within(i, spans[a].words[h[2]])
      BY <2>2
    <2>4. a = k
      BY <1>10, <1>11, <2>2, <2>3
    <2>5. h[2] = j
      BY <1>12, <2>2, <2>3, <2>4
    <2> QED BY <1>7, <2>2, <2>4, <2>5
  <1>14. holding = {here}
    <2> HIDE DEF holding
    <2> QED BY <1>9, <1>13
  <1>15. \E h \in holding : holding = {h} /\ h[1] = SceneOf(i)
    <2> HIDE DEF holding
    <2> QED BY <1>8, <1>9, <1>11, <1>14
  <1> QED BY <1>15, Zenon DEF places, Within

(* Whatever the synthesis cuts off and however it times what it speaks, a  *)
(* character that was heard is in one word, which is the script's text at  *)
(* its offset, and the scene whose narration it comes from holds that word:*)
(* scene_spans, which only counts, never drifts against the text.          *)
THEOREM EveryWordInItsScene == Spec => []NothingHeardIsLost
  BY InitHeard, NextHeard, StoredIsHeard, PTL DEF Spec

-----------------------------------------------------------------------------
(* A loop over n inputs, each turn a function of the last one's result: it *)
(* has a result after every turn, of the type its turns keep.              *)
Iterates(run, base, turn, n) ==
    run = [m \in 0 .. n |-> IF m = 0 THEN base ELSE turn[m][run[m - 1]]]

LEMMA LoopRuns ==
    ASSUME NEW n \in Nat, NEW State, NEW base \in State, NEW turn \in [1 .. n -> [State -> State]]
    PROVE  \E run \in [0 .. n -> State] : Iterates(run, base, turn, n)
  <1> DEFINE Good == {m \in Nat : m <= n =>
                        \E run \in [0 .. m -> State] : Iterates(run, base, turn, m)}
  <1>1. 0 \in Good
    <2> DEFINE run == [m \in 0 .. 0 |-> base]
    <2>1. run \in [0 .. 0 -> State]
      OBVIOUS
    <2>2. run = [m \in 0 .. 0 |-> IF m = 0 THEN base ELSE turn[m][run[m - 1]]]
      OBVIOUS
    <2> HIDE DEF run
    <2>3. Iterates(run, base, turn, 0)
      BY <2>2 DEF Iterates
    <2> QED BY <2>1, <2>3
  <1>2. ASSUME NEW m \in 0 .. n, m \in Good, m < n PROVE m + 1 \in Good
    <2>1. PICK run \in [0 .. m -> State] : Iterates(run, base, turn, m)
      BY <1>2
    <2> DEFINE more == [l \in 0 .. m + 1 |-> IF l <= m THEN run[l] ELSE turn[l][run[m]]]
    <2>2. m \in Nat /\ m + 1 \in 1 .. n /\ m \in 0 .. m
      BY <1>2
    <2>3. turn[m + 1] \in [State -> State] /\ run[m] \in State
      BY <2>2
    <2>4. ASSUME NEW l \in 0 .. m + 1
          PROVE  more[l] \in State /\ more[l] = IF l = 0 THEN base ELSE turn[l][more[l - 1]]
      <3>1. CASE l = m + 1
        <4>1. ~(l <= m) /\ l # 0 /\ l - 1 = m /\ m \in 0 .. m + 1
          BY <2>2, <3>1
        <4>2. more[l] = turn[l][run[m]] /\ more[m] = run[m]
          BY <2>2, <4>1
        <4>3. turn[l][run[m]] \in State
          BY <2>3, <3>1
        <4> HIDE DEF more
        <4> QED BY <4>1, <4>2, <4>3
      <3>2. CASE l # m + 1
        <4>1. l \in 0 .. m /\ l <= m
          BY <2>2, <3>2
        <4>2. run[l] = IF l = 0 THEN base ELSE turn[l][run[l - 1]]
          BY <2>1, <4>1 DEF Iterates
        <4>3. more[l] = run[l] /\ run[l] \in State
          BY <4>1
        <4>4. CASE l = 0
          BY <4>2, <4>3, <4>4
        <4>5. CASE l # 0
          <5>1. l - 1 \in 0 .. m + 1 /\ l - 1 <= m
            BY <2>2, <4>1, <4>5
          <5>2. more[l - 1] = run[l - 1]
            BY <5>1
          <5> HIDE DEF more
          <5> QED BY <4>2, <4>3, <4>5, <5>2
        <4> QED BY <4>4, <4>5
      <3> QED BY <3>1, <3>2
    <2>5. more = [l \in 0 .. m + 1 |-> more[l]]
      OBVIOUS
    <2> HIDE DEF more
    <2>6. more = [l \in 0 .. m + 1 |-> IF l = 0 THEN base ELSE turn[l][more[l - 1]]]
      BY <2>4, <2>5
    <2>7. more \in [0 .. m + 1 -> State]
      BY <2>4, <2>5
    <2>8. Iterates(more, base, turn, m + 1)
      BY <2>6 DEF Iterates
    <2> QED BY <2>2, <2>7, <2>8
  <1> HIDE DEF Good
  <1>3. \A m \in 0 .. n : m \in Good
    BY <1>1, <1>2, Upwards
  <1>4. n \in Good
    BY <1>3
  <1> QED BY <1>4 DEF Good

(* A part of a sequence, from one place up to another; the parts of one    *)
(* that is cut at some places.                                             *)
Piece(part, whole, from, upto) ==
    /\ from <= upto
    /\ Len(part) = upto - from
    /\ \A j \in 1 .. Len(part) : part[j] = whole[from + j]

Cuts(cut, parts, whole) ==
    /\ cut[0] = 0
    /\ \A i \in 0 .. Len(parts) : cut[i] \in 0 .. Len(whole)
    /\ \A i \in 1 .. Len(parts) : Piece(parts[i], whole, cut[i - 1], cut[i])

LEMMA PieceJoin ==
    ASSUME NEW T, NEW whole \in Seq(T), NEW a \in Seq(T), NEW b \in Seq(T),
           NEW x \in Nat, NEW y \in Nat, NEW z \in Nat,
           Piece(a, whole, x, y), Piece(b, whole, y, z)
    PROVE  Piece(a \o b, whole, x, z)
  <1>1. /\ x <= y /\ Len(a) = y - x /\ \A j \in 1 .. Len(a) : a[j] = whole[x + j]
        /\ y <= z /\ Len(b) = z - y /\ \A j \in 1 .. Len(b) : b[j] = whole[y + j]
    BY DEF Piece
  <1>2. Len(a \o b) = z - x /\ x <= z /\ Len(a) \in Nat /\ Len(b) \in Nat
    <2>1. Len(a) \in Nat /\ Len(b) \in Nat /\ Len(a \o b) = Len(a) + Len(b)
      OBVIOUS
    <2> QED BY <1>1, <2>1
  <1>3. ASSUME NEW j \in 1 .. Len(a \o b) PROVE (a \o b)[j] = whole[x + j]
    <2>1. CASE j <= Len(a)
      <3>1. j \in 1 .. Len(a) /\ (a \o b)[j] = a[j]
        BY <1>2, <2>1
      <3> QED BY <1>1, <3>1
    <2>2. CASE ~(j <= Len(a))
      <3>1. j - Len(a) \in 1 .. Len(b) /\ (a \o b)[j] = b[j - Len(a)]
        BY <1>2, <2>2
      <3>2. y + (j - Len(a)) = x + j
        BY <1>1, <1>2
      <3> QED BY <1>1, <3>1, <3>2
    <2> QED BY <2>1, <2>2
  <1> QED BY <1>2, <1>3 DEF Piece

LEMMA PieceAppend ==
    ASSUME NEW T, NEW whole \in Seq(T), NEW a \in Seq(T),
           NEW x \in Nat, NEW y \in Nat, y < Len(whole), Piece(a, whole, x, y)
    PROVE  Piece(Append(a, whole[y + 1]), whole, x, y + 1)
  <1>1. y + 1 \in 1 .. Len(whole)
    OBVIOUS
  <1>2. PICK next : next = whole[y + 1]
    OBVIOUS
  <1>3. next \in T
    BY <1>1, <1>2
  <1>4. x <= y /\ Len(a) = y - x /\ \A j \in 1 .. Len(a) : a[j] = whole[x + j]
    BY DEF Piece
  <1>5. Len(Append(a, next)) = Len(a) + 1 /\ Len(a) \in Nat
    BY <1>3
  <1>6. ASSUME NEW j \in 1 .. Len(Append(a, next)) PROVE Append(a, next)[j] = whole[x + j]
    <2>1. CASE j = Len(a) + 1
      <3>1. x + j = y + 1
        BY <1>4, <1>5, <2>1
      <3>2. Append(a, next)[j] = next
        BY <1>3, <2>1
      <3> QED BY <1>2, <3>1, <3>2
    <2>2. CASE j # Len(a) + 1
      <3>1. j \in 1 .. Len(a)
        BY <1>5, <2>2
      <3> QED BY <1>3, <1>4, <3>1
    <2> QED BY <2>1, <2>2
  <1>7. Piece(Append(a, next), whole, x, y + 1)
    BY <1>4, <1>5, <1>6 DEF Piece
  <1> QED BY <1>2, <1>7

LEMMA PieceWhole ==
    ASSUME NEW T, NEW whole \in Seq(T), NEW a \in Seq(T), Piece(a, whole, 0, Len(whole))
    PROVE  a = whole
  <1>1. Len(a) = Len(whole) /\ Len(a) \in Nat
    BY DEF Piece
  <1>2. \A j \in 1 .. Len(a) : a[j] = whole[j]
    BY DEF Piece
  <1> QED BY <1>1, <1>2


-----------------------------------------------------------------------------
(* FlattenSeq, which the captions of all scenes are put together with.     *)
Flattens(f, parts) ==
    f = [i \in 1 .. Len(parts) |-> IF i = 1 THEN parts[i] ELSE f[i - 1] \o parts[i]]

LEMMA FlattenExists ==
    ASSUME NEW T, NEW parts \in Seq(Seq(T))
    PROVE  \E f : /\ Flattens(f, parts)
                  /\ \A i \in 1 .. Len(parts) : f[i] \in Seq(T)
  <1> DEFINE n == Len(parts)
             turn == [i \in 1 .. n |->
                       [s \in Seq(T) |-> IF i = 1 THEN parts[i] ELSE s \o parts[i]]]
  <1>1. n \in Nat /\ <<>> \in Seq(T) /\ \A i \in 1 .. n : parts[i] \in Seq(T)
    OBVIOUS
  <1>2. turn \in [1 .. n -> [Seq(T) -> Seq(T)]]
    <2>1. ASSUME NEW i \in 1 .. n
          PROVE  [s \in Seq(T) |-> IF i = 1 THEN parts[i] ELSE s \o parts[i]]
                   \in [Seq(T) -> Seq(T)]
      <3>1. PICK part \in Seq(T) : part = parts[i]
        BY <1>1
      <3>2. \A s \in Seq(T) : s \o part \in Seq(T)
        OBVIOUS
      <3> QED BY <3>1, <3>2
    <2> QED BY <2>1
  <1>3. \A i \in 1 .. n, s \in Seq(T) : turn[i][s] = IF i = 1 THEN parts[i] ELSE s \o parts[i]
    OBVIOUS
  <1> HIDE DEF turn
  <1>4. PICK run \in [0 .. n -> Seq(T)] : Iterates(run, <<>>, turn, n)
    BY <1>1, <1>2, LoopRuns
  <1> DEFINE f == [i \in 1 .. n |-> run[i]]
  <1>5. ASSUME NEW i \in 1 .. n
        PROVE  f[i] \in Seq(T) /\ f[i] = IF i = 1 THEN parts[i] ELSE f[i - 1] \o parts[i]
    <2>1. i \in 0 .. n /\ i # 0 /\ i - 1 \in 0 .. n
      BY <1>1
    <2>2. f[i] = turn[i][run[i - 1]] /\ run[i - 1] \in Seq(T) /\ run[i] \in Seq(T)
      BY <1>4, <2>1 DEF Iterates
    <2>3. CASE i = 1
      BY <1>3, <2>2, <2>3
    <2>4. CASE i # 1
      <3>1. i - 1 \in 1 .. n
        BY <1>1, <2>4
      <3>2. f[i - 1] = run[i - 1]
        BY <3>1
      <3> HIDE DEF f
      <3>3. f[i] = run[i - 1] \o parts[i]
        BY <1>3, <2>2, <2>4
      <3>4. f[i] \in Seq(T)
        BY <1>1, <2>2, <3>3
      <3> QED BY <2>4, <3>2, <3>3, <3>4
    <2> QED BY <2>3, <2>4
  <1>6. f = [i \in 1 .. n |-> f[i]]
    OBVIOUS
  <1> HIDE DEF f
  <1>7. f = [i \in 1 .. n |-> IF i = 1 THEN parts[i] ELSE f[i - 1] \o parts[i]]
    BY <1>5, <1>6
  <1> QED BY <1>5, <1>7 DEF Flattens

LEMMA FlattenIs ==
    ASSUME NEW T, NEW parts \in Seq(Seq(T)), Len(parts) # 0
    PROVE  \E f : /\ Flattens(f, parts)
                  /\ \A i \in 1 .. Len(parts) : f[i] \in Seq(T)
                  /\ FlattenSeq(parts) = f[Len(parts)]
  <1> DEFINE f == CHOOSE g : Flattens(g, parts)
  <1>1. PICK g : Flattens(g, parts) /\ \A i \in 1 .. Len(parts) : g[i] \in Seq(T)
    BY FlattenExists
  <1>2. Flattens(f, parts)
    BY <1>1, Zenon
  <1>3. FlattenSeq(parts) = f[Len(parts)]
    BY DEF FlattenSeq, Flattens
  <1> HIDE DEF f
  <1> DEFINE Good == {i \in Nat : i \in 1 .. Len(parts) => f[i] \in Seq(T)}
  <1>4. Len(parts) \in Nat /\ \A i \in 1 .. Len(parts) : parts[i] \in Seq(T)
    OBVIOUS
  <1>5. 0 \in Good
    OBVIOUS
  <1>6. ASSUME NEW m \in 0 .. Len(parts), m \in Good, m < Len(parts) PROVE m + 1 \in Good
    <2>1. m + 1 \in 1 .. Len(parts) /\ m + 1 \in Nat
      BY <1>4, <1>6
    <2>2. f[m + 1] = IF m + 1 = 1 THEN parts[m + 1] ELSE f[(m + 1) - 1] \o parts[m + 1]
      BY <1>2, <2>1 DEF Flattens
    <2>3. CASE m = 0
      BY <1>4, <2>1, <2>2, <2>3
    <2>4. CASE m # 0
      <3>1. f[m] \in Seq(T) /\ (m + 1) - 1 = m /\ m + 1 # 1
        BY <1>4, <1>6, <2>4
      <3>2. f[m + 1] = f[m] \o parts[m + 1]
        BY <2>2, <3>1
      <3>3. f[m + 1] \in Seq(T)
        BY <1>4, <2>1, <3>1, <3>2
      <3> QED BY <2>1, <3>3
    <2> QED BY <2>3, <2>4
  <1>7. \A m \in 0 .. Len(parts) : m \in Good
    <2> HIDE DEF Good
    <2> QED BY <1>4, <1>5, <1>6, Upwards
  <1>8. \A i \in 1 .. Len(parts) : f[i] \in Seq(T)
    BY <1>4, <1>7
  <1> QED BY <1>2, <1>3, <1>8

(* The result is cut into the parts, in order.                             *)
LEMMA FlattenCuts ==
    ASSUME NEW T, NEW parts \in Seq(Seq(T))
    PROVE  /\ FlattenSeq(parts) \in Seq(T)
           /\ \E cut : /\ Cuts(cut, parts, FlattenSeq(parts))
                       /\ cut[Len(parts)] = Len(FlattenSeq(parts))
  <1> DEFINE n == Len(parts)
             flat == FlattenSeq(parts)
  <1>1. n \in Nat /\ \A i \in 1 .. n : parts[i] \in Seq(T)
    OBVIOUS
  <1>2. CASE n = 0
    <2>1. parts = <<>> /\ flat = <<>>
      BY <1>2 DEF FlattenSeq
    <2> DEFINE cut == [i \in 0 .. 0 |-> 0]
    <2>2. cut[0] = 0 /\ Len(flat) = 0 /\ flat \in Seq(T)
      <3>1. cut[0] = 0
        OBVIOUS
      <3>2. Len(<<>>) = 0 /\ <<>> \in Seq(T)
        OBVIOUS
      <3> HIDE DEF cut, flat
      <3> QED BY <2>1, <3>1, <3>2
    <2> HIDE DEF cut, flat
    <2>3. Cuts(cut, parts, flat)
      BY <1>2, <2>2 DEF Cuts
    <2> QED BY <1>2, <2>2, <2>3 DEF flat
  <1>3. CASE n # 0
    <2>1. PICK f : Flattens(f, parts) /\ (\A i \in 1 .. n : f[i] \in Seq(T)) /\ flat = f[n]
      BY <1>3, FlattenIs
    <2> HIDE DEF flat
    <2> DEFINE cut == [i \in 0 .. n |-> IF i = 0 THEN 0 ELSE Len(f[i])]
               Good == {m \in Nat : m <= n /\ m # 0 =>
                          \A i \in 1 .. m : /\ cut[i] <= cut[m]
                                            /\ Piece(parts[i], f[m], cut[i - 1], cut[i])}
    <2>2. \A i \in 0 .. n : cut[i] \in Nat
      BY <1>1, <2>1
    <2>3. cut[0] = 0 /\ \A i \in 1 .. n : cut[i] = Len(f[i])
      BY <1>1
    <2>4. \A i \in 1 .. n : f[i] = IF i = 1 THEN parts[i] ELSE f[i - 1] \o parts[i]
      BY <2>1 DEF Flattens
    <2> HIDE DEF cut
    <2>5. 0 \in Good
      OBVIOUS
    <2>6. ASSUME NEW m \in 0 .. n, m \in Good, m < n PROVE m + 1 \in Good
      <3>1. m \in Nat /\ m + 1 \in 1 .. n /\ m + 1 \in 0 .. n /\ m + 1 # 0 /\ (m + 1) - 1 = m
        BY <1>1, <2>6
      <3>2. PICK part \in Seq(T) : part = parts[m + 1]
        BY <1>1, <3>1
      <3>3. /\ f[m + 1] \in Seq(T) /\ cut[m + 1] = Len(f[m + 1])
            /\ cut[m] \in Nat /\ cut[m + 1] \in Nat
        BY <2>1, <2>2, <2>3, <3>1
      <3>4. /\ cut[m + 1] = cut[m] + Len(part)
            /\ \A j \in 1 .. Len(part) : f[m + 1][cut[m] + j] = part[j]
            /\ m # 0 => \A j \in 1 .. cut[m] : f[m + 1][j] = f[m][j]
        <4>1. CASE m = 0
          <5>1. f[m + 1] = part /\ cut[m] = 0 /\ Len(part) \in Nat
            BY <2>3, <2>4, <3>1, <3>2, <4>1
          <5>2. \A j \in 1 .. Len(part) : cut[m] + j = j
            BY <5>1
          <5> QED BY <3>3, <4>1, <5>1, <5>2
        <4>2. CASE m # 0
          <5>1. m \in 1 .. n
            BY <3>1, <4>2
          <5>2. PICK last \in Seq(T) : last = f[m]
            BY <2>1, <5>1
          <5>3. f[m + 1] = last \o part
            <6>1. m + 1 # 1
              BY <3>1, <4>2
            <6>2. f[m + 1] = f[(m + 1) - 1] \o parts[m + 1]
              BY <2>4, <3>1, <6>1
            <6> QED BY <3>1, <3>2, <5>2, <6>2
          <5>4. cut[m] = Len(last) /\ Len(last) \in Nat /\ Len(part) \in Nat
            BY <2>3, <5>1, <5>2
          <5>5. /\ Len(last \o part) = Len(last) + Len(part)
                /\ \A j \in 1 .. Len(last) : (last \o part)[j] = last[j]
                /\ \A j \in 1 .. Len(part) : (last \o part)[Len(last) + j] = part[j]
            OBVIOUS
          <5> QED BY <3>3, <5>2, <5>3, <5>4, <5>5
        <4> QED BY <4>1, <4>2
      <3>5. ASSUME NEW i \in 1 .. m + 1
            PROVE  cut[i] <= cut[m + 1] /\ Piece(parts[i], f[m + 1], cut[i - 1], cut[i])
        <4>1. CASE i = m + 1
          <5>1. i - 1 = m /\ Len(part) \in Nat
            BY <3>1, <4>1
          <5>2. Piece(part, f[m + 1], cut[m], cut[m + 1])
            BY <3>3, <3>4, <5>1 DEF Piece
          <5> QED BY <3>2, <3>3, <4>1, <5>1, <5>2
        <4>2. CASE i # m + 1
          <5>1. i \in 1 .. m /\ m # 0 /\ i \in 0 .. n /\ i - 1 \in 0 .. n /\ i \in 1 .. n
            BY <1>1, <3>1, <4>2
          <5>2. cut[i] <= cut[m] /\ Piece(parts[i], f[m], cut[i - 1], cut[i])
            BY <2>6, <3>1, <5>1
          <5>3. PICK x \in Nat, y \in Nat : x = cut[i - 1] /\ y = cut[i]
            BY <2>2, <5>1
          <5>4. y <= cut[m + 1] /\ Len(part) \in Nat
            BY <3>3, <3>4, <5>2, <5>3, SMTT(30)
          <5>5. /\ x <= y /\ Len(parts[i]) = y - x
                /\ \A j \in 1 .. Len(parts[i]) : parts[i][j] = f[m][x + j]
            BY <5>2, <5>3 DEF Piece
          <5>6. ASSUME NEW j \in 1 .. Len(parts[i]) PROVE parts[i][j] = f[m + 1][x + j]
            <6>1. x + j \in 1 .. cut[m]
              <7>1. y <= cut[m] /\ cut[m] \in Nat /\ Len(parts[i]) = y - x
                BY <3>3, <5>2, <5>3, <5>5
              <7>2. j \in 1 .. y - x
                BY <7>1
              <7> QED BY <7>1, <7>2
            <6> QED BY <3>4, <5>1, <5>5, <6>1
          <5> QED BY <5>3, <5>4, <5>5, <5>6 DEF Piece
        <4> QED BY <4>1, <4>2
      <3> HIDE DEF Piece
      <3> QED BY <3>1, <3>5
    <2>7. \A m \in 0 .. n : m \in Good
      <3> HIDE DEF Good
      <3> QED BY <1>1, <2>5, <2>6, Upwards
    <2>8. n \in Nat /\ n # 0 /\ n \in 0 .. n /\ n \in 1 .. n
      BY <1>1, <1>3
    <2>9. \A i \in 1 .. n : cut[i] <= cut[n] /\ Piece(parts[i], f[n], cut[i - 1], cut[i])
      BY <2>7, <2>8
    <2> HIDE DEF Good
    <2>10. flat \in Seq(T) /\ cut[n] = Len(flat) /\ cut[n] \in Nat
      BY <2>1, <2>2, <2>3, <2>8
    <2>11. ASSUME NEW i \in 0 .. n PROVE cut[i] \in 0 .. Len(flat)
      <3>1. CASE i = 0
        BY <2>3, <2>10, <3>1
      <3>2. CASE i # 0
        <4>1. i \in 1 .. n
          BY <1>1, <3>2
        <4>2. cut[i] \in Nat /\ cut[i] <= cut[n]
          BY <2>2, <2>9, <4>1
        <4> QED BY <2>10, <4>2
      <3> QED BY <3>1, <3>2
    <2>12. Cuts(cut, parts, flat)
      BY <2>1, <2>3, <2>9, <2>11 DEF Cuts
    <2> QED BY <2>10, <2>12 DEF flat
  <1> QED BY <1>2, <1>3


(* Parts that a sequence is cut into flatten to it.                        *)
LEMMA FlattenWhole ==
    ASSUME NEW T, NEW parts \in Seq(Seq(T)), NEW whole \in Seq(T), NEW cut,
           Cuts(cut, parts, whole), cut[Len(parts)] = Len(whole)
    PROVE  FlattenSeq(parts) = whole
  <1> DEFINE n == Len(parts)
             flat == FlattenSeq(parts)
  <1>1. n \in Nat /\ Len(whole) \in Nat /\ \A i \in 1 .. n : parts[i] \in Seq(T)
    OBVIOUS
  <1>2. /\ cut[0] = 0 /\ cut[n] = Len(whole)
        /\ \A i \in 0 .. n : cut[i] \in Nat
        /\ \A i \in 1 .. n : Piece(parts[i], whole, cut[i - 1], cut[i])
    BY <1>1 DEF Cuts
  <1>3. CASE n = 0
    <2>1. whole = <<>>
      BY <1>2, <1>3
    <2> QED BY <1>3, <2>1 DEF FlattenSeq
  <1>4. CASE n # 0
    <2>1. PICK f : Flattens(f, parts) /\ (\A i \in 1 .. n : f[i] \in Seq(T)) /\ flat = f[n]
      BY <1>4, FlattenIs
    <2> HIDE DEF flat
    <2>2. \A i \in 1 .. n : f[i] = IF i = 1 THEN parts[i] ELSE f[i - 1] \o parts[i]
      BY <2>1 DEF Flattens
    <2> DEFINE Good == {m \in Nat : m \in 1 .. n => Piece(f[m], whole, 0, cut[m])}
    <2>3. 0 \in Good
      OBVIOUS
    <2>4. ASSUME NEW m \in 0 .. n, m \in Good, m < n PROVE m + 1 \in Good
      <3>1. m \in Nat /\ m + 1 \in 1 .. n /\ (m + 1) - 1 = m /\ m + 1 \in 0 .. n
        BY <1>1, <2>4
      <3>2. Piece(parts[m + 1], whole, cut[(m + 1) - 1], cut[m + 1])
        BY <1>2, <3>1
      <3>3. PICK x \in Nat, y \in Nat : x = cut[m] /\ y = cut[m + 1]
        BY <1>2, <3>1
      <3>4. PICK part \in Seq(T) : part = parts[m + 1]
        BY <1>1, <3>1
      <3>5. Piece(part, whole, x, y)
        BY <3>1, <3>2, <3>3, <3>4
      <3>6. CASE m = 0
        <4>1. f[m + 1] = part /\ x = 0
          BY <1>2, <2>2, <3>1, <3>3, <3>4, <3>6
        <4> QED BY <3>1, <3>3, <3>5, <4>1
      <3>7. CASE m # 0
        <4>1. m \in 1 .. n /\ m + 1 # 1
          BY <3>1, <3>7
        <4>2. PICK last \in Seq(T) : last = f[m]
          BY <2>1, <4>1
        <4>3. Piece(last, whole, 0, x)
          BY <2>4, <3>3, <4>1, <4>2
        <4>4. f[m + 1] = last \o part
          <5>1. f[m + 1] = f[(m + 1) - 1] \o parts[m + 1]
            BY <2>2, <3>1, <4>1
          <5> QED BY <3>1, <3>4, <4>2, <5>1
        <4>5. Piece(last \o part, whole, 0, y)
          <5>1. 0 \in Nat
            OBVIOUS
          <5> QED BY <3>5, <4>3, <5>1, PieceJoin, Zenon
        <4>6. Piece(f[m + 1], whole, 0, cut[m + 1])
          BY <3>3, <4>4, <4>5, Zenon
        <4> HIDE DEF Piece
        <4> QED BY <3>1, <4>6
      <3> QED BY <3>6, <3>7
    <2>5. \A m \in 0 .. n : m \in Good
      <3> HIDE DEF Good
      <3> QED BY <1>1, <2>3, <2>4, Upwards
    <2>6. n \in 0 .. n /\ n \in 1 .. n
      BY <1>1, <1>4
    <2>7. Piece(flat, whole, 0, Len(whole)) /\ flat \in Seq(T)
      BY <1>2, <2>1, <2>5, <2>6
    <2> QED BY <2>7, PieceWhole DEF flat
  <1> QED BY <1>3, <1>4


-----------------------------------------------------------------------------
(* What group_into_cues makes of a scene's words: groups that none of them *)
(* is missing from, in order, whatever the widths and the dwell say.       *)
IsState(state) ==
    state \in [closed : Seq(Seq(Timing)), open : Seq(Timing)]

(* The groups closed after n words, and the open one, are those n words.   *)
Holds(cut, state, scene, n) ==
    /\ cut[0] = 0
    /\ \A i \in 0 .. Len(state.closed) : cut[i] \in 0 .. n
    /\ \A i \in 1 .. Len(state.closed) :
         /\ Piece(state.closed[i], scene, cut[i - 1], cut[i])
         /\ state.closed[i] # <<>>
    /\ Piece(state.open, scene, cut[Len(state.closed)], n)

LEMMA FlushTyped ==
    ASSUME NEW state, IsState(state)
    PROVE  /\ IsState(Flush(state))
           /\ Flush(state).open = <<>>
           /\ state.open # <<>> => Flush(state).closed = Append(state.closed, state.open)
           /\ state.open = <<>> => Flush(state) = state
  BY DEF IsState, Flush

(* A flush loses nothing.                                                  *)
LEMMA FlushHolds ==
    ASSUME NEW state, IsState(state), NEW scene \in Seq(Timing), NEW n \in 0 .. Len(scene),
           NEW cut, Holds(cut, state, scene, n)
    PROVE  \E next : Holds(next, Flush(state), scene, n)
  <1>1. CASE state.open = <<>>
    BY <1>1, FlushTyped
  <1>2. CASE state.open # <<>>
    <2> DEFINE k == Len(state.closed)
               next == [i \in 0 .. k + 1 |-> IF i = k + 1 THEN n ELSE cut[i]]
    <2>1. /\ state.closed \in Seq(Seq(Timing)) /\ state.open \in Seq(Timing) /\ k \in Nat
          /\ n \in Nat
      BY DEF IsState
    <2>2. /\ Flush(state).closed = Append(state.closed, state.open)
          /\ Flush(state).open = <<>>
      BY <1>2, FlushTyped
    <2>3. PICK after : after = Flush(state).closed
      OBVIOUS
    <2>4. /\ Len(after) = k + 1 /\ after[k + 1] = state.open
          /\ \A i \in 1 .. k : after[i] = state.closed[i]
      BY <2>1, <2>2, <2>3
    <2>5. /\ next[0] = cut[0] /\ next[k + 1] = n /\ \A i \in 0 .. k : next[i] = cut[i]
      <3>1. 0 \in 0 .. k + 1 /\ 0 # k + 1 /\ k + 1 \in 0 .. k + 1
        BY <2>1
      <3>2. \A i \in 0 .. k : i \in 0 .. k + 1 /\ i # k + 1
        BY <2>1
      <3> QED BY <3>1, <3>2
    <2> HIDE DEF next
    <2>6. /\ cut[0] = 0 /\ \A i \in 0 .. k : cut[i] \in 0 .. n
          /\ \A i \in 1 .. k : /\ Piece(state.closed[i], scene, cut[i - 1], cut[i])
                               /\ state.closed[i] # <<>>
          /\ Piece(state.open, scene, cut[k], n)
      BY DEF Holds
    <2>7. ASSUME NEW i \in 0 .. k + 1 PROVE next[i] \in 0 .. n
      <3>1. CASE i = k + 1
        BY <2>1, <2>5, <3>1
      <3>2. CASE i # k + 1
        <4>1. i \in 0 .. k
          BY <2>1, <3>2
        <4> QED BY <2>5, <2>6, <4>1
      <3> QED BY <3>1, <3>2
    <2>8. ASSUME NEW i \in 1 .. k + 1
          PROVE  Piece(after[i], scene, next[i - 1], next[i]) /\ after[i] # <<>>
      <3>1. CASE i = k + 1
        <4>1. i - 1 = k /\ k \in 0 .. k
          BY <2>1, <3>1
        <4>2. after[i] = state.open /\ next[i - 1] = cut[k] /\ next[i] = n
          BY <2>4, <2>5, <3>1, <4>1
        <4> QED BY <1>2, <2>6, <4>2
      <3>2. CASE i # k + 1
        <4>1. i \in 1 .. k /\ i \in 0 .. k /\ i - 1 \in 0 .. k
          BY <2>1, <3>2
        <4>2. after[i] = state.closed[i] /\ next[i - 1] = cut[i - 1] /\ next[i] = cut[i]
          BY <2>4, <2>5, <4>1
        <4> QED BY <2>6, <4>1, <4>2
      <3> QED BY <3>1, <3>2
    <2>9. Piece(<<>>, scene, n, n)
      BY <2>1 DEF Piece
    <2>10. Holds(next, Flush(state), scene, n)
      <3> HIDE DEF Piece
      <3> QED BY <2>2, <2>3, <2>4, <2>5, <2>6, <2>7, <2>8, <2>9 DEF Holds
    <2> QED BY <2>10
  <1> QED BY <1>1, <1>2

LEMMA AppendHolds ==
    ASSUME NEW state, IsState(state), NEW scene \in Seq(Timing), NEW n \in 0 .. Len(scene) - 1,
           NEW cut, Holds(cut, state, scene, n),
           NEW taken, taken = [state EXCEPT !.open = Append(@, scene[n + 1])]
    PROVE  IsState(taken) /\ Holds(cut, taken, scene, n + 1) /\ taken.open # <<>>
  <1>1. /\ state.closed \in Seq(Seq(Timing)) /\ state.open \in Seq(Timing)
        /\ Len(state.closed) \in Nat /\ Len(scene) \in Nat /\ n \in Nat /\ n < Len(scene)
        /\ n + 1 \in 1 .. Len(scene)
    BY DEF IsState
  <1>2. PICK next \in Timing : next = scene[n + 1]
    BY <1>1
  <1>3. taken.closed = state.closed /\ taken.open = Append(state.open, next)
    BY <1>2 DEF IsState
  <1>4. IsState(taken)
    <2>1. Append(state.open, next) \in Seq(Timing)
      BY <1>1
    <2> QED BY <1>2, <2>1 DEF IsState
  <1>5. /\ cut[0] = 0 /\ \A i \in 0 .. Len(state.closed) : cut[i] \in 0 .. n
        /\ Piece(state.open, scene, cut[Len(state.closed)], n)
    BY DEF Holds
  <1>6. PICK x \in Nat : x = cut[Len(state.closed)]
    BY <1>1, <1>5
  <1>7. Piece(Append(state.open, next), scene, x, n + 1)
    BY <1>1, <1>2, <1>5, <1>6, PieceAppend
  <1>8. \A i \in 0 .. Len(state.closed) : cut[i] \in 0 .. n + 1
    BY <1>1, <1>5
  <1>9. Holds(cut, taken, scene, n + 1)
    <2> HIDE DEF Piece
    <2> QED BY <1>3, <1>5, <1>6, <1>7, <1>8, SMTT(30) DEF Holds
  <1>10. taken.open # <<>>
    <2>1. PICK open0 \in Seq(Timing) : open0 = state.open
      BY <1>1
    <2>2. PICK more : more = Append(open0, next)
      OBVIOUS
    <2>3. more # <<>>
      <3>1. Len(more) = Len(open0) + 1 /\ Len(open0) \in Nat
        BY <2>2
      <3>2. Len(<<>>) = 0
        OBVIOUS
      <3>3. Len(more) # 0
        BY <3>1
      <3> QED BY <3>2, <3>3
    <2> QED BY <1>3, <2>1, <2>2, <2>3
  <1> QED BY <1>4, <1>9, <1>10

LEMMA TakeWordHolds ==
    ASSUME NEW state, IsState(state), NEW scene \in Seq(Timing), NEW n \in 0 .. Len(scene) - 1,
           NEW cut, Holds(cut, state, scene, n)
    PROVE  /\ IsState(TakeWord(state, scene[n + 1]))
           /\ \E next : Holds(next, TakeWord(state, scene[n + 1]), scene, n + 1)
  <1> DEFINE word == scene[n + 1]
             room == IF state.open # <<>> /\ TooWide(state.open, word)
                       THEN Flush(state) ELSE state
             taken == [room EXCEPT !.open = Append(@, word)]
  <1>1. TakeWord(state, word) = IF ShouldBreak(taken.open) THEN Flush(taken) ELSE taken
    BY DEF TakeWord
  <1>2. n \in 0 .. Len(scene) /\ n + 1 \in 0 .. Len(scene)
    OBVIOUS
  <1>3. IsState(room) /\ \E c : Holds(c, room, scene, n)
    BY <1>2, FlushTyped, FlushHolds, Zenon
  <1> HIDE DEF room
  <1>4. PICK c : Holds(c, room, scene, n)
    BY <1>3
  <1>5. IsState(taken) /\ Holds(c, taken, scene, n + 1)
    BY <1>3, <1>4, AppendHolds
  <1> HIDE DEF taken
  <1>6. IsState(Flush(taken)) /\ \E d : Holds(d, Flush(taken), scene, n + 1)
    BY <1>2, <1>5, FlushTyped, FlushHolds
  <1> QED BY <1>1, <1>5, <1>6, Zenon


LEMMA TakeWordTyped ==
    ASSUME NEW state, IsState(state), NEW word \in Timing
    PROVE  IsState(TakeWord(state, word))
  <1> DEFINE room == IF state.open # <<>> /\ TooWide(state.open, word)
                       THEN Flush(state) ELSE state
             taken == [room EXCEPT !.open = Append(@, word)]
  <1>1. TakeWord(state, word) = IF ShouldBreak(taken.open) THEN Flush(taken) ELSE taken
    BY DEF TakeWord
  <1>2. IsState(room)
    BY FlushTyped
  <1> HIDE DEF room
  <1>3. IsState(taken)
    <2>1. room.open \in Seq(Timing)
      BY <1>2 DEF IsState
    <2>2. Append(room.open, word) \in Seq(Timing)
      BY <2>1
    <2> QED BY <1>2, <2>2 DEF IsState
  <1> HIDE DEF taken
  <1>4. IsState(Flush(taken))
    BY <1>3, FlushTyped
  <1> QED BY <1>1, <1>3, <1>4

(* After each turn of the loop over the words.                             *)
Turns(turn, scene) ==
    turn = [n \in 0 .. Len(scene) |->
              IF n = 0 THEN [closed |-> <<>>, open |-> <<>>]
                       ELSE TakeWord(turn[n - 1], scene[n])]

LEMMA TakenIs ==
    ASSUME NEW scene \in Seq(Timing)
    PROVE  \E turn : Turns(turn, scene) /\ Taken(scene) = turn[Len(scene)]
  <1> DEFINE N == Len(scene)
             State == [closed : Seq(Seq(Timing)), open : Seq(Timing)]
             base == [closed |-> <<>>, open |-> <<>>]
             step == [n \in 1 .. N |-> [s \in State |-> TakeWord(s, scene[n])]]
             it == CHOOSE turn : Turns(turn, scene)
  <1>1. N \in Nat /\ base \in State /\ \A n \in 1 .. N : scene[n] \in Timing
    OBVIOUS
  <1>2. step \in [1 .. N -> [State -> State]]
    <2>1. ASSUME NEW n \in 1 .. N, NEW s \in State PROVE TakeWord(s, scene[n]) \in State
      BY <1>1, TakeWordTyped DEF IsState
    <2> QED BY <2>1
  <1>3. \A n \in 1 .. N, s \in State : step[n][s] = TakeWord(s, scene[n])
    OBVIOUS
  <1> HIDE DEF step, base, State
  <1>4. PICK run \in [0 .. N -> State] : Iterates(run, base, step, N)
    BY <1>1, <1>2, LoopRuns
  <1>5. ASSUME NEW n \in 0 .. N
        PROVE  run[n] = IF n = 0 THEN base ELSE TakeWord(run[n - 1], scene[n])
    <2>1. run[n] = IF n = 0 THEN base ELSE step[n][run[n - 1]]
      BY <1>4 DEF Iterates
    <2>2. n # 0 => n \in 1 .. N /\ n - 1 \in 0 .. N
      BY <1>1
    <2>3. n # 0 => run[n - 1] \in State
      BY <1>4, <2>2
    <2> QED BY <1>3, <2>1, <2>2, <2>3
  <1>6. run = [n \in 0 .. N |-> run[n]]
    OBVIOUS
  <1>7. Turns(run, scene)
    <2>1. run = [n \in 0 .. N |-> IF n = 0 THEN base ELSE TakeWord(run[n - 1], scene[n])]
      BY <1>5, <1>6
    <2> QED BY <2>1 DEF Turns, base
  <1>8. Turns(it, scene)
    BY <1>7, Zenon
  <1>9. Taken(scene) = it[Len(scene)]
    BY DEF Taken, Turns
  <1> QED BY <1>8, <1>9

(* Groups of a scene's words: all of them, in order, none empty.           *)
Grouping(cut, groups, scene) ==
    /\ Cuts(cut, groups, scene)
    /\ cut[Len(groups)] = Len(scene)
    /\ \A i \in 1 .. Len(groups) : groups[i] # <<>>

LEMMA GroupedWords ==
    ASSUME NEW scene \in Seq(Timing)
    PROVE  /\ Grouped(scene) \in Seq(Seq(Timing))
           /\ \E cut : Grouping(cut, Grouped(scene), scene)
  <1> DEFINE N == Len(scene)
  <1>1. PICK turn : Turns(turn, scene) /\ Taken(scene) = turn[N]
    BY TakenIs
  <1>2. N \in Nat /\ \A n \in 1 .. N : scene[n] \in Timing
    OBVIOUS
  <1>3. \A n \in 0 .. N : turn[n] = IF n = 0 THEN [closed |-> <<>>, open |-> <<>>]
                                            ELSE TakeWord(turn[n - 1], scene[n])
    BY <1>1 DEF Turns
  <1> DEFINE Good == {n \in Nat : n <= N =>
                        IsState(turn[n]) /\ \E cut : Holds(cut, turn[n], scene, n)}
  <1>4. 0 \in Good
    <2> DEFINE cut == [i \in 0 .. 0 |-> 0]
    <2>1. turn[0].closed = <<>> /\ turn[0].open = <<>> /\ IsState(turn[0])
      <3>1. 0 \in 0 .. N
        BY <1>2
      <3>2. turn[0] = [closed |-> <<>>, open |-> <<>>]
        BY <1>3, <3>1
      <3>3. <<>> \in Seq(Seq(Timing)) /\ <<>> \in Seq(Timing)
        OBVIOUS
      <3> QED BY <3>2, <3>3 DEF IsState
    <2>2. cut[0] = 0
      OBVIOUS
    <2> HIDE DEF cut
    <2>3. Piece(<<>>, scene, 0, 0)
      BY DEF Piece
    <2>4. Holds(cut, turn[0], scene, 0)
      <3>1. Len(<<>>) = 0
        OBVIOUS
      <3> HIDE DEF Piece
      <3> QED BY <2>1, <2>2, <2>3, <3>1 DEF Holds
    <2> QED BY <2>1, <2>4
  <1>5. ASSUME NEW n \in 0 .. N, n \in Good, n < N PROVE n + 1 \in Good
    <2>1. n + 1 \in 0 .. N /\ n + 1 # 0 /\ (n + 1) - 1 = n /\ n \in 0 .. N - 1 /\ n + 1 \in Nat
          /\ n <= N
      BY <1>2, <1>5
    <2>2. turn[n + 1] = TakeWord(turn[n], scene[n + 1])
      BY <1>3, <2>1
    <2>3. PICK cut : Holds(cut, turn[n], scene, n)
      BY <1>5, <2>1
    <2>4. PICK before : before = turn[n]
      OBVIOUS
    <2>5. IsState(before) /\ Holds(cut, before, scene, n)
      BY <1>5, <2>1, <2>3, <2>4
    <2>6. /\ IsState(TakeWord(before, scene[n + 1]))
          /\ \E next : Holds(next, TakeWord(before, scene[n + 1]), scene, n + 1)
      BY <2>1, <2>5, TakeWordHolds
    <2> QED BY <2>1, <2>2, <2>4, <2>6
  <1> HIDE DEF Good
  <1>6. \A n \in 0 .. N : n \in Good
    BY <1>2, <1>4, <1>5, Upwards
  <1>7. N \in 0 .. Len(scene) /\ N \in Good
    BY <1>2, <1>6
  <1>8. PICK state : state = turn[N]
    OBVIOUS
  <1>9. IsState(state) /\ \E cut : Holds(cut, state, scene, N)
    BY <1>7, <1>8 DEF Good
  <1>10. IsState(Flush(state)) /\ Flush(state).open = <<>>
    BY <1>9, FlushTyped
  <1>11. PICK cut : Holds(cut, Flush(state), scene, N)
    BY <1>7, <1>9, FlushHolds
  <1>12. Grouped(scene) = Flush(state).closed
    BY <1>1, <1>8 DEF Grouped
  <1>13. PICK groups : groups = Flush(state).closed
    OBVIOUS
  <1>14. /\ cut[0] = 0
         /\ \A i \in 0 .. Len(groups) : cut[i] \in 0 .. N
         /\ \A i \in 1 .. Len(groups) :
              Piece(groups[i], scene, cut[i - 1], cut[i]) /\ groups[i] # <<>>
         /\ Piece(<<>>, scene, cut[Len(groups)], N)
    <2> HIDE DEF Piece
    <2> QED BY <1>10, <1>11, <1>13 DEF Holds
  <1>15. groups \in Seq(Seq(Timing)) /\ Len(groups) \in Nat
    BY <1>10, <1>13 DEF IsState
  <1>16. cut[Len(groups)] = N
    <2>1. Len(groups) \in 0 .. Len(groups)
      BY <1>15
    <2>2. cut[Len(groups)] \in 0 .. N
      BY <1>14, <2>1
    <2>3. Len(<<>>) = N - cut[Len(groups)] /\ Len(<<>>) = 0
      BY <1>14 DEF Piece
    <2> QED BY <1>2, <2>2, <2>3
  <1>17. Grouping(cut, groups, scene)
    <2> HIDE DEF Piece
    <2> QED BY <1>14, <1>16 DEF Grouping, Cuts
  <1> QED BY <1>12, <1>13, <1>15, <1>17


LEMMA ConcatIs ==
    ASSUME NEW T, NEW a \in Seq(T), NEW b \in Seq(T)
    PROVE  /\ a \o b \in Seq(T)
           /\ Len(a) \in Nat /\ Len(b) \in Nat /\ Len(a \o b) = Len(a) + Len(b)
           /\ \A j \in 1 .. Len(a) : (a \o b)[j] = a[j]
           /\ \A j \in 1 .. Len(b) : (a \o b)[Len(a) + j] = b[j]
  OBVIOUS

(* Two neighbours become one group, and the others stay as they are. *)
LEMMA JoinIs ==
    ASSUME NEW T, NEW groups \in Seq(Seq(T)), NEW i \in 1 .. Len(groups) - 1
    PROVE  /\ Join(groups, i) \in Seq(Seq(T))
           /\ Len(Join(groups, i)) = Len(groups) - 1
           /\ Join(groups, i)[i] = groups[i] \o groups[i + 1]
           /\ \A j \in 1 .. i - 1 : Join(groups, i)[j] = groups[j]
           /\ \A j \in i + 1 .. Len(groups) - 1 : Join(groups, i)[j] = groups[j + 1]
  <1> DEFINE n == Len(groups)
             front == SubSeq(groups, 1, i)
             back == SubSeq(groups, i + 2, n)
             rest == front \o back
             both == groups[i] \o groups[i + 1]
             joined == [rest EXCEPT ![i] = both]
  <1>1. n \in Nat /\ i \in Nat /\ i + 1 \in 1 .. n /\ i \in 1 .. n /\ i + 1 <= n
    OBVIOUS
  <1>2. Join(groups, i) = joined
    <2>1. (i + 1) - 1 = i /\ (i + 1) + 1 = i + 2
      BY <1>1
    <2> QED BY <2>1 DEF Join, ReplaceAt, RemoveAt
  <1>3. /\ front \in Seq(Seq(T)) /\ Len(front) = i
        /\ \A j \in 1 .. i : front[j] = groups[j]
    BY <1>1
  <1>4. /\ back \in Seq(Seq(T)) /\ Len(back) = n - i - 1
        /\ \A j \in 1 .. n - i - 1 : back[j] = groups[i + 1 + j]
    <2>1. CASE i + 1 = n
      BY <1>1, <2>1
    <2>2. CASE i + 1 # n
      <3>1. i + 2 \in 1 .. n /\ n \in 1 .. n
        BY <1>1, <2>2
      <3> QED BY <1>1, <3>1
    <2> QED BY <2>1, <2>2
  <1>5. both \in Seq(T)
    BY <1>1
  <1> HIDE DEF front, back, both
  <1>6. /\ rest \in Seq(Seq(T)) /\ Len(rest) = n - 1
        /\ \A j \in 1 .. i : rest[j] = front[j]
        /\ \A j \in 1 .. n - i - 1 : rest[i + j] = back[j]
    <2>1. /\ rest \in Seq(Seq(T)) /\ Len(rest) = Len(front) + Len(back)
          /\ \A j \in 1 .. Len(front) : rest[j] = front[j]
          /\ \A j \in 1 .. Len(back) : rest[Len(front) + j] = back[j]
      <3>1. PICK S : S = Seq(T)
        OBVIOUS
      <3>2. front \in Seq(S) /\ back \in Seq(S)
        BY <1>3, <1>4, <3>1
      <3>3. rest = front \o back
        OBVIOUS
      <3> HIDE DEF rest
      <3> QED BY <3>1, <3>2, <3>3, ConcatIs
    <2>2. Len(rest) = n - 1
      BY <1>1, <1>3, <1>4, <2>1
    <2> HIDE DEF rest
    <2> QED BY <1>3, <1>4, <2>1, <2>2
  <1> HIDE DEF rest
  <1>7. DOMAIN rest = 1 .. n - 1 /\ i \in 1 .. n - 1
    BY <1>1, <1>6
  <1>8. joined \in Seq(Seq(T)) /\ Len(joined) = n - 1
    BY <1>5, <1>6, <1>7
  <1>9. joined[i] = both /\ \A j \in 1 .. n - 1 : j # i => joined[j] = rest[j]
    BY <1>7
  <1> HIDE DEF joined
  <1>10. ASSUME NEW j \in 1 .. i - 1 PROVE joined[j] = groups[j]
    <2>1. j \in 1 .. n - 1 /\ j # i /\ j \in 1 .. i
      BY <1>1
    <2> QED BY <1>3, <1>6, <1>9, <2>1
  <1>11. ASSUME NEW j \in i + 1 .. n - 1 PROVE joined[j] = groups[j + 1]
    <2>1. j \in 1 .. n - 1 /\ j # i /\ j - i \in 1 .. n - i - 1
      BY <1>1
    <2>2. i + (j - i) = j /\ i + 1 + (j - i) = j + 1
      BY <1>1, <2>1
    <2>3. rest[j] = back[j - i] /\ back[j - i] = groups[j + 1]
      BY <1>4, <1>6, <2>1, <2>2
    <2> QED BY <1>9, <2>1, <2>3
  <1> QED BY <1>2, <1>8, <1>9, <1>10, <1>11 DEF both

LEMMA JoinGroups ==
    ASSUME NEW groups \in Seq(Seq(Timing)), NEW i \in 1 .. Len(groups) - 1,
           NEW scene \in Seq(Timing), NEW cut, Grouping(cut, groups, scene)
    PROVE  \E next : Grouping(next, Join(groups, i), scene)
  <1> DEFINE n == Len(groups)
             next == [j \in 0 .. n - 1 |-> IF j < i THEN cut[j] ELSE cut[j + 1]]
  <1>1. /\ n \in Nat /\ i \in Nat /\ i + 1 \in 1 .. n /\ i \in 1 .. n /\ i - 1 \in 0 .. n
        /\ i \in 0 .. n /\ i + 1 \in 0 .. n /\ Len(scene) \in Nat /\ (i + 1) - 1 = i
        /\ \A j \in 1 .. n : groups[j] \in Seq(Timing)
    OBVIOUS
  <1>2. /\ cut[0] = 0 /\ cut[n] = Len(scene)
        /\ \A j \in 0 .. n : cut[j] \in 0 .. Len(scene)
        /\ \A j \in 1 .. n : Piece(groups[j], scene, cut[j - 1], cut[j]) /\ groups[j] # <<>>
    BY DEF Grouping, Cuts
  <1>3. PICK after : after = Join(groups, i)
    OBVIOUS
  <1>4. /\ after \in Seq(Seq(Timing)) /\ Len(after) = n - 1
        /\ after[i] = groups[i] \o groups[i + 1]
        /\ \A j \in 1 .. i - 1 : after[j] = groups[j]
        /\ \A j \in i + 1 .. n - 1 : after[j] = groups[j + 1]
    BY <1>3, JoinIs
  <1>5. \A j \in 0 .. n - 1 : next[j] = IF j < i THEN cut[j] ELSE cut[j + 1]
    OBVIOUS
  <1> HIDE DEF next
  <1>6. ASSUME NEW j \in 0 .. n - 1 PROVE next[j] \in 0 .. Len(scene)
    <2>1. j \in 0 .. n /\ j + 1 \in 0 .. n
      BY <1>1
    <2> QED BY <1>2, <1>5, <2>1
  <1>7. next[0] = 0 /\ next[n - 1] = Len(scene)
    <2>1. 0 \in 0 .. n - 1 /\ 0 < i /\ n - 1 \in 0 .. n - 1 /\ ~(n - 1 < i) /\ (n - 1) + 1 = n
      BY <1>1
    <2> QED BY <1>2, <1>5, <2>1
  <1>8. ASSUME NEW j \in 1 .. n - 1
        PROVE  Piece(after[j], scene, next[j - 1], next[j]) /\ after[j] # <<>>
    <2>1. j \in 0 .. n - 1 /\ j - 1 \in 0 .. n - 1 /\ (j - 1) + 1 = j /\ (j + 1) - 1 = j
      BY <1>1
    <2>2. CASE j < i
      <3>1. j \in 1 .. i - 1 /\ j \in 1 .. n /\ j - 1 < i
        BY <1>1, <2>2
      <3>2. after[j] = groups[j] /\ next[j] = cut[j] /\ next[j - 1] = cut[j - 1]
        BY <1>4, <1>5, <2>1, <2>2, <3>1
      <3> QED BY <1>2, <3>1, <3>2
    <2>3. CASE j = i
      <3>1. ~(j < i) /\ j - 1 < i
        BY <1>1, <2>3
      <3>2. next[j] = cut[i + 1] /\ next[j - 1] = cut[i - 1]
        BY <1>5, <2>1, <2>3, <3>1
      <3>3. PICK x \in Nat, y \in Nat, z \in Nat : x = cut[i - 1] /\ y = cut[i] /\ z = cut[i + 1]
        <4>1. cut[i - 1] \in Nat /\ cut[i] \in Nat /\ cut[i + 1] \in Nat
          <5>1. \A m \in 0 .. n : cut[m] \in Nat
            BY <1>2
          <5> QED BY <1>1, <5>1
        <4> QED BY <4>1
      <3>4. PICK a \in Seq(Timing), b \in Seq(Timing) : a = groups[i] /\ b = groups[i + 1]
        BY <1>1
      <3>5. Piece(a, scene, x, y) /\ Piece(b, scene, y, z) /\ a # <<>>
        BY <1>1, <1>2, <3>3, <3>4
      <3>6. Piece(a \o b, scene, x, z)
        BY <3>5, PieceJoin
      <3>7. a \o b # <<>>
        BY <3>5
      <3>8. after[j] = a \o b
        BY <1>4, <2>3, <3>4
      <3> HIDE DEF Piece
      <3> QED BY <3>2, <3>3, <3>6, <3>7, <3>8
    <2>4. CASE i < j
      <3>1. j \in i + 1 .. n - 1 /\ j + 1 \in 1 .. n /\ ~(j < i) /\ ~(j - 1 < i)
        BY <1>1, <2>4
      <3>2. after[j] = groups[j + 1] /\ next[j] = cut[j + 1] /\ next[j - 1] = cut[j]
        BY <1>4, <1>5, <2>1, <3>1
      <3>3. Piece(groups[j + 1], scene, cut[(j + 1) - 1], cut[j + 1]) /\ groups[j + 1] # <<>>
        BY <1>2, <3>1
      <3> QED BY <2>1, <3>2, <3>3
    <2> QED BY <1>1, <2>2, <2>3, <2>4
  <1>9. Grouping(next, after, scene)
    <2> HIDE DEF Piece
    <2> QED BY <1>4, <1>6, <1>7, <1>8 DEF Grouping, Cuts
  <1> QED BY <1>3, <1>9


(* A turn of the repair passes a group or joins two neighbours. *)
IsPass(pass) == pass \in [groups : Seq(Seq(Timing)), position : Nat]

LEMMA RepairJoins ==
    ASSUME NEW pass, IsPass(pass)
    PROVE  /\ IsPass(Repair(pass))
           /\ \/ Repair(pass).groups = pass.groups
              \/ \E i \in 1 .. Len(pass.groups) - 1 :
                   Repair(pass).groups = Join(pass.groups, i)
  <1> DEFINE i == pass.position
             groups == pass.groups
  <1>1. groups \in Seq(Seq(Timing)) /\ i \in Nat
    BY DEF IsPass
  <1>2. \A k \in 1 .. Len(groups) - 1 : Join(groups, k) \in Seq(Seq(Timing))
    BY <1>1, JoinIs
  <1>3. /\ MayJoin(groups, i - 1) => i - 1 \in 1 .. Len(groups) - 1
        /\ MayJoin(groups, i) => i \in 1 .. Len(groups) - 1
    BY DEF MayJoin
  <1>4. \/ Repair(pass) = pass
        \/ Repair(pass) = [pass EXCEPT !.position = i + 1]
        \/ \E k \in 1 .. Len(groups) - 1 :
             Repair(pass) = [pass EXCEPT !.groups = Join(groups, k)]
    <2> DEFINE finished == i > Len(groups)
               lone == ~finished /\ Len(groups[i]) <= 1
               back == lone /\ MayJoin(groups, i - 1)
               onward == lone /\ ~back /\ MayJoin(groups, i)
    <2>1. Repair(pass) =
            CASE finished -> pass
              [] back     -> [pass EXCEPT !.groups = Join(groups, i - 1)]
              [] onward   -> [pass EXCEPT !.groups = Join(groups, i)]
              [] ~finished /\ ~back /\ ~onward -> [pass EXCEPT !.position = i + 1]
      BY DEF Repair
    <2>2. /\ back => ~finished /\ i - 1 \in 1 .. Len(groups) - 1
          /\ onward => ~finished /\ ~back /\ i \in 1 .. Len(groups) - 1
      BY <1>3
    <2> HIDE DEF finished, back, onward
    <2>3. CASE finished
      BY <2>1, <2>2, <2>3
    <2>4. CASE back
      BY <2>1, <2>2, <2>4
    <2>5. CASE onward
      BY <2>1, <2>2, <2>5
    <2>6. CASE ~finished /\ ~back /\ ~onward
      BY <2>1, <2>6
    <2> QED BY <2>3, <2>4, <2>5, <2>6
  <1>5. CASE Repair(pass) = pass
    BY <1>5
  <1>6. CASE Repair(pass) = [pass EXCEPT !.position = i + 1]
    <2>1. i + 1 \in Nat
      BY <1>1
    <2> QED BY <1>6, <2>1 DEF IsPass
  <1>7. ASSUME NEW k \in 1 .. Len(groups) - 1,
               Repair(pass) = [pass EXCEPT !.groups = Join(groups, k)]
        PROVE  IsPass(Repair(pass)) /\ Repair(pass).groups = Join(groups, k)
    <2>1. PICK joined \in Seq(Seq(Timing)) : joined = Join(groups, k)
      BY <1>2
    <2> QED BY <1>7, <2>1 DEF IsPass
  <1> QED BY <1>4, <1>5, <1>6, <1>7

(* After each turn of the repair. *)
Passes(turn, groups) ==
    turn = [n \in 0 .. Len(groups) |->
              IF n = 0 THEN [groups |-> groups, position |-> 2] ELSE Repair(turn[n - 1])]

LEMMA RepairedIs ==
    ASSUME NEW groups \in Seq(Seq(Timing))
    PROVE  \E turn : /\ Passes(turn, groups)
                     /\ \A n \in 0 .. Len(groups) : IsPass(turn[n])
                     /\ Repaired(groups) = turn[Len(groups)].groups
  <1> DEFINE N == Len(groups)
             State == [groups : Seq(Seq(Timing)), position : Nat]
             base == [groups |-> groups, position |-> 2]
             step == [n \in 1 .. N |-> [s \in State |-> Repair(s)]]
             it == CHOOSE turn : Passes(turn, groups)
  <1>1. N \in Nat /\ base \in State
    OBVIOUS
  <1>2. step \in [1 .. N -> [State -> State]]
    <2>1. ASSUME NEW s \in State PROVE Repair(s) \in State
      BY RepairJoins DEF IsPass
    <2> QED BY <2>1
  <1>3. \A n \in 1 .. N, s \in State : step[n][s] = Repair(s)
    OBVIOUS
  <1> HIDE DEF step, base, State
  <1>4. PICK run \in [0 .. N -> State] : Iterates(run, base, step, N)
    BY <1>1, <1>2, LoopRuns
  <1>5. ASSUME NEW n \in 0 .. N
        PROVE  run[n] = IF n = 0 THEN base ELSE Repair(run[n - 1])
    <2>1. run[n] = IF n = 0 THEN base ELSE step[n][run[n - 1]]
      BY <1>4 DEF Iterates
    <2>2. n # 0 => n \in 1 .. N /\ n - 1 \in 0 .. N
      BY <1>1
    <2>3. n # 0 => run[n - 1] \in State
      BY <1>4, <2>2
    <2> QED BY <1>3, <2>1, <2>2, <2>3
  <1>6. run = [n \in 0 .. N |-> run[n]]
    OBVIOUS
  <1>7. Passes(run, groups)
    <2>1. run = [n \in 0 .. N |-> IF n = 0 THEN base ELSE Repair(run[n - 1])]
      BY <1>5, <1>6
    <2> QED BY <2>1 DEF Passes, base
  <1>8. Passes(it, groups)
    BY <1>7, Zenon
  <1>9. Repaired(groups) = it[Len(groups)].groups
    BY DEF Repaired, Passes
  <1> HIDE DEF it
  <1> DEFINE Good == {n \in Nat : n <= N => IsPass(it[n])}
  <1>10. \A n \in 0 .. N : it[n] = IF n = 0 THEN base ELSE Repair(it[n - 1])
    BY <1>8 DEF Passes, base
  <1>11. 0 \in Good
    <2>1. it[0] = base
      BY <1>1, <1>10
    <2>2. IsPass(base)
      BY <1>1 DEF IsPass, State
    <2> QED BY <2>1, <2>2
  <1>12. ASSUME NEW n \in 0 .. N, n \in Good, n < N PROVE n + 1 \in Good
    <2>1. n + 1 \in 0 .. N /\ n + 1 # 0 /\ (n + 1) - 1 = n /\ n + 1 \in Nat /\ n <= N
      BY <1>1, <1>12
    <2>2. it[n + 1] = Repair(it[n])
      BY <1>10, <2>1
    <2>3. IsPass(it[n])
      BY <1>12, <2>1
    <2>4. IsPass(Repair(it[n]))
      BY <2>3, RepairJoins
    <2> QED BY <2>1, <2>2, <2>4
  <1>13. \A n \in 0 .. N : n \in Good
    <2> HIDE DEF Good
    <2> QED BY <1>1, <1>11, <1>12, Upwards
  <1>14. \A n \in 0 .. N : IsPass(it[n])
    BY <1>13
  <1> QED BY <1>8, <1>9, <1>14

LEMMA RepairedGroups ==
    ASSUME NEW groups \in Seq(Seq(Timing)), NEW scene \in Seq(Timing),
           NEW first, Grouping(first, groups, scene)
    PROVE  /\ Repaired(groups) \in Seq(Seq(Timing))
           /\ \E cut : Grouping(cut, Repaired(groups), scene)
  <1> DEFINE N == Len(groups)
  <1>1. PICK turn : /\ Passes(turn, groups)
                    /\ \A n \in 0 .. N : IsPass(turn[n])
                    /\ Repaired(groups) = turn[N].groups
    BY RepairedIs
  <1>2. N \in Nat
    OBVIOUS
  <1>3. \A n \in 0 .. N : turn[n] = IF n = 0 THEN [groups |-> groups, position |-> 2]
                                            ELSE Repair(turn[n - 1])
    BY <1>1 DEF Passes
  <1> DEFINE Good == {n \in Nat : n <= N => \E cut : Grouping(cut, turn[n].groups, scene)}
  <1>4. 0 \in Good
    <2>1. turn[0].groups = groups
      BY <1>2, <1>3
    <2> QED BY <2>1
  <1>5. ASSUME NEW n \in 0 .. N, n \in Good, n < N PROVE n + 1 \in Good
    <2>1. n + 1 \in 0 .. N /\ n + 1 # 0 /\ (n + 1) - 1 = n /\ n + 1 \in Nat /\ n <= N
      BY <1>2, <1>5
    <2>2. turn[n + 1] = Repair(turn[n])
      BY <1>3, <2>1
    <2>3. PICK cut : Grouping(cut, turn[n].groups, scene)
      BY <1>5, <2>1
    <2>4. PICK pass : pass = turn[n]
      OBVIOUS
    <2>5. IsPass(pass) /\ Grouping(cut, pass.groups, scene)
      BY <1>1, <2>3, <2>4
    <2>6. CASE Repair(pass).groups = pass.groups
      BY <2>1, <2>2, <2>4, <2>5, <2>6
    <2>7. ASSUME NEW i \in 1 .. Len(pass.groups) - 1, Repair(pass).groups = Join(pass.groups, i)
          PROVE  n + 1 \in Good
      <3>1. pass.groups \in Seq(Seq(Timing))
        BY <2>5 DEF IsPass
      <3>2. \E next : Grouping(next, Join(pass.groups, i), scene)
        BY <2>5, <3>1, JoinGroups
      <3> QED BY <2>1, <2>2, <2>4, <2>7, <3>2
    <2> HIDE DEF Good
    <2> QED BY <2>5, <2>6, <2>7, RepairJoins
  <1>6. \A n \in 0 .. N : n \in Good
    <2> HIDE DEF Good
    <2> QED BY <1>2, <1>4, <1>5, Upwards
  <1>7. N \in 0 .. N /\ N <= N
    BY <1>2
  <1>8. \E cut : Grouping(cut, turn[N].groups, scene)
    BY <1>6, <1>7
  <1>9. turn[N].groups \in Seq(Seq(Timing))
    BY <1>1, <1>7 DEF IsPass
  <1> QED BY <1>1, <1>8, <1>9

LEMMA AbsorbedGroups ==
    ASSUME NEW groups \in Seq(Seq(Timing)), NEW scene \in Seq(Timing),
           NEW first, Grouping(first, groups, scene)
    PROVE  /\ AbsorbOrphans(groups) \in Seq(Seq(Timing))
           /\ \E cut : Grouping(cut, AbsorbOrphans(groups), scene)
  <1>1. PICK repaired : repaired = Repaired(groups)
    OBVIOUS
  <1>2. repaired \in Seq(Seq(Timing)) /\ \E cut : Grouping(cut, repaired, scene)
    BY <1>1, RepairedGroups
  <1>3. AbsorbOrphans(groups) = IF repaired # <<>> /\ Len(repaired[1]) = 1 /\ MayJoin(repaired, 1)
                                  THEN Join(repaired, 1) ELSE repaired
    BY <1>1 DEF AbsorbOrphans
  <1>4. CASE repaired # <<>> /\ Len(repaired[1]) = 1 /\ MayJoin(repaired, 1)
    <2>1. 1 \in 1 .. Len(repaired) - 1
      BY <1>4 DEF MayJoin
    <2>2. Join(repaired, 1) \in Seq(Seq(Timing))
      BY <1>2, <2>1, JoinIs
    <2>3. \E cut : Grouping(cut, Join(repaired, 1), scene)
      BY <1>2, <2>1, JoinGroups
    <2> QED BY <1>3, <1>4, <2>2, <2>3
  <1>5. CASE ~(repaired # <<>> /\ Len(repaired[1]) = 1 /\ MayJoin(repaired, 1))
    BY <1>2, <1>3, <1>5
  <1> QED BY <1>4, <1>5


LEMMA PieceWithin ==
    ASSUME NEW T, NEW whole \in Seq(T), NEW middle \in Seq(T), NEW part \in Seq(T),
           NEW x \in Nat, NEW y \in Nat, NEW o \in Nat, NEW z \in Nat,
           Piece(part, middle, x, y), y <= Len(middle), Piece(middle, whole, o, z)
    PROVE  Piece(part, whole, o + x, o + y)
  <1>1. /\ x <= y /\ Len(part) = y - x /\ \A j \in 1 .. Len(part) : part[j] = middle[x + j]
        /\ \A j \in 1 .. Len(middle) : middle[j] = whole[o + j]
        /\ Len(middle) \in Nat /\ Len(part) \in Nat
    BY DEF Piece
  <1>2. ASSUME NEW j \in 1 .. Len(part) PROVE part[j] = whole[(o + x) + j]
    <2>1. x + j \in 1 .. Len(middle) /\ o + (x + j) = (o + x) + j
      BY <1>1
    <2>2. middle[x + j] = whole[o + (x + j)]
      BY <1>1, <2>1
    <2> QED BY <1>1, <2>1, <2>2
  <1>3. o + x <= o + y /\ (o + y) - (o + x) = y - x
    BY <1>1
  <1> QED BY <1>1, <1>2, <1>3 DEF Piece

Cue == [words : Seq(Timing), start : Nat, end : Nat]

(* The cues of a scene: its words cut up, each cue up while its words are  *)
(* spoken.                                                                 *)
CutUp(cut, cues, scene) ==
    /\ cut[0] = 0 /\ cut[Len(cues)] = Len(scene)
    /\ \A i \in 0 .. Len(cues) : cut[i] \in 0 .. Len(scene)
    /\ \A i \in 1 .. Len(cues) :
         /\ Piece(cues[i].words, scene, cut[i - 1], cut[i])
         /\ cut[i - 1] < cut[i]
         /\ cues[i].start = scene[cut[i - 1] + 1].start
         /\ cues[i].end = scene[cut[i]].end

LEMMA CuesOfScene ==
    ASSUME NEW scene \in Seq(Timing)
    PROVE  /\ GroupIntoCues(scene) \in Seq(Cue)
           /\ \E cut : CutUp(cut, GroupIntoCues(scene), scene)
  <1>1. PICK grouped : grouped = Grouped(scene)
    OBVIOUS
  <1>2. grouped \in Seq(Seq(Timing)) /\ \E cut : Grouping(cut, grouped, scene)
    BY <1>1, GroupedWords
  <1>3. PICK groups : groups = AbsorbOrphans(grouped)
    OBVIOUS
  <1>4. groups \in Seq(Seq(Timing)) /\ \E cut : Grouping(cut, groups, scene)
    BY <1>2, <1>3, AbsorbedGroups
  <1>5. PICK cut : Grouping(cut, groups, scene)
    BY <1>4
  <1>6. PICK cues : cues = [i \in DOMAIN groups |->
           [words |-> groups[i], start |-> groups[i][1].start, end |-> Last(groups[i]).end]]
    OBVIOUS
  <1>7. GroupIntoCues(scene) = cues
    BY <1>1, <1>3, <1>6 DEF GroupIntoCues
  <1>8. /\ Len(groups) \in Nat /\ DOMAIN groups = 1 .. Len(groups) /\ Len(scene) \in Nat
        /\ \A i \in 1 .. Len(groups) : groups[i] \in Seq(Timing)
    BY <1>4
  <1>9. /\ cut[0] = 0 /\ cut[Len(groups)] = Len(scene)
        /\ \A i \in 0 .. Len(groups) : cut[i] \in 0 .. Len(scene)
        /\ \A i \in 1 .. Len(groups) :
             Piece(groups[i], scene, cut[i - 1], cut[i]) /\ groups[i] # <<>>
    BY <1>5 DEF Grouping, Cuts
  <1>10. ASSUME NEW i \in 1 .. Len(groups)
         PROVE  /\ cues[i] \in Cue
                /\ Piece(cues[i].words, scene, cut[i - 1], cut[i])
                /\ cut[i - 1] < cut[i]
                /\ cues[i].start = scene[cut[i - 1] + 1].start
                /\ cues[i].end = scene[cut[i]].end
    <2>1. PICK group \in Seq(Timing) : group = groups[i]
      BY <1>8
    <2>2. i \in 0 .. Len(groups) /\ i - 1 \in 0 .. Len(groups)
      BY <1>8
    <2>3. cut[i - 1] \in 0 .. Len(scene) /\ cut[i] \in 0 .. Len(scene)
      BY <1>9, <2>2
    <2>4. PICK x \in Nat, y \in Nat : x = cut[i - 1] /\ y = cut[i]
      BY <2>3
    <2>5. Piece(group, scene, x, y) /\ group # <<>>
      BY <1>9, <2>1, <2>4
    <2>6. /\ x <= y /\ Len(group) = y - x /\ \A j \in 1 .. Len(group) : group[j] = scene[x + j]
      BY <2>5 DEF Piece
    <2>7. Len(group) \in Nat \ {0} /\ 1 \in 1 .. Len(group) /\ Len(group) \in 1 .. Len(group)
      BY <2>5
    <2>8. x < y /\ x + Len(group) = y
      BY <2>6, <2>7
    <2>9. group[1] = scene[x + 1] /\ group[Len(group)] = scene[y]
      BY <2>6, <2>7, <2>8
    <2>10. group[1] \in Timing /\ group[Len(group)] \in Timing
      BY <2>7
    <2>11. group[1].start \in Nat /\ group[Len(group)].end \in Nat
      BY <2>10 DEF Timing
    <2>12. cues[i] = [words |-> group, start |-> group[1].start,
                      end |-> group[Len(group)].end]
      BY <1>6, <1>8, <2>1 DEF Last
    <2>13. cues[i] \in Cue
      BY <2>11, <2>12 DEF Cue
    <2>14. cues[i].words = group /\ cues[i].start = scene[x + 1].start
           /\ cues[i].end = scene[y].end
      BY <2>9, <2>12
    <2> HIDE DEF Piece
    <2> QED BY <2>4, <2>5, <2>8, <2>13, <2>14
  <1>11. cues \in Seq(Cue) /\ Len(cues) = Len(groups)
    <2>1. DOMAIN cues = 1 .. Len(groups)
      BY <1>6, <1>8
    <2>2. cues = [i \in 1 .. Len(groups) |-> cues[i]]
      BY <1>6, <1>8
    <2>3. cues \in [1 .. Len(groups) -> Cue]
      BY <1>10, <2>2
    <2> QED BY <1>8, <2>3
  <1>12. CutUp(cut, cues, scene)
    <2> HIDE DEF Piece
    <2> QED BY <1>9, <1>10, <1>11 DEF CutUp
  <1> QED BY <1>7, <1>11, <1>12


(* Where an element of the flattened sequence comes from: the first part   *)
(* that reaches it.                                                        *)
ComesFrom(i, k, cut, parts, whole) ==
    /\ \E j \in 1 .. Len(parts[k]) : i = cut[k - 1] + j /\ whole[i] = parts[k][j]
    /\ \A m \in 0 .. Len(parts) : i <= cut[m] => k <= m

LEMMA FlatPlace ==
    ASSUME NEW T, NEW parts \in Seq(Seq(T)), NEW whole \in Seq(T), NEW cut,
           Cuts(cut, parts, whole), cut[Len(parts)] = Len(whole), NEW i \in 1 .. Len(whole)
    PROVE  \E k \in 1 .. Len(parts) : ComesFrom(i, k, cut, parts, whole)
  <1> DEFINE n == Len(parts)
             Reach == {m \in 0 .. n : i <= cut[m]}
  <1>1. n \in Nat /\ Len(whole) \in Nat /\ i \in Nat /\ n \in 0 .. n
    OBVIOUS
  <1>2. /\ cut[0] = 0 /\ \A m \in 0 .. n : cut[m] \in 0 .. Len(whole)
        /\ \A m \in 1 .. n : Piece(parts[m], whole, cut[m - 1], cut[m])
    BY DEF Cuts
  <1>3. n \in Reach /\ Reach \subseteq Nat
    BY <1>1
  <1>4. PICK k \in Reach : \A m \in Reach : k <= m
    <2> HIDE DEF Reach
    <2> QED BY <1>3, LeastPosition
  <1>5. k \in 0 .. n /\ i <= cut[k] /\ \A m \in 0 .. n : i <= cut[m] => k <= m
    BY <1>4
  <1>6. k # 0
    BY <1>2, <1>5
  <1>7. k \in 1 .. n /\ k - 1 \in 0 .. n /\ ~(k <= k - 1)
    BY <1>1, <1>5, <1>6
  <1>8. PICK x \in Nat, y \in Nat : x = cut[k - 1] /\ y = cut[k]
    <2>1. cut[k - 1] \in 0 .. Len(whole) /\ cut[k] \in 0 .. Len(whole)
      BY <1>2, <1>5, <1>7
    <2> QED BY <2>1
  <1>9. ~(i <= x) /\ i <= y
    BY <1>5, <1>7, <1>8
  <1>10. /\ x <= y /\ Len(parts[k]) = y - x
         /\ \A j \in 1 .. Len(parts[k]) : parts[k][j] = whole[x + j]
    BY <1>2, <1>7, <1>8 DEF Piece
  <1>11. PICK j \in Nat : j = i - x
    BY <1>1, <1>9
  <1>12. j \in 1 .. Len(parts[k]) /\ i = x + j
    BY <1>9, <1>10, <1>11
  <1>13. whole[i] = parts[k][j]
    BY <1>10, <1>12
  <1>14. ComesFrom(i, k, cut, parts, whole)
    BY <1>5, <1>8, <1>12, <1>13 DEF ComesFrom
  <1> QED BY <1>7, <1>14

(* The words the captions say, one sequence per caption.                   *)
WordsOf(all) == [i \in DOMAIN all |-> all[i].words]

(* Scene by scene, the cues are cut from what is said.                     *)
AllCut(cues, said) ==
    \A k \in 1 .. Len(said) : \E cut : CutUp(cut, cues[k], said[k])

(* The cues of all scenes, flattened, say the words of all scenes,         *)
(* flattened: nothing is lost or moved between the scenes.                 *)
LEMMA CuesAreWords ==
    ASSUME NEW said \in Seq(Seq(Timing)), NEW cues \in Seq(Seq(Cue)), Len(cues) = Len(said),
           AllCut(cues, said), NEW all, all = FlattenSeq(cues)
    PROVE  FlattenSeq(WordsOf(all)) = FlattenSeq(said)
  <1> DEFINE n == Len(said)
  <1>1. PICK spoken : spoken = FlattenSeq(said)
    OBVIOUS
  <1>2. PICK c : Cuts(c, said, spoken) /\ c[n] = Len(spoken) /\ spoken \in Seq(Timing)
    BY <1>1, FlattenCuts
  <1>3. PICK d : Cuts(d, cues, all) /\ d[n] = Len(all) /\ all \in Seq(Cue)
    BY FlattenCuts
  <1>4. /\ n \in Nat /\ Len(spoken) \in Nat /\ Len(all) \in Nat
        /\ \A k \in 1 .. n : said[k] \in Seq(Timing) /\ cues[k] \in Seq(Cue)
    BY <1>2, <1>3
  <1>5. /\ c[0] = 0 /\ \A k \in 0 .. n : c[k] \in Nat
        /\ \A k \in 1 .. n : Piece(said[k], spoken, c[k - 1], c[k])
    BY <1>2, <1>4 DEF Cuts
  <1>6. /\ d[0] = 0 /\ \A k \in 0 .. n : d[k] \in Nat
        /\ \A k \in 1 .. n : Piece(cues[k], all, d[k - 1], d[k])
    BY <1>3, <1>4 DEF Cuts
  <1> DEFINE Said(e, k) ==
               /\ e[0] = 0 /\ e[d[k]] = c[k]
               /\ \A i \in 0 .. d[k] : e[i] \in 0 .. c[k]
               /\ \A i \in 1 .. d[k] : Piece(all[i].words, spoken, e[i - 1], e[i])
             Good == {k \in Nat : k <= n => \E e : Said(e, k)}
  <1>7. 0 \in Good
    <2> DEFINE e == [i \in 0 .. 0 |-> 0]
    <2>1. e[0] = 0
      OBVIOUS
    <2> HIDE DEF e
    <2>2. Said(e, 0)
      BY <1>5, <1>6, <2>1
    <2> HIDE DEF Said
    <2> QED BY <2>2
  <1>8. ASSUME NEW k \in 0 .. n, k \in Good, k < n PROVE k + 1 \in Good
    <2>1. k \in Nat /\ k + 1 \in 1 .. n /\ k + 1 \in 0 .. n /\ (k + 1) - 1 = k /\ k <= n
      BY <1>4, <1>8
    <2>2. PICK e : Said(e, k)
      <3> HIDE DEF Said
      <3> QED BY <1>8, <2>1
    <2>3. PICK scene \in Seq(Timing), mine \in Seq(Cue) : scene = said[k + 1] /\ mine = cues[k + 1]
      BY <1>4, <2>1
    <2>4. PICK b : CutUp(b, mine, scene)
      BY <2>1, <2>3 DEF AllCut
    <2>5. PICK c0 \in Nat, c1 \in Nat, d0 \in Nat, d1 \in Nat :
            c0 = c[k] /\ c1 = c[k + 1] /\ d0 = d[k] /\ d1 = d[k + 1]
      <3>1. c[k] \in Nat /\ c[k + 1] \in Nat
        BY <1>5, <2>1
      <3>2. d[k] \in Nat /\ d[k + 1] \in Nat
        BY <1>6, <2>1
      <3> QED BY <3>1, <3>2
    <2>6. Piece(scene, spoken, c0, c1)
      <3>1. Piece(said[k + 1], spoken, c[(k + 1) - 1], c[k + 1])
        BY <1>5, <2>1
      <3> HIDE DEF Piece
      <3> QED BY <2>1, <2>3, <2>5, <3>1
    <2>7. Piece(mine, all, d0, d1)
      <3>1. Piece(cues[k + 1], all, d[(k + 1) - 1], d[k + 1])
        BY <1>6, <2>1
      <3> HIDE DEF Piece
      <3> QED BY <2>1, <2>3, <2>5, <3>1
    <2>8. Len(scene) = c1 - c0 /\ c0 <= c1 /\ Len(scene) \in Nat
      BY <2>6 DEF Piece
    <2>9. /\ Len(mine) = d1 - d0 /\ d0 <= d1 /\ Len(mine) \in Nat
          /\ \A j \in 1 .. Len(mine) : mine[j] = all[d0 + j]
      BY <2>7 DEF Piece
    <2>10. /\ b[0] = 0 /\ b[Len(mine)] = Len(scene)
           /\ \A i \in 0 .. Len(mine) : b[i] \in 0 .. Len(scene)
           /\ \A i \in 1 .. Len(mine) : Piece(mine[i].words, scene, b[i - 1], b[i])
      BY <2>4 DEF CutUp
    <2>11. /\ e[0] = 0 /\ e[d0] = c0
           /\ \A i \in 0 .. d0 : e[i] \in 0 .. c0
           /\ \A i \in 1 .. d0 : Piece(all[i].words, spoken, e[i - 1], e[i])
      BY <2>2, <2>5
    <2> DEFINE more == [i \in 0 .. d1 |-> IF i <= d0 THEN e[i] ELSE c0 + b[i - d0]]
    <2>12. /\ \A i \in 0 .. d0 : more[i] = e[i]
           /\ \A j \in 0 .. Len(mine) : more[d0 + j] = c0 + b[j]
      <3>1. ASSUME NEW i \in 0 .. d0 PROVE more[i] = e[i]
        BY <2>9
      <3>2. ASSUME NEW j \in 0 .. Len(mine) PROVE more[d0 + j] = c0 + b[j]
        <4>1. d0 + j \in 0 .. d1 /\ (d0 + j) - d0 = j
          BY <2>9
        <4>2. CASE j = 0
          <5>1. d0 + j = d0 /\ d0 <= d0
            BY <4>2
          <5>2. more[d0 + j] = e[d0]
            BY <4>1, <5>1
          <5> HIDE DEF more
          <5> QED BY <2>10, <2>11, <4>2, <5>2
        <4>3. CASE j # 0
          <5>1. ~(d0 + j <= d0)
            BY <2>9, <4>3
          <5> QED BY <4>1, <5>1
        <4> QED BY <4>2, <4>3
      <3> QED BY <3>1, <3>2
    <2> HIDE DEF more, Said
    <2>13. ASSUME NEW i \in 0 .. d1
           PROVE  i \in 0 .. d0 \/ \E j \in 1 .. Len(mine) : i = d0 + j
      <3>1. CASE i <= d0
        BY <3>1
      <3>2. CASE ~(i <= d0)
        <4>1. i - d0 \in 1 .. Len(mine) /\ i = d0 + (i - d0)
          BY <2>9, <3>2
        <4> QED BY <4>1
      <3> QED BY <3>1, <3>2
    <2>14. ASSUME NEW i \in 0 .. d1 PROVE more[i] \in 0 .. c1
      <3>1. CASE i \in 0 .. d0
        <4>1. more[i] = e[i] /\ e[i] \in 0 .. c0
          BY <2>11, <2>12, <3>1
        <4> QED BY <2>8, <4>1
      <3>2. ASSUME NEW j \in 1 .. Len(mine), i = d0 + j PROVE more[i] \in 0 .. c1
        <4>1. j \in 0 .. Len(mine)
          OBVIOUS
        <4>2. more[i] = c0 + b[j] /\ b[j] \in 0 .. Len(scene)
          BY <2>10, <2>12, <3>2, <4>1
        <4> QED BY <2>8, <4>2
      <3> QED BY <2>13, <3>1, <3>2
    <2>15. ASSUME NEW i \in 1 .. d1
           PROVE  Piece(all[i].words, spoken, more[i - 1], more[i])
      <3>1. CASE i \in 0 .. d0
        <4>1. i \in 1 .. d0 /\ i - 1 \in 0 .. d0
          BY <3>1
        <4>2. more[i] = e[i] /\ more[i - 1] = e[i - 1]
          BY <2>12, <3>1, <4>1
        <4> QED BY <2>11, <4>1, <4>2
      <3>2. ASSUME NEW j \in 1 .. Len(mine), i = d0 + j
            PROVE  Piece(all[i].words, spoken, more[i - 1], more[i])
        <4>1. j \in 0 .. Len(mine) /\ j - 1 \in 0 .. Len(mine) /\ i - 1 = d0 + (j - 1)
          BY <3>2
        <4>2. more[i] = c0 + b[j] /\ more[i - 1] = c0 + b[j - 1]
          BY <2>12, <3>2, <4>1
        <4>3. all[i] = mine[j]
          BY <2>9, <3>2
        <4>4. PICK x \in Nat, y \in Nat : x = b[j - 1] /\ y = b[j] /\ y <= Len(scene)
          <5>1. b[j - 1] \in 0 .. Len(scene) /\ b[j] \in 0 .. Len(scene)
            BY <2>10, <4>1
          <5> QED BY <5>1
        <4>5. PICK part \in Seq(Timing) : part = mine[j].words
          <5>1. mine[j] \in Cue
            OBVIOUS
          <5> QED BY <5>1 DEF Cue
        <4>6. Piece(part, scene, x, y)
          BY <2>10, <4>4, <4>5
        <4>7. Piece(part, spoken, c0 + x, c0 + y)
          BY <1>2, <2>6, <4>4, <4>6, PieceWithin
        <4> HIDE DEF Piece
        <4> QED BY <4>2, <4>3, <4>4, <4>5, <4>7
      <3>3. i \in 0 .. d1
        OBVIOUS
      <3> QED BY <2>13, <3>1, <3>2, <3>3
    <2>16. more[0] = 0 /\ more[d1] = c1
      <3>1. 0 \in 0 .. d0 /\ Len(mine) \in 0 .. Len(mine) /\ d0 + Len(mine) = d1
        BY <2>9
      <3>2. more[0] = e[0] /\ more[d1] = c0 + b[Len(mine)]
        BY <2>12, <3>1
      <3> QED BY <2>8, <2>10, <2>11, <3>2
    <2>17. Said(more, k + 1)
      <3> HIDE DEF Piece
      <3> QED BY <2>5, <2>14, <2>15, <2>16 DEF Said
    <2> QED BY <2>1, <2>17
  <1> HIDE DEF Good, Said
  <1>9. \A k \in 0 .. n : k \in Good
    BY <1>4, <1>7, <1>8, Upwards
  <1>10. PICK e : Said(e, n)
    <2>1. n \in 0 .. n /\ n <= n
      BY <1>4
    <2> QED BY <1>9, <2>1 DEF Good
  <1> DEFINE texts == [i \in DOMAIN all |-> all[i].words]
  <1>11. DOMAIN all = 1 .. Len(all) /\ \A i \in 1 .. Len(all) : all[i].words \in Seq(Timing)
    <2>1. \A i \in 1 .. Len(all) : all[i] \in Cue
      BY <1>3
    <2> QED BY <1>3, <2>1 DEF Cue
  <1>12. /\ texts \in Seq(Seq(Timing)) /\ Len(texts) = Len(all)
         /\ \A i \in 1 .. Len(all) : texts[i] = all[i].words
    <2>1. texts = [i \in 1 .. Len(all) |-> all[i].words]
      BY <1>11
    <2>2. texts \in [1 .. Len(all) -> Seq(Timing)]
      BY <1>11, <2>1
    <2> QED BY <1>4, <2>1, <2>2
  <1>13. Cuts(e, texts, spoken) /\ e[Len(texts)] = Len(spoken)
    <2> HIDE DEF Piece, texts
    <2> QED BY <1>2, <1>3, <1>10, <1>12 DEF Said, Cuts
  <1>14. FlattenSeq(texts) = spoken
    <2> HIDE DEF texts
    <2> QED BY <1>2, <1>12, <1>13, FlattenWhole
  <1> QED BY <1>1, <1>14 DEF WordsOf


-----------------------------------------------------------------------------
(* Numbers that ascend within 1 to n are 1 to n. *)
LEMMA AscendingIsIdentity ==
    ASSUME NEW n \in Nat, NEW p, \A i \in 1 .. n : p[i] \in 1 .. n,
           \A i \in 1 .. n - 1 : p[i] < p[i + 1]
    PROVE  \A i \in 1 .. n : p[i] = i
  <1> DEFINE AtLeast == {m \in Nat : m \in 1 .. n => m <= p[m]}
             AtMost == {m \in Nat : m < n => p[n - m] <= n - m}
  <1>1. \A i \in 1 .. n : p[i] \in Nat
    OBVIOUS
  <1>2. 0 \in AtLeast
    OBVIOUS
  <1>3. ASSUME NEW m \in 0 .. n, m \in AtLeast, m < n PROVE m + 1 \in AtLeast
    <2>1. m + 1 \in 1 .. n /\ m + 1 \in Nat /\ p[m + 1] \in Nat /\ p[m + 1] \in 1 .. n
      BY <1>1, <1>3
    <2>2. CASE m = 0
      BY <2>1, <2>2
    <2>3. CASE m # 0
      <3>1. m \in 1 .. n - 1 /\ m \in 1 .. n
        BY <1>3, <2>3
      <3>2. p[m] < p[m + 1] /\ m <= p[m] /\ p[m] \in Nat
        BY <1>1, <1>3, <3>1
      <3> QED BY <2>1, <3>2
    <2> QED BY <2>2, <2>3
  <1>4. \A m \in 0 .. n : m \in AtLeast
    <2> HIDE DEF AtLeast
    <2> QED BY <1>2, <1>3, Upwards
  <1>5. 0 \in AtMost
    <2>1. 0 < n => p[n - 0] \in 1 .. n /\ n - 0 = n
      OBVIOUS
    <2> QED BY <2>1
  <1>6. ASSUME NEW m \in 0 .. n, m \in AtMost, m < n PROVE m + 1 \in AtMost
    <2>1. m + 1 \in Nat /\ m \in Nat
      OBVIOUS
    <2>2. SUFFICES ASSUME m + 1 < n PROVE p[n - (m + 1)] <= n - (m + 1)
      BY <2>1
    <2>3. PICK i \in 1 .. n - 1 : i = n - (m + 1)
      BY <2>1, <2>2
    <2>4. n - m = i + 1 /\ i \in 1 .. n /\ i + 1 \in 1 .. n
      BY <2>1, <2>3
    <2>5. p[i + 1] <= i + 1
      BY <1>6, <2>4
    <2>6. p[i] < p[i + 1] /\ p[i] \in Nat /\ p[i + 1] \in Nat
      BY <1>1, <2>4
    <2>7. p[i] <= i
      BY <2>5, <2>6
    <2> QED BY <2>3, <2>7
  <1>7. \A m \in 0 .. n : m \in AtMost
    <2> HIDE DEF AtMost
    <2> QED BY <1>5, <1>6, Upwards
  <1>8. ASSUME NEW i \in 1 .. n PROVE p[i] = i
    <2>1. i <= p[i]
      BY <1>4
    <2>2. n - i \in 0 .. n /\ n - i < n /\ n - (n - i) = i
      OBVIOUS
    <2>3. p[n - (n - i)] <= n - (n - i)
      BY <1>7, <2>2
    <2>4. p[i] <= i
      BY <2>2, <2>3
    <2> QED BY <1>1, <2>1, <2>4
  <1> QED BY <1>8

(* Words that take time and do not run into each other: Orderly, for any   *)
(* two of them.                                                            *)
Apart(ws) ==
    /\ \A i \in 1 .. Len(ws) : ws[i].start < ws[i].end
    /\ \A i, j \in 1 .. Len(ws) : i < j => ws[i].end <= ws[j].start

LEMMA TimesTyped ==
    ASSUME NEW ws \in Seq(Timing)
    PROVE  \A i \in 1 .. Len(ws) : ws[i].start \in Nat /\ ws[i].end \in Nat
  <1> SUFFICES ASSUME NEW i \in 1 .. Len(ws) PROVE ws[i].start \in Nat /\ ws[i].end \in Nat
    OBVIOUS
  <1>1. ws[i] \in Timing
    OBVIOUS
  <1> QED BY <1>1 DEF Timing

LEMMA OrderlyApart ==
    ASSUME words \in Seq(Timing), Orderly
    PROVE  Apart(words)
  <1> DEFINE n == Len(words)
             Good == {l \in Nat : l \in 1 .. n =>
                        \A m \in 1 .. n : m < l => words[m].end <= words[l].start}
  <1>1. n \in Nat /\ DOMAIN words = 1 .. n
    OBVIOUS
  <1>2. \A i \in 1 .. n : words[i].start \in Nat /\ words[i].end \in Nat
    BY TimesTyped
  <1>3. \A i \in 1 .. n : /\ words[i].start < words[i].end
                          /\ i > 1 => words[i - 1].end <= words[i].start
    BY <1>1 DEF Orderly
  <1>4. 0 \in Good
    OBVIOUS
  <1>5. ASSUME NEW l \in 0 .. n, l \in Good, l < n PROVE l + 1 \in Good
    <2>1. l + 1 \in Nat /\ l + 1 \in 1 .. n /\ (l + 1) - 1 = l
      BY <1>1, <1>5
    <2>2. ASSUME NEW m \in 1 .. n, m < l + 1 PROVE words[m].end <= words[l + 1].start
      <3>1. l \in 1 .. n /\ l + 1 > 1 /\ (m = l \/ m < l)
        BY <1>1, <2>1, <2>2
      <3>2. words[l].end <= words[l + 1].start
        BY <1>3, <2>1, <3>1
      <3>3. CASE m = l
        BY <3>2, <3>3
      <3>4. CASE m < l
        <4>1. words[m].end <= words[l].start /\ words[l].start < words[l].end
          BY <1>3, <1>5, <3>1, <3>4
        <4>2. /\ words[m].end \in Nat /\ words[l].start \in Nat /\ words[l].end \in Nat
              /\ words[l + 1].start \in Nat
          BY <1>2, <2>1, <3>1
        <4> QED BY <3>2, <4>1, <4>2
      <3> QED BY <3>1, <3>3, <3>4
    <2> QED BY <2>1, <2>2
  <1>6. \A l \in 0 .. n : l \in Good
    <2> HIDE DEF Good
    <2> QED BY <1>1, <1>4, <1>5, Upwards
  <1>7. \A i, j \in 1 .. n : i < j => words[i].end <= words[j].start
    BY <1>6
  <1> QED BY <1>3, <1>7 DEF Apart

(* The words that two scenes hold are as far apart as the narration's. *)
LEMMA SceneWordsApart ==
    ASSUME HeardInv, stage = "stored", Orderly
    PROVE  /\ \A k \in Scene : spans[k].words \in Seq(Timing) /\ Apart(spans[k].words)
           /\ \A k, l \in Scene : k < l =>
                \A i \in 1 .. Len(spans[k].words), j \in 1 .. Len(spans[l].words) :
                    spans[k].words[i].end <= spans[l].words[j].start
  <1>1. /\ words \in Seq(Timing) /\ Hears(words, heard) /\ heard \in Nat /\ Narrated
        /\ Scene = 1 .. Len(narrations) /\ cursor = Len(words) /\ Claims /\ spans \in Seq(Span)
        /\ Len(narrations) \in Nat /\ Scene = 1 .. Len(spans)
    BY StoredWords, HeardTyped, Ends DEF HeardInv, Scene
  <1>2. Apart(words)
    BY <1>1, OrderlyApart
  <1>3. \A m \in 1 .. Len(words) : words[m].offset \in Nat
    BY <1>1, OffsetsAscend
  <1>4. ASSUME NEW m \in 1 .. Len(words), NEW l \in 1 .. Len(words),
               words[m].offset < words[l].offset
        PROVE  words[m].end <= words[l].start
    <2>1. ~(l < m)
      <3>1. ASSUME l < m PROVE FALSE
        <4>1. words[l].offset < words[m].offset
          BY <1>1, <3>1, OffsetsAscend
        <4> QED BY <1>3, <1>4, <4>1
      <3> QED BY <3>1
    <2>2. m # l
      BY <1>3, <1>4
    <2>3. m < l
      BY <2>1, <2>2
    <2> QED BY <1>2, <2>3 DEF Apart
  <1>5. ASSUME NEW k \in Scene, NEW i \in 1 .. Len(spans[k].words)
        PROVE  \E m \in 1 .. Len(words) :
                 /\ spans[k].words[i] = words[m]
                 /\ EndOf(k - 1) <= words[m].offset /\ words[m].offset < EndOf(k)
    BY <1>1 DEF Claims, Placed
  <1>6. ASSUME NEW k \in Scene
        PROVE  spans[k].words \in Seq(Timing) /\ Apart(spans[k].words)
    <2>1. spans[k].words \in Seq(Timing)
      <3>1. spans[k] \in Span
        BY <1>1
      <3> QED BY <3>1 DEF Span
    <2>2. ASSUME NEW i \in 1 .. Len(spans[k].words)
          PROVE  spans[k].words[i].start < spans[k].words[i].end
      <3>1. PICK m \in 1 .. Len(words) : spans[k].words[i] = words[m]
        BY <1>5
      <3> QED BY <1>2, <3>1 DEF Apart
    <2>3. ASSUME NEW i \in 1 .. Len(spans[k].words), NEW j \in 1 .. Len(spans[k].words), i < j
          PROVE  spans[k].words[i].end <= spans[k].words[j].start
      <3>1. PICK m \in 1 .. Len(words) : spans[k].words[i] = words[m]
        BY <1>5
      <3>2. PICK l \in 1 .. Len(words) : spans[k].words[j] = words[l]
        BY <1>5
      <3>3. spans[k].words[i].offset < spans[k].words[j].offset
        BY <1>1, <2>3 DEF Claims, Ascending
      <3> QED BY <1>4, <3>1, <3>2, <3>3
    <2> QED BY <2>1, <2>2, <2>3 DEF Apart
  <1>7. ASSUME NEW k \in Scene, NEW l \in Scene, k < l,
               NEW i \in 1 .. Len(spans[k].words), NEW j \in 1 .. Len(spans[l].words)
        PROVE  spans[k].words[i].end <= spans[l].words[j].start
    <2>1. PICK m \in 1 .. Len(words) :
            spans[k].words[i] = words[m] /\ words[m].offset < EndOf(k)
      BY <1>5
    <2>2. PICK q \in 1 .. Len(words) :
            spans[l].words[j] = words[q] /\ EndOf(l - 1) <= words[q].offset
      BY <1>5
    <2>3. k \in 0 .. Len(narrations) /\ l - 1 \in 0 .. Len(narrations) /\ k <= l - 1
      BY <1>1, <1>7
    <2>4. EndOf(k) \in Nat /\ EndOf(l - 1) \in Nat /\ EndOf(k) <= EndOf(l - 1)
      BY <1>1, <2>3, Ends
    <2>5. words[m].offset < words[q].offset
      <3>1. words[m].offset \in Nat /\ words[q].offset \in Nat
        BY <1>3
      <3> QED BY <2>1, <2>2, <2>4, <3>1
    <2> QED BY <1>4, <2>1, <2>2, <2>5
  <1> QED BY <1>6, <1>7


(* The spans are the scenes' words, and no stored scene is without.        *)
Shaped ==
    /\ \A k \in Scene : spans[k] = SpanOf(spans[k].words)
    /\ stage = "stored" => \A k \in Scene : spans[k].words # <<>>

LEMMA OrderlySpans ==
    ASSUME HeardInv, Shaped, stage = "stored", Orderly
    PROVE  /\ \A k \in Scene :
                /\ spans[k].start \in Nat /\ spans[k].end \in Nat
                /\ spans[k].start < spans[k].end
                /\ \A i \in 1 .. Len(spans[k].words) : spans[k].words[i].end <= spans[k].end
           /\ \A k, l \in Scene : k < l => spans[k].end <= spans[l].start
  <1>1. /\ \A k \in Scene : spans[k].words \in Seq(Timing) /\ Apart(spans[k].words)
        /\ \A k, l \in Scene : k < l =>
             \A i \in 1 .. Len(spans[k].words), j \in 1 .. Len(spans[l].words) :
                 spans[k].words[i].end <= spans[l].words[j].start
    BY SceneWordsApart
  <1>2. ASSUME NEW k \in Scene
        PROVE  /\ 1 \in 1 .. Len(spans[k].words)
               /\ Len(spans[k].words) \in 1 .. Len(spans[k].words)
               /\ spans[k].start = spans[k].words[1].start
               /\ spans[k].end = spans[k].words[Len(spans[k].words)].end
    <2>1. spans[k].words # <<>> /\ spans[k] = SpanOf(spans[k].words)
      BY DEF Shaped
    <2>2. PICK ws \in Seq(Timing) : ws = spans[k].words
      BY <1>1
    <2>3. 1 \in 1 .. Len(ws) /\ Len(ws) \in 1 .. Len(ws)
      BY <2>1, <2>2
    <2>4. SpanOf(ws) = [start |-> ws[1].start, end |-> ws[Len(ws)].end, words |-> ws]
      BY <2>1, <2>2 DEF SpanOf
    <2> QED BY <2>1, <2>2, <2>3, <2>4
  <1>3. ASSUME NEW k \in Scene
        PROVE  /\ spans[k].start \in Nat /\ spans[k].end \in Nat
               /\ spans[k].start < spans[k].end
               /\ \A i \in 1 .. Len(spans[k].words) : spans[k].words[i].end <= spans[k].end
    <2>1. PICK ws \in Seq(Timing) : ws = spans[k].words
      BY <1>1
    <2>2. PICK n \in Nat : n = Len(ws)
      BY <2>1
    <2>3. /\ 1 \in 1 .. n /\ n \in 1 .. n
          /\ spans[k].start = ws[1].start /\ spans[k].end = ws[n].end
      BY <1>2, <2>1, <2>2
    <2>4. /\ \A i \in 1 .. n : ws[i].start \in Nat /\ ws[i].end \in Nat
          /\ \A i \in 1 .. n : ws[i].start < ws[i].end
          /\ \A i, j \in 1 .. n : i < j => ws[i].end <= ws[j].start
      BY <1>1, <2>1, <2>2, TimesTyped DEF Apart
    <2>5. ASSUME NEW i \in 1 .. n PROVE ws[i].end <= ws[n].end
      <3>1. CASE i = n
        BY <2>4, <3>1
      <3>2. CASE i # n
        <4>1. ws[i].end <= ws[n].start /\ ws[n].start < ws[n].end
          BY <2>3, <2>4, <3>2
        <4>2. ws[i].end \in Nat /\ ws[n].start \in Nat /\ ws[n].end \in Nat
          BY <2>3, <2>4
        <4> QED BY <4>1, <4>2
      <3> QED BY <3>1, <3>2
    <2>6. ws[1].start < ws[n].end
      <3>1. ws[1].start < ws[1].end /\ ws[1].end <= ws[n].end
        BY <2>3, <2>4, <2>5
      <3>2. ws[1].start \in Nat /\ ws[1].end \in Nat /\ ws[n].end \in Nat
        BY <2>3, <2>4
      <3> QED BY <3>1, <3>2
    <2>7. ws[1].start \in Nat /\ ws[n].end \in Nat
      BY <2>3, <2>4
    <2> QED BY <2>1, <2>2, <2>3, <2>5, <2>6, <2>7
  <1>4. ASSUME NEW k \in Scene, NEW l \in Scene, k < l PROVE spans[k].end <= spans[l].start
    BY <1>1, <1>2, <1>4
  <1> QED BY <1>3, <1>4

LEMMA OrderlySort ==
    ASSUME HeardInv, Shaped, stage = "stored", Orderly,
           NEW p \in [Scene -> Scene], ByStart(p)
    PROVE  Checked(p) /\ \A i \in Scene : p[i] = i
  <1> DEFINE n == Len(spans)
  <1>1. spans \in Seq(Span) /\ n \in Nat /\ Scene = 1 .. n
    BY HeardTyped DEF Scene
  <1>2. Len(p) = n /\ DOMAIN p = 1 .. n /\ \A i \in 1 .. n : p[i] \in 1 .. n
    BY <1>1, OrderIsSequence
  <1>3. /\ \A k \in 1 .. n : /\ spans[k].start \in Nat /\ spans[k].end \in Nat
                             /\ spans[k].start < spans[k].end
        /\ \A k, l \in 1 .. n : k < l => spans[k].end <= spans[l].start
    BY <1>1, OrderlySpans
  <1>4. ASSUME NEW i \in 1 .. n - 1 PROVE p[i] < p[i + 1]
    <2>1. i \in 1 .. n /\ i + 1 \in 1 .. n /\ i # i + 1 /\ i < i + 1
      BY <1>1
    <2>2. PICK a \in 1 .. n, b \in 1 .. n : a = p[i] /\ b = p[i + 1]
      BY <1>2, <2>1
    <2>3. a # b
      BY <1>2, <2>1, <2>2 DEF ByStart
    <2>4. \/ spans[a].start < spans[b].start
          \/ spans[a].start = spans[b].start /\ a < b
      BY <1>2, <2>1, <2>2 DEF ByStart
    <2>5. ~(b < a)
      <3> SUFFICES ASSUME b < a PROVE FALSE
        OBVIOUS
      <3>1. spans[b].end <= spans[a].start /\ spans[b].start < spans[b].end
        BY <1>3
      <3>2. spans[b].end \in Nat /\ spans[a].start \in Nat /\ spans[b].start \in Nat
        BY <1>3
      <3> QED BY <2>4, <3>1, <3>2
    <2> QED BY <2>2, <2>3, <2>5
  <1>5. \A i \in 1 .. n : p[i] = i
    BY <1>1, <1>2, <1>4, AscendingIsIdentity
  <1>6. ~Empty(p)
    <2>1. ASSUME NEW i \in 1 .. n PROVE ~(spans[p[i]].end <= spans[p[i]].start)
      BY <1>3, <1>5
    <2> QED BY <1>2, <2>1 DEF Empty
  <1>7. ~Overlapping(p)
    <2>1. ASSUME NEW i \in 1 .. n - 1 PROVE ~(spans[p[i + 1]].start < spans[p[i]].end)
      <3>1. i \in 1 .. n /\ i + 1 \in 1 .. n /\ i < i + 1
        BY <1>1
      <3>2. p[i] = i /\ p[i + 1] = i + 1
        BY <1>5, <3>1
      <3>3. spans[i].end <= spans[i + 1].start /\ spans[i].end \in Nat
            /\ spans[i + 1].start \in Nat
        BY <1>3, <3>1
      <3> QED BY <3>2, <3>3
    <2> QED BY <1>2, <2>1 DEF Overlapping
  <1> QED BY <1>1, <1>5, <1>6, <1>7 DEF Checked

(* The times of a scene's cues are times of its words, in order.           *)
LEMMA CueTimes ==
    ASSUME NEW scene \in Seq(Timing), Apart(scene), NEW cues \in Seq(Cue),
           NEW cut, CutUp(cut, cues, scene), NEW i \in 1 .. Len(cues)
    PROVE  /\ cues[i].start < cues[i].end
           /\ \E a \in 1 .. Len(scene) : cues[i].start = scene[a].start
           /\ \E b \in 1 .. Len(scene) : cues[i].end = scene[b].end
           /\ i > 1 => cues[i - 1].end <= cues[i].start
  <1>1. Len(cues) \in Nat /\ Len(scene) \in Nat
        /\ i \in 0 .. Len(cues) /\ i - 1 \in 0 .. Len(cues)
    OBVIOUS
  <1>2. /\ cut[i - 1] \in 0 .. Len(scene) /\ cut[i] \in 0 .. Len(scene)
        /\ cut[i - 1] < cut[i]
        /\ cues[i].start = scene[cut[i - 1] + 1].start
        /\ cues[i].end = scene[cut[i]].end
    BY <1>1 DEF CutUp
  <1>3. PICK x \in Nat, y \in Nat : x = cut[i - 1] /\ y = cut[i]
    BY <1>1, <1>2
  <1>4. x + 1 \in 1 .. Len(scene) /\ y \in 1 .. Len(scene) /\ x < y
    BY <1>1, <1>2, <1>3
  <1>5. /\ \A m \in 1 .. Len(scene) : scene[m].start \in Nat /\ scene[m].end \in Nat
        /\ \A m \in 1 .. Len(scene) : scene[m].start < scene[m].end
        /\ \A m, l \in 1 .. Len(scene) : m < l => scene[m].end <= scene[l].start
    BY TimesTyped DEF Apart
  <1>6. scene[x + 1].start < scene[y].end
    <2>1. CASE x + 1 = y
      BY <1>4, <1>5, <2>1
    <2>2. CASE x + 1 # y
      <3>1. x + 1 < y
        BY <1>4, <2>2
      <3>2. /\ scene[x + 1].start < scene[x + 1].end
            /\ scene[x + 1].end <= scene[y].start /\ scene[y].start < scene[y].end
        BY <1>4, <1>5, <3>1
      <3>3. PICK a \in Nat, b \in Nat, c \in Nat, d \in Nat :
              /\ a = scene[x + 1].start /\ b = scene[x + 1].end
              /\ c = scene[y].start /\ d = scene[y].end
        BY <1>4, <1>5
      <3>4. a < b /\ b <= c /\ c < d
        BY <3>2, <3>3
      <3>5. a < d
        BY <3>4
      <3> QED BY <3>3, <3>5
    <2> QED BY <2>1, <2>2
  <1>7. i > 1 => cues[i - 1].end <= cues[i].start
    <2> SUFFICES ASSUME i > 1 PROVE cues[i - 1].end <= cues[i].start
      OBVIOUS
    <2>1. i - 1 \in 1 .. Len(cues) /\ (i - 1) - 1 \in 0 .. Len(cues)
      BY <1>1
    <2>2. cut[(i - 1) - 1] < cut[i - 1] /\ cues[i - 1].end = scene[cut[i - 1]].end
          /\ cut[(i - 1) - 1] \in 0 .. Len(scene)
      BY <2>1 DEF CutUp
    <2>3. x \in 1 .. Len(scene) /\ x < x + 1
      <3>1. PICK w \in Nat : w = cut[(i - 1) - 1]
        BY <2>2
      <3>2. w < x /\ x <= Len(scene)
        BY <1>2, <1>3, <2>2, <3>1
      <3> QED BY <1>1, <3>1, <3>2
    <2>4. scene[x].end <= scene[x + 1].start
      BY <1>4, <1>5, <2>3
    <2> QED BY <1>2, <1>3, <2>2, <2>4
  <1> QED BY <1>2, <1>3, <1>4, <1>6, <1>7


(* The words that are captioned and the cues made of them, scene by scene. *)
SaidBy(carded) == [k \in Scene |-> IF k \in carded THEN <<>> ELSE spans[k].words]
CuedBy(carded) ==
    [k \in Scene |-> IF k \in carded THEN <<>> ELSE GroupIntoCues(spans[k].words)]

LEMMA ScenesCued ==
    ASSUME spans \in Seq(Span), NEW carded
    PROVE  /\ SaidBy(carded) \in Seq(Seq(Timing)) /\ CuedBy(carded) \in Seq(Seq(Cue))
           /\ Len(SaidBy(carded)) = Len(spans) /\ Len(CuedBy(carded)) = Len(spans)
           /\ AllCut(CuedBy(carded), SaidBy(carded))
  <1> DEFINE n == Len(spans)
  <1>1. n \in Nat /\ Scene = 1 .. n
    BY DEF Scene
  <1>2. ASSUME NEW k \in 1 .. n
        PROVE  /\ SaidBy(carded)[k] \in Seq(Timing) /\ CuedBy(carded)[k] \in Seq(Cue)
               /\ \E cut : CutUp(cut, CuedBy(carded)[k], SaidBy(carded)[k])
    <2>1. CASE k \in carded
      <3>1. SaidBy(carded)[k] = <<>> /\ CuedBy(carded)[k] = <<>>
        BY <1>1, <2>1 DEF SaidBy, CuedBy
      <3> DEFINE cut == [i \in 0 .. 0 |-> 0]
      <3>2. cut[0] = 0
        OBVIOUS
      <3> HIDE DEF cut
      <3>3. Len(<<>>) = 0 /\ <<>> \in Seq(Timing) /\ <<>> \in Seq(Cue)
        OBVIOUS
      <3>4. CutUp(cut, <<>>, <<>>)
        BY <3>2, <3>3 DEF CutUp
      <3> QED BY <3>1, <3>3, <3>4
    <2>2. CASE k \notin carded
      <3>1. PICK scene \in Seq(Timing) : scene = spans[k].words
        <4>1. spans[k] \in Span
          BY <1>1
        <4>2. spans[k].words \in Seq(Timing)
          BY <4>1 DEF Span
        <4> QED BY <4>2
      <3>2. SaidBy(carded)[k] = scene /\ CuedBy(carded)[k] = GroupIntoCues(scene)
        BY <1>1, <2>2, <3>1 DEF SaidBy, CuedBy
      <3>3. /\ GroupIntoCues(scene) \in Seq(Cue)
            /\ \E cut : CutUp(cut, GroupIntoCues(scene), scene)
        BY CuesOfScene
      <3> QED BY <3>2, <3>3
    <2> QED BY <2>1, <2>2
  <1>3. SaidBy(carded) = [k \in 1 .. n |-> SaidBy(carded)[k]]
    BY <1>1 DEF SaidBy
  <1>4. CuedBy(carded) = [k \in 1 .. n |-> CuedBy(carded)[k]]
    BY <1>1 DEF CuedBy
  <1>5. SaidBy(carded) \in [1 .. n -> Seq(Timing)] /\ CuedBy(carded) \in [1 .. n -> Seq(Cue)]
    BY <1>2, <1>3, <1>4
  <1>6. /\ SaidBy(carded) \in Seq(Seq(Timing)) /\ Len(SaidBy(carded)) = n
        /\ CuedBy(carded) \in Seq(Seq(Cue)) /\ Len(CuedBy(carded)) = n
    <2>1. PICK s \in [1 .. n -> Seq(Timing)] : s = SaidBy(carded)
      BY <1>5
    <2>2. PICK c \in [1 .. n -> Seq(Cue)] : c = CuedBy(carded)
      BY <1>5
    <2>3. s \in Seq(Seq(Timing)) /\ Len(s) = n
      BY <1>1
    <2>4. c \in Seq(Seq(Cue)) /\ Len(c) = n
      BY <1>1
    <2> QED BY <2>1, <2>2, <2>3, <2>4
  <1> QED BY <1>2, <1>6 DEF AllCut

LEMMA CaptionsAreCued ==
    ASSUME spans \in Seq(Span), NEW p \in [Scene -> Scene], \A i \in Scene : p[i] = i,
           NEW carded
    PROVE  CaptionsOf(p, carded) = FlattenSeq(CuedBy(carded))
  <1>1. Len(p) = Len(spans) /\ Scene = 1 .. Len(spans)
    BY OrderIsSequence DEF Scene
  <1>2. [i \in 1 .. Len(p) |->
           IF p[i] \in carded THEN <<>> ELSE GroupIntoCues(spans[p[i]].words)]
          = CuedBy(carded)
    BY <1>1 DEF CuedBy
  <1> QED BY <1>2 DEF CaptionsOf

(* The captions of an orderly narration pass their validators. *)
LEMMA OrderlyCaptions ==
    ASSUME HeardInv, Shaped, stage = "stored", Orderly, NEW carded,
           NEW total \in Nat, \A k \in Scene : spans[k].end <= total,
           NEW all, all = FlattenSeq(CuedBy(carded))
    PROVE  \A i \in DOMAIN all :
             /\ all[i].start < all[i].end
             /\ all[i].end <= total
             /\ i > 1 => all[i - 1].end <= all[i].start
  <1> DEFINE n == Len(spans)
             said == SaidBy(carded)
             cues == CuedBy(carded)
  <1>1. spans \in Seq(Span) /\ n \in Nat /\ Scene = 1 .. n
    BY HeardTyped DEF Scene
  <1>2. /\ said \in Seq(Seq(Timing)) /\ cues \in Seq(Seq(Cue))
        /\ Len(said) = n /\ Len(cues) = n
        /\ \A k \in 1 .. n : \E cut : CutUp(cut, cues[k], said[k])
    BY <1>1, ScenesCued DEF AllCut
  <1>3. PICK d : Cuts(d, cues, all) /\ d[n] = Len(all) /\ all \in Seq(Cue)
    BY <1>2, FlattenCuts
  <1>4. ASSUME NEW k \in 1 .. n
        PROVE  /\ Apart(said[k])
               /\ \A i \in 1 .. Len(said[k]) : said[k][i].end <= total
               /\ said[k] = <<>> \/ said[k] = spans[k].words
    <2>1. CASE k \in carded
      <3>1. said[k] = <<>>
        BY <1>1, <2>1 DEF SaidBy
      <3>2. Apart(<<>>) /\ Len(<<>>) = 0
        BY DEF Apart
      <3> QED BY <3>1, <3>2
    <2>2. CASE k \notin carded
      <3>1. said[k] = spans[k].words
        BY <1>1, <2>2 DEF SaidBy
      <3>2. PICK ws \in Seq(Timing) : ws = said[k]
        BY <1>2
      <3>3. Apart(ws)
        BY <1>1, <3>1, <3>2, SceneWordsApart
      <3>4. ASSUME NEW i \in 1 .. Len(ws) PROVE ws[i].end <= total
        <4>1. ws[i].end <= spans[k].end /\ spans[k].end <= total
          BY <1>1, <3>1, <3>2, OrderlySpans
        <4>2. ws[i].end \in Nat /\ spans[k].end \in Nat
          BY <1>1, TimesTyped, OrderlySpans
        <4> QED BY <4>1, <4>2
      <3> QED BY <3>1, <3>2, <3>3, <3>4
    <2> QED BY <2>1, <2>2
  <1>5. ASSUME NEW k \in 1 .. n, NEW l \in 1 .. n, k < l,
               NEW i \in 1 .. Len(said[k]), NEW j \in 1 .. Len(said[l])
        PROVE  said[k][i].end <= said[l][j].start
    <2>1. said[k] = spans[k].words /\ said[l] = spans[l].words
      <3>1. Len(<<>>) = 0
        OBVIOUS
      <3>2. said[k] # <<>> /\ said[l] # <<>>
        <4> HIDE DEF said
        <4> QED BY <3>1
      <3> QED BY <1>4, <3>2
    <2> QED BY <1>1, <1>5, <2>1, SceneWordsApart
  <1> HIDE DEF said, cues
  <1>6. ASSUME NEW k \in 1 .. n, NEW j \in 1 .. Len(cues[k])
        PROVE  /\ cues[k][j].start < cues[k][j].end
               /\ \E a \in 1 .. Len(said[k]) : cues[k][j].start = said[k][a].start
               /\ \E b \in 1 .. Len(said[k]) : cues[k][j].end = said[k][b].end
               /\ j > 1 => cues[k][j - 1].end <= cues[k][j].start
    <2>1. PICK scene \in Seq(Timing), mine \in Seq(Cue) : scene = said[k] /\ mine = cues[k]
      BY <1>2
    <2>2. PICK cut : CutUp(cut, mine, scene)
      BY <1>2, <2>1
    <2>3. Apart(scene)
      BY <1>4, <2>1
    <2> QED BY <2>1, <2>2, <2>3, CueTimes
  <1>7. Len(all) \in Nat /\ DOMAIN all = 1 .. Len(all)
    BY <1>3
  <1>8. \A i \in 1 .. Len(all) : \E k \in 1 .. n : ComesFrom(i, k, d, cues, all)
    <2>1. d[Len(cues)] = Len(all) /\ cues \in Seq(Seq(Cue)) /\ all \in Seq(Cue)
      BY <1>2, <1>3
    <2>2. \A i \in 1 .. Len(all) : \E k \in 1 .. Len(cues) : ComesFrom(i, k, d, cues, all)
      BY <1>3, <2>1, FlatPlace
    <2> QED BY <1>2, <2>2
  <1>9. \A m \in 0 .. n : d[m] \in Nat
    BY <1>2, <1>3 DEF Cuts
  <1>10. ASSUME NEW i \in 1 .. Len(all)
         PROVE  all[i].start < all[i].end /\ all[i].end <= total
    <2>1. PICK k \in 1 .. n : \E j \in 1 .. Len(cues[k]) : all[i] = cues[k][j]
      BY <1>8 DEF ComesFrom
    <2>2. PICK j \in 1 .. Len(cues[k]) : all[i] = cues[k][j]
      BY <2>1
    <2>3. PICK b \in 1 .. Len(said[k]) : cues[k][j].end = said[k][b].end
      BY <1>6
    <2> QED BY <1>4, <1>6, <2>2, <2>3
  <1>11. ASSUME NEW i \in 1 .. Len(all), i > 1 PROVE all[i - 1].end <= all[i].start
    <2>1. PICK h \in 1 .. Len(all) : h = i - 1
      BY <1>7, <1>11
    <2>2. PICK k \in 1 .. n : \E j \in 1 .. Len(cues[k]) : i = d[k - 1] + j /\ all[i] = cues[k][j]
      BY <1>8 DEF ComesFrom
    <2>3. PICK j \in 1 .. Len(cues[k]) : i = d[k - 1] + j /\ all[i] = cues[k][j]
      BY <2>2
    <2>4. PICK l \in 1 .. n :
            /\ \E q \in 1 .. Len(cues[l]) : h = d[l - 1] + q /\ all[h] = cues[l][q]
            /\ \A m \in 0 .. n : h <= d[m] => l <= m
      BY <1>2, <1>8 DEF ComesFrom
    <2>5. PICK q \in 1 .. Len(cues[l]) : h = d[l - 1] + q /\ all[h] = cues[l][q]
      BY <2>4
    <2>6. k \in 0 .. n /\ k - 1 \in 0 .. n /\ d[k - 1] \in Nat /\ d[k] \in Nat /\ j \in Nat
          /\ q \in Nat
      BY <1>1, <1>9
    <2>7. l <= k
      <3>1. Piece(cues[k], all, d[k - 1], d[k])
        BY <1>2, <1>3 DEF Cuts
      <3>2. Len(cues[k]) = d[k] - d[k - 1]
        BY <3>1 DEF Piece
      <3>3. j <= Len(cues[k]) /\ Len(cues[k]) \in Nat
        BY <2>6, <3>2
      <3>4. h <= d[k]
        <4>1. PICK x \in Nat, y \in Nat : x = d[k - 1] /\ y = d[k]
          BY <2>6
        <4>2. h = i - 1 /\ i = x + j /\ j <= y - x /\ h \in Nat /\ i \in Nat
          <5>1. j <= y - x
            BY <3>2, <3>3, <4>1
          <5>2. h \in Nat /\ i \in Nat
            BY <1>7
          <5> QED BY <2>1, <2>3, <4>1, <5>1, <5>2
        <4>3. h <= y
          BY <2>6, <4>2
        <4> QED BY <4>1, <4>3
      <3> QED BY <2>4, <2>6, <3>4
    <2>8. CASE l = k
      <3>1. PICK x \in Nat : x = d[k - 1]
        BY <2>6
      <3>2. h = i - 1 /\ i = x + j /\ h = x + q /\ q >= 1
        BY <2>1, <2>3, <2>5, <2>8, <3>1
      <3>3. j > 1 /\ q = j - 1
        BY <2>6, <3>2
      <3>4. cues[k][j - 1].end <= cues[k][j].start
        BY <1>6, <3>3
      <3>5. all[h] = cues[k][j - 1] /\ all[i] = cues[k][j]
        BY <2>3, <2>5, <2>8, <3>3
      <3> QED BY <2>1, <3>4, <3>5
    <2>9. CASE l # k
      <3>1. l < k
        BY <1>1, <2>7, <2>9
      <3>2. PICK a \in 1 .. Len(said[k]) : cues[k][j].start = said[k][a].start
        BY <1>6
      <3>3. PICK b \in 1 .. Len(said[l]) : cues[l][q].end = said[l][b].end
        BY <1>6
      <3>4. said[l][b].end <= said[k][a].start
        BY <1>5, <3>1
      <3> QED BY <2>1, <2>3, <2>5, <3>2, <3>3, <3>4
    <2> QED BY <2>8, <2>9
  <1> QED BY <1>7, <1>10, <1>11


LEMMA StoredTyped ==
    ASSUME HeardInv, stage = "stored", NEW p \in [Scene -> Scene]
    PROVE  /\ spans \in Seq(Span) /\ Len(spans) \in Nat \ {0} /\ Scene = 1 .. Len(spans)
           /\ Len(p) = Len(spans) /\ Len(p) \in 1 .. Len(p) /\ p[Len(p)] \in Scene
           /\ spans[p[Len(p)]].end \in Nat
  <1>1. /\ spans \in Seq(Span) /\ Len(spans) \in Nat /\ Scene = 1 .. Len(spans)
        /\ Scene = 1 .. Len(narrations) /\ Len(narrations) \in Nat \ {0}
    BY HeardTyped, StoredWords, Ends DEF Scene
  <1>2. Len(spans) = Len(narrations)
    BY DEF HeardInv, Inv, VoicedFirst
  <1>3. /\ Len(p) = Len(spans)
        /\ \A i \in 1 .. Len(p) : p[i] \in DOMAIN spans /\ spans[p[i]].end \in Nat
    BY <1>1, OrderIsSequence
  <1>4. Len(p) \in 1 .. Len(p)
    BY <1>1, <1>2, <1>3
  <1> QED BY <1>1, <1>2, <1>3, <1>4

(* What the compiler makes of an orderly narration is accepted.            *)
LEMMA OrderlyAccepted ==
    ASSUME HeardInv, Shaped, stage = "stored", Orderly,
           NEW p \in [Scene -> Scene], ByStart(p), NEW carded, NEW configured \in Int,
           NEW tail \in Nat, NEW duration \in Nat \ {0},
           NEW result, result = Compiled(p, carded, configured, tail, duration)
    PROVE  Accepted(result, duration)
  <1> DEFINE n == Len(spans)
  <1>1. /\ spans \in Seq(Span) /\ n \in Nat \ {0} /\ Scene = 1 .. n
        /\ Len(p) = n /\ n \in 1 .. n /\ p[n] \in Scene /\ spans[p[n]].end \in Nat
    BY StoredTyped
  <1>2. Checked(p) /\ \A i \in Scene : p[i] = i
    BY OrderlySort
  <1>3. PICK total \in Nat : /\ total = TotalOf(p, duration, tail)
                             /\ duration <= total /\ spans[p[n]].end <= total /\ total > 0
    <2>1. PICK last \in Nat : last = spans[p[n]].end
      BY <1>1
    <2>2. PICK whole : whole = (IF last < duration THEN duration ELSE last) + tail
      OBVIOUS
    <2>3. whole \in Nat /\ duration <= whole /\ last <= whole /\ whole > 0
      BY <2>2
    <2>4. TotalOf(p, duration, tail) = whole
      BY <1>1, <2>1, <2>2 DEF TotalOf
    <2> QED BY <2>1, <2>3, <2>4
  <1>4. /\ result.total = total
        /\ result.clips = Clips(p, configured, total)
        /\ result.transitions = Handovers(p, configured)
        /\ result.captions = CaptionsOf(p, carded)
    BY <1>3 DEF Compiled
  <1>5. \A k \in Scene : /\ spans[k].start \in Nat /\ spans[k].end \in Nat
                         /\ spans[k].start < spans[k].end
    BY OrderlySpans
  <1>6. PICK clips : clips = Clips(p, configured, total)
    OBVIOUS
  <1>7. /\ DOMAIN clips = 1 .. n
        /\ clips[1].start = 0 /\ clips[n].end = total
        /\ \A i \in 1 .. n :
             /\ clips[i].scene = i
             /\ clips[i].start \in Int /\ clips[i].end \in Int
             /\ clips[i].start <= spans[i].start
             /\ spans[i].end <= clips[i].end
        /\ \A i, j \in 1 .. n : i < j => spans[i].end <= clips[j].start
    <2>1. total \in Int /\ Len(p) > 0 /\ spans[p[Len(p)]].end <= total
      BY <1>1, <1>3
    <2>2. /\ DOMAIN clips = 1 .. Len(p)
          /\ clips[1].start = 0 /\ clips[Len(p)].end = total
          /\ \A i \in 1 .. Len(p) :
               /\ clips[i].scene = p[i]
               /\ clips[i].start \in Int /\ clips[i].end \in Int
               /\ clips[i].start <= spans[p[i]].start
               /\ spans[p[i]].end <= clips[i].end
          /\ \A i, j \in 1 .. Len(p) : i < j => spans[p[i]].end <= clips[j].start
      BY <1>2, <1>6, <2>1, ClipBounds, SMTT(30)
    <2>3. PICK m \in Nat : m = n /\ m = Len(p)
      BY <1>1
    <2>4. \A i \in 1 .. m : p[i] = i
      BY <1>1, <1>2, <2>3
    <2> HIDE DEF n
    <2>5. /\ DOMAIN clips = 1 .. m
          /\ clips[1].start = 0 /\ clips[m].end = total
          /\ \A i \in 1 .. m :
               /\ clips[i].scene = i
               /\ clips[i].start \in Int /\ clips[i].end \in Int
               /\ clips[i].start <= spans[i].start
               /\ spans[i].end <= clips[i].end
      BY <2>2, <2>3, <2>4
    <2>6. \A i, j \in 1 .. m : i < j => spans[i].end <= clips[j].start
      BY <2>2, <2>3, <2>4
    <2> QED BY <2>3, <2>5, <2>6
  <1>8. Len(clips) = n
    <2>1. clips = [i \in 1 .. Len(p) |->
        [ scene |-> p[i],
          start |-> IF i = 1 THEN 0
                    ELSE Boundary(p, i - 1) - Lead(p, configured, i - 1),
          end   |-> IF i = Len(p) THEN total
                    ELSE Boundary(p, i) + Trail(p, configured, i) ] ]
      BY <1>6 DEF Clips
    <2>2. PICK m \in Nat : m = n /\ m = Len(p)
      BY <1>1
    <2>3. clips \in [1 .. m -> [scene : {p[i] : i \in 1 .. m},
                               start : {clips[i].start : i \in 1 .. m},
                               end : {clips[i].end : i \in 1 .. m}]]
      BY <2>1, <2>2
    <2> HIDE DEF n
    <2> QED BY <2>2, <2>3
  <1>9. ASSUME NEW i \in 1 .. n
        PROVE  0 <= clips[i].start /\ clips[i].start < clips[i].end
    <2>1. clips[i].start < clips[i].end
      <3>1. /\ clips[i].start \in Int /\ clips[i].end \in Int
            /\ clips[i].start <= spans[i].start /\ spans[i].end <= clips[i].end
        BY <1>7
      <3>2. spans[i].start \in Nat /\ spans[i].end \in Nat /\ spans[i].start < spans[i].end
        BY <1>1, <1>5
      <3> QED BY <3>1, <3>2
    <2>2. CASE i = 1
      BY <1>7, <2>1, <2>2
    <2>3. CASE i # 1
      <3>1. i - 1 \in 1 .. n /\ i - 1 < i
        BY <1>1, <2>3
      <3>2. spans[i - 1].end <= clips[i].start /\ clips[i].start \in Int
        BY <1>7, <3>1
      <3>3. spans[i - 1].end \in Nat
        BY <1>1, <1>5, <3>1
      <3> QED BY <2>1, <3>2, <3>3
    <2> QED BY <2>2, <2>3
  <1>10. ClipsAccepted(result)
    <2>1. \A i \in 1 .. n - 1 : clips[i].scene <= clips[i + 1].scene
      <3> SUFFICES ASSUME NEW i \in 1 .. n - 1 PROVE clips[i].scene <= clips[i + 1].scene
        OBVIOUS
      <3>1. i \in 1 .. n /\ i + 1 \in 1 .. n /\ i <= i + 1
        BY <1>1
      <3>2. clips[i].scene = i /\ clips[i + 1].scene = i + 1
        BY <1>7, <3>1
      <3> QED BY <3>1, <3>2
    <2> QED BY <1>4, <1>6, <1>7, <1>8, <1>9, <2>1 DEF ClipsAccepted
  <1>11. PICK transitions : transitions = Handovers(p, configured)
    OBVIOUS
  <1>12. /\ DOMAIN transitions = 1 .. n - 1
         /\ \A i \in 1 .. n - 1 :
              /\ transitions[i].start = clips[i + 1].start
              /\ transitions[i].start \in Int
              /\ transitions[i].start + transitions[i].duration = clips[i].end
              /\ transitions[i].duration \in Nat
    <2>1. /\ DOMAIN transitions = 1 .. Len(p) - 1
          /\ \A i \in 1 .. Len(p) - 1 :
               /\ transitions[i].start = clips[i + 1].start
               /\ transitions[i].start \in Int
               /\ transitions[i].start + transitions[i].duration = clips[i].end
      BY <1>2, <1>6, <1>11, HandoverIsOverlap
    <2>2. \A i \in 1 .. Len(p) - 1 : Blend(p, configured, i) \in Nat
      BY <1>2, BlendInPause
    <2>3. \A i \in 1 .. Len(p) - 1 : transitions[i].duration = Blend(p, configured, i)
      BY <1>11 DEF Handovers
    <2>4. PICK m \in Nat : m = n /\ m = Len(p)
      BY <1>1
    <2> HIDE DEF n
    <2>5. \A i \in 1 .. m - 1 : transitions[i].duration \in Nat
      BY <2>2, <2>3, <2>4
    <2> QED BY <2>1, <2>4, <2>5
  <1>13. Len(transitions) = n - 1
    <2>1. transitions = [i \in 1 .. Len(p) - 1 |->
        [ start    |-> Boundary(p, i) - Lead(p, configured, i),
          duration |-> Blend(p, configured, i) ] ]
      BY <1>11 DEF Handovers
    <2>2. n - 1 \in Nat
      BY <1>1
    <2> QED BY <1>1, <2>1, <2>2
  <1>14. ASSUME NEW i \in 1 .. n - 1
         PROVE  /\ transitions[i].start >= 0 /\ transitions[i].duration >= 0
                /\ clips[i].end - clips[i + 1].start = transitions[i].duration
                /\ transitions[i].start = clips[i + 1].start
    <2>1. i + 1 \in 1 .. n
      BY <1>1
    <2>2. PICK s \in Int, b \in Nat : s = transitions[i].start /\ b = transitions[i].duration
      BY <1>12
    <2>3. s = clips[i + 1].start /\ s + b = clips[i].end /\ 0 <= s
      BY <1>9, <1>12, <2>1, <2>2
    <2> QED BY <2>2, <2>3
  <1>15. HandoversAccepted(result)
    BY <1>4, <1>6, <1>8, <1>11, <1>12, <1>13, <1>14 DEF HandoversAccepted
  <1>16. \A k \in Scene : spans[k].end <= total
    <2> SUFFICES ASSUME NEW k \in Scene PROVE spans[k].end <= total
      OBVIOUS
    <2>1. n \in Scene /\ p[n] = n
      BY <1>1, <1>2
    <2>2. CASE k = n
      BY <1>3, <2>1, <2>2
    <2>3. CASE k # n
      <3> HIDE DEF n
      <3>1. k < n
        <4>1. k \in 1 .. n /\ n \in Nat
          BY <1>1
        <4> QED BY <4>1, <2>3
      <3>2. spans[k].end <= spans[n].start /\ spans[n].start < spans[n].end
            /\ spans[n].end <= total
        BY <1>3, <1>5, <2>1, <3>1, OrderlySpans
      <3>3. spans[k].end \in Nat /\ spans[n].start \in Nat /\ spans[n].end \in Nat
        BY <1>5, <2>1
      <3> QED BY <3>2, <3>3
    <2> QED BY <2>2, <2>3
  <1>17. CaptionsAccepted(result)
    <2>1. PICK all : all = FlattenSeq(CuedBy(carded))
      OBVIOUS
    <2>2. result.captions = all
      BY <1>1, <1>2, <1>4, <2>1, CaptionsAreCued
    <2>3. \A i \in DOMAIN all :
             /\ all[i].start < all[i].end
             /\ all[i].end <= total
             /\ i > 1 => all[i - 1].end <= all[i].start
      BY <1>16, <2>1, OrderlyCaptions
    <2> QED BY <1>4, <2>2, <2>3 DEF CaptionsAccepted
  <1> QED BY <1>3, <1>4, <1>10, <1>15, <1>17 DEF Accepted

(* An accepted timeline shows the scenes in order: its clips do not go     *)
(* backwards, and no two are of the same scene.                            *)
LEMMA AcceptedOrder ==
    ASSUME HeardInv, stage = "stored", NEW p \in [Scene -> Scene], ByStart(p),
           NEW result, NEW configured, NEW total, result.clips = Clips(p, configured, total),
           ClipsAccepted(result)
    PROVE  /\ \A i \in Scene : p[i] = i
           /\ DOMAIN result.clips = Scene /\ \A i \in Scene : result.clips[i].scene = i
  <1> DEFINE n == Len(spans)
  <1>1. n \in Nat \ {0} /\ Scene = 1 .. n /\ Len(p) = n
    BY StoredTyped
  <1>2. PICK clips : clips = result.clips
    OBVIOUS
  <1>3. clips = [i \in 1 .. n |->
        [ scene |-> p[i],
          start |-> IF i = 1 THEN 0
                    ELSE Boundary(p, i - 1) - Lead(p, configured, i - 1),
          end   |-> IF i = n THEN total
                    ELSE Boundary(p, i) + Trail(p, configured, i) ] ]
    BY <1>1, <1>2 DEF Clips
  <1>4. Len(clips) = n /\ DOMAIN clips = 1 .. n /\ \A i \in 1 .. n : clips[i].scene = p[i]
    <2>1. PICK m \in Nat : m = n
      BY <1>1
    <2>2. clips \in [1 .. m -> [scene : {p[i] : i \in 1 .. m},
                               start : {clips[i].start : i \in 1 .. m},
                               end : {clips[i].end : i \in 1 .. m}]]
      BY <1>3, <2>1
    <2>3. \A i \in 1 .. m : clips[i].scene = p[i]
      BY <1>3, <2>1
    <2> HIDE DEF n
    <2> QED BY <2>1, <2>2, <2>3
  <1>5. \A i \in 1 .. n - 1 : clips[i].scene <= clips[i + 1].scene
    BY <1>2, <1>4 DEF ClipsAccepted
  <1>6. DOMAIN p = 1 .. n /\ \A i \in 1 .. n : p[i] \in 1 .. n
    BY <1>1
  <1>7. ASSUME NEW i \in 1 .. n - 1 PROVE p[i] < p[i + 1]
    <2>1. i \in 1 .. n /\ i + 1 \in 1 .. n /\ i # i + 1
      BY <1>1
    <2>2. p[i] <= p[i + 1]
      BY <1>4, <1>5, <2>1
    <2>3. p[i] # p[i + 1]
      BY <1>6, <2>1 DEF ByStart
    <2>4. p[i] \in Nat /\ p[i + 1] \in Nat
      BY <1>6, <2>1
    <2> QED BY <2>2, <2>3, <2>4
  <1>8. \A i \in 1 .. n : p[i] = i
    BY <1>1, <1>6, <1>7, AscendingIsIdentity
  <1> QED BY <1>1, <1>2, <1>4, <1>8


-----------------------------------------------------------------------------
(* What the compiler has said of the narration, and the invariant.         *)
Spoken == OrderlyNarrationsCompile /\ ShowsWhatIsSaid

CaptionInv == HeardInv /\ Shaped /\ Spoken

LEMMA InitCaption == Init => CaptionInv
  <1> SUFFICES ASSUME Init PROVE CaptionInv
    OBVIOUS
  <1>1. HeardInv
    BY InitHeard
  <1>2. spans = <<>> /\ stage = "listening" /\ verdict = "none"
    BY DEF Init, VoiceInit
  <1>3. Shaped
    BY <1>2 DEF Shaped, Scene
  <1>4. Spoken
    BY <1>2 DEF Spoken, OrderlyNarrationsCompile, ShowsWhatIsSaid
  <1> QED BY <1>1, <1>3, <1>4 DEF CaptionInv

LEMMA AssignShaped ==
    ASSUME HeardInv, Shaped, AssignScene
    PROVE  Shaped'
  <1>1. /\ spans \in Seq(Span) /\ Len(spans) \in Nat /\ Len(spans) < Len(narrations)
        /\ TypeOK
    BY HeardTyped DEF AssignScene, HeardInv, Inv
  <1>2. PICK claimed \in Seq(Timing) : claimed = Claimed
    BY <1>1, ClaimedTyped
  <1>3. SpanOf(claimed) \in Span /\ SpanOf(claimed).words = claimed
    <2>1. SpanOf(claimed).words = claimed
      BY Zenon DEF SpanOf
    <2> QED BY <2>1, SpanTyped
  <1>4. spans' = Append(spans, SpanOf(claimed)) /\ stage' # "stored"
    BY <1>2 DEF AssignScene
  <1>5. Scene' = 1 .. Len(spans) + 1
    BY <1>1, <1>3, <1>4 DEF Scene
  <1>6. ASSUME NEW k \in 1 .. Len(spans) + 1 PROVE spans'[k] = SpanOf(spans'[k].words)
    <2>1. CASE k = Len(spans) + 1
      <3>1. spans'[k] = SpanOf(claimed)
        BY <1>1, <1>3, <1>4, <2>1
      <3> QED BY <1>3, <3>1
    <2>2. CASE k # Len(spans) + 1
      <3>1. k \in Scene /\ spans'[k] = spans[k]
        BY <1>1, <1>3, <1>4, <2>2 DEF Scene
      <3> QED BY <3>1 DEF Shaped
    <2> QED BY <2>1, <2>2
  <1> QED BY <1>4, <1>5, <1>6 DEF Shaped, SpanOf

LEMMA VoiceShaped ==
    ASSUME HeardInv, Shaped, VoiceNext
    PROVE  Shaped'
  <1>1. CASE AssignScene
    BY <1>1, AssignShaped
  <1>2. CASE StoreNarration
    <2>1. /\ spans' = spans
          /\ stage' = "stored" => ~\E k \in DOMAIN spans : spans[k].words = <<>>
      BY <1>2 DEF StoreNarration
    <2>2. DOMAIN spans = Scene
      BY HeardTyped DEF Scene
    <2> QED BY <2>1, <2>2 DEF Shaped, Scene, SpanOf
  <1>3. ASSUME spans' = spans, stage' # "stored" PROVE Shaped'
    BY <1>3 DEF Shaped, Scene, SpanOf
  <1>4. HearSpace \/ EndOfAnswer => spans' = spans /\ stage' # "stored"
    BY DEF HearSpace, EndOfAnswer
  <1>5. ASSUME NEW char \in Char \ {Space}, NEW pause \in Pauses, NEW length \in Lengths,
               Hear(char, pause, length)
        PROVE  spans' = spans /\ stage' # "stored"
    BY <1>5, Zenon DEF Hear
  <1> QED BY <1>1, <1>2, <1>3, <1>4, <1>5 DEF VoiceNext

(* The voice works before there is a verdict.                              *)
LEMMA VoiceSpoken ==
    ASSUME HeardInv, Voice
    PROVE  Spoken'
  <1>1. stage \in {"listening", "assigning"}
    BY DEF Voice, VoiceNext, HearSpace, Hear, EndOfAnswer, AssignScene, StoreNarration
  <1>2. verdict' = "none"
    BY <1>1 DEF Voice, HeardInv, Inv, VoicedFirst
  <1> QED BY <1>2 DEF Spoken, OrderlyNarrationsCompile, ShowsWhatIsSaid

(* The compiler refuses no orderly narration, and what it accepts shows    *)
(* what is said: by the checks on the clips the sort is that of the scenes,*)
(* and the cues of each scene say its words.                               *)
LEMMA CompileSpoken ==
    ASSUME HeardInv, Shaped, NEW carded \in SUBSET Scene, NEW configured \in Transitions,
           NEW tail \in Tails, NEW padding \in Paddings,
           Compile(carded, configured, tail, padding)
    PROVE  Spoken'
  <1>1. PICK p \in [Scene -> Scene] :
          LET duration == reached + padding
              result == Compiled(p, carded, configured, tail, duration)
          IN  /\ stage = "stored" /\ duration > 0
              /\ ByStart(p)
              /\ cards' = carded
              /\ verdict' = CASE Empty(p) -> "empty span"
                              [] ~Empty(p) /\ Overlapping(p) -> "overlap"
                              [] ~Empty(p) /\ ~Overlapping(p)
                                   /\ ~Accepted(result, duration) -> "refused"
                              [] OTHER -> "compiled"
              /\ timeline' = IF verdict' = "compiled" THEN result ELSE timeline
              /\ UNCHANGED voiceVars
    BY Zenon DEF Compile
  <1>2. PICK duration : duration = reached + padding
    OBVIOUS
  <1>3. PICK result : result = Compiled(p, carded, configured, tail, duration)
    OBVIOUS
  <1>4. /\ stage = "stored" /\ duration > 0 /\ ByStart(p)
        /\ cards' = carded /\ spans' = spans /\ words' = words
        /\ verdict' = CASE Empty(p) -> "empty span"
                        [] ~Empty(p) /\ Overlapping(p) -> "overlap"
                        [] ~Empty(p) /\ ~Overlapping(p)
                             /\ ~Accepted(result, duration) -> "refused"
                        [] OTHER -> "compiled"
        /\ timeline' = IF verdict' = "compiled" THEN result ELSE timeline
    BY <1>1, <1>2, <1>3 DEF voiceVars
  <1>5. /\ configured \in Int /\ tail \in Nat /\ duration \in Nat \ {0}
        /\ spans \in Seq(Span)
    <2>1. configured \in Int /\ tail \in Nat /\ padding \in Int
      BY OptionAssumption
    <2>2. reached \in Nat /\ spans \in Seq(Span)
      BY HeardTyped
    <2>3. duration > 0
      BY <1>4
    <2>4. duration \in Nat \ {0}
      BY <1>2, <2>1, <2>2, <2>3
    <2> QED BY <2>1, <2>2, <2>4
  <1>6. Scene' = Scene
    BY <1>4 DEF Scene
  <1>7. ASSUME Orderly PROVE verdict' = "compiled"
    <2>1. ~Empty(p) /\ ~Overlapping(p)
      BY <1>4, <1>7, OrderlySort DEF Checked
    <2>2. Accepted(result, duration)
      BY <1>3, <1>4, <1>5, <1>7, OrderlyAccepted
    <2> QED BY <1>4, <2>1, <2>2
  <1>8. OrderlyNarrationsCompile'
    <2>1. Orderly' = Orderly
      BY <1>4 DEF Orderly
    <2> QED BY <1>7, <2>1 DEF OrderlyNarrationsCompile
  <1>9. ASSUME verdict' = "compiled" PROVE Accepted(result, duration) /\ timeline' = result
    BY <1>4, <1>9
  <1>10. ASSUME verdict' = "compiled"
         PROVE  /\ \A i \in Scene : p[i] = i
                /\ DOMAIN result.clips = Scene
                /\ \A i \in Scene : result.clips[i].scene = i
    <2>1. PICK total : total = TotalOf(p, duration, tail)
      OBVIOUS
    <2>2. result.clips = Clips(p, configured, total) /\ ClipsAccepted(result)
      BY <1>3, <1>9, <1>10, <2>1 DEF Compiled, Accepted
    <2>3. stage = "stored" /\ ByStart(p)
      BY <1>4
    <2>4. \A i \in Scene : p[i] = i
      BY <2>2, <2>3, AcceptedOrder
    <2>5. DOMAIN result.clips = Scene /\ \A i \in Scene : result.clips[i].scene = i
      BY <2>2, <2>3, AcceptedOrder
    <2> QED BY <2>4, <2>5
  <1>11. ASSUME verdict' = "compiled"
         PROVE  FlattenSeq(WordsOf(result.captions)) = FlattenSeq(SaidBy(carded))
    <2>1. PICK all : all = FlattenSeq(CuedBy(carded))
      OBVIOUS
    <2>2. result.captions = all
      BY <1>3, <1>5, <1>10, <1>11, <2>1, CaptionsAreCued DEF Compiled
    <2>3. PICK said, cues : said = SaidBy(carded) /\ cues = CuedBy(carded)
      OBVIOUS
    <2>4. /\ said \in Seq(Seq(Timing)) /\ cues \in Seq(Seq(Cue)) /\ Len(cues) = Len(said)
          /\ AllCut(cues, said)
      BY <1>5, <2>3, ScenesCued
    <2>5. all = FlattenSeq(cues)
      BY <2>1, <2>3
    <2>6. FlattenSeq(WordsOf(all)) = FlattenSeq(said)
      BY <2>4, <2>5, CuesAreWords
    <2> QED BY <2>2, <2>3, <2>6
  <1>12. ShowsWhatIsSaid'
    <2> SUFFICES ASSUME verdict' = "compiled"
                 PROVE  /\ \A i \in DOMAIN timeline'.clips : timeline'.clips[i].scene = i
                        /\ FlattenSeq(WordsOf(timeline'.captions))
                             = FlattenSeq([k \in Scene' |->
                                 IF k \in cards' THEN <<>> ELSE spans'[k].words])
      BY Zenon DEF ShowsWhatIsSaid, WordsOf
    <2>1. timeline' = result
      BY <1>9
    <2>2. [k \in Scene' |-> IF k \in cards' THEN <<>> ELSE spans'[k].words] = SaidBy(carded)
      BY <1>4, <1>6 DEF SaidBy
    <2>3. \A i \in DOMAIN result.clips : result.clips[i].scene = i
      BY <1>10
    <2> QED BY <1>11, <2>1, <2>2, <2>3
  <1> QED BY <1>8, <1>12 DEF Spoken

LEMMA NextCaption == CaptionInv /\ [Next]_vars => CaptionInv'
  <1> SUFFICES ASSUME CaptionInv, [Next]_vars PROVE CaptionInv'
    OBVIOUS
  <1>1. HeardInv /\ Shaped /\ Spoken
    BY DEF CaptionInv
  <1>2. HeardInv'
    BY <1>1, NextHeard
  <1>3. ASSUME UNCHANGED voiceVars PROVE Shaped'
    BY <1>1, <1>3 DEF voiceVars, Shaped, Scene, SpanOf
  <1>4. CASE Voice
    BY <1>1, <1>2, <1>4, VoiceShaped, VoiceSpoken DEF Voice, CaptionInv
  <1>5. CASE NoFrame
    <2>1. UNCHANGED voiceVars /\ verdict' = "no frame"
      BY <1>5 DEF NoFrame
    <2>2. Spoken'
      BY <2>1, Zenon DEF Spoken, OrderlyNarrationsCompile, ShowsWhatIsSaid
    <2> QED BY <1>2, <1>3, <2>1, <2>2 DEF CaptionInv
  <1>6. ASSUME NEW carded \in SUBSET Scene, NEW configured \in Transitions,
               NEW tail \in Tails, NEW padding \in Paddings,
               Compile(carded, configured, tail, padding)
        PROVE  CaptionInv'
    <2>1. UNCHANGED voiceVars
      BY <1>6, Zenon DEF Compile
    <2>2. Spoken'
      BY <1>1, <1>6, CompileSpoken
    <2> QED BY <1>2, <1>3, <2>1, <2>2 DEF CaptionInv
  <1>7. CASE UNCHANGED vars
    <2>1. /\ UNCHANGED voiceVars
          /\ verdict' = verdict /\ cards' = cards /\ timeline' = timeline
      BY <1>7 DEF vars
    <2>2. spans' = spans /\ words' = words /\ Scene' = Scene
      BY <2>1 DEF voiceVars, Scene
    <2>3. OrderlyNarrationsCompile'
      BY <1>1, <2>1, <2>2 DEF Spoken, OrderlyNarrationsCompile, Orderly
    <2>4. ShowsWhatIsSaid'
      BY <1>1, <2>1, <2>2 DEF Spoken, ShowsWhatIsSaid
    <2> QED BY <1>2, <1>3, <2>1, <2>3, <2>4 DEF CaptionInv, Spoken
  <1> QED BY <1>4, <1>5, <1>6, <1>7 DEF Next

LEMMA SpecCaption == Spec => []CaptionInv
  BY InitCaption, NextCaption, PTL DEF Spec

(* A narration whose words take time and do not run into each other is     *)
(* never refused: neither compile_timeline's own checks nor the validators *)
(* of the Timeline schema fail what compile_timeline derives from it, for  *)
(* any script, cards, tail, cross-fade and audio file.                     *)
THEOREM OrderlyNarrationsAccepted == Spec => []OrderlyNarrationsCompile
  <1>1. CaptionInv => OrderlyNarrationsCompile
    BY DEF CaptionInv, Spoken
  <1> QED BY SpecCaption, <1>1, PTL

(* A compiled timeline shows the scenes in the order of the scene set, and *)
(* its captions are the words of the scenes that are not cards, each once  *)
(* and in order: grouping words into cues and absorbing the orphans among  *)
(* the cues lose nothing, repeat nothing and move nothing.                 *)
THEOREM CaptionsSayTheWords == Spec => []ShowsWhatIsSaid
  <1>1. CaptionInv => ShowsWhatIsSaid
    BY DEF CaptionInv, Spoken
  <1> QED BY SpecCaption, <1>1, PTL


-----------------------------------------------------------------------------
(* The width of a cue: what its texts add up to.                           *)
LEMMA SameSteps ==
    ASSUME NEW n \in Nat, NEW s, NEW t, NEW d \in Int,
           \A m \in 0 .. n : s[m] \in Int /\ t[m] \in Int,
           \A m \in 1 .. n : s[m] - s[m - 1] = t[m] - t[m - 1],
           s[0] = t[0] + d
    PROVE  s[n] = t[n] + d
  <1> DEFINE Good == {m \in Nat : m <= n => s[m] = t[m] + d}
  <1>1. 0 \in Good
    OBVIOUS
  <1>2. ASSUME NEW m \in 0 .. n, m \in Good, m < n PROVE m + 1 \in Good
    <2>1. m + 1 \in 1 .. n /\ (m + 1) - 1 = m /\ m + 1 \in 0 .. n /\ m <= n /\ m + 1 \in Nat
      BY <1>2
    <2>2. PICK a \in Int, b \in Int, x \in Int, y \in Int :
            a = s[m] /\ b = s[m + 1] /\ x = t[m] /\ y = t[m + 1]
      BY <2>1
    <2>3. a = x + d
      BY <1>2, <2>1, <2>2
    <2>4. b - a = y - x
      BY <2>1, <2>2
    <2>5. b = y + d
      BY <2>3, <2>4
    <2> QED BY <2>1, <2>2, <2>5
  <1>3. \A m \in 0 .. n : m \in Good
    <2> HIDE DEF Good
    <2> QED BY <1>1, <1>2, Upwards
  <1>4. n \in 0 .. n /\ n <= n
    OBVIOUS
  <1> QED BY <1>3, <1>4

(* The sums of the lengths of a cue's texts, from a base. *)
Adds(sum, cue, base) ==
    /\ sum[0] = base
    /\ \A n \in 0 .. Len(cue) : sum[n] \in Int
    /\ \A n \in 1 .. Len(cue) :
         Len(cue[n].text) \in Nat /\ sum[n] = sum[n - 1] + Len(cue[n].text)

LEMMA TextLength ==
    ASSUME NEW cue \in Seq(Timing), NEW n \in 1 .. Len(cue)
    PROVE  cue[n].text \in Seq(Char) /\ Len(cue[n].text) \in Nat
  <1>1. cue[n] \in Timing
    OBVIOUS
  <1>2. PICK text \in Seq(Char) : text = cue[n].text
    BY <1>1 DEF Timing
  <1>3. Len(text) \in Nat
    OBVIOUS
  <1> QED BY <1>2, <1>3

Widths(width, cue) ==
    width = [n \in 0 .. Len(cue) |->
               IF n = 0 THEN Len(cue) - 1 ELSE width[n - 1] + Len(cue[n].text)]

LEMMA WidthIs ==
    ASSUME NEW cue \in Seq(Timing)
    PROVE  \E sum : Adds(sum, cue, Len(cue) - 1) /\ Width(cue) = sum[Len(cue)]
  <1> DEFINE N == Len(cue)
             step == [n \in 1 .. N |-> [s \in Int |-> s + Len(cue[n].text)]]
             it == CHOOSE width : Widths(width, cue)
  <1>1. N \in Nat /\ N - 1 \in Int
    OBVIOUS
  <1>2. \A n \in 1 .. N : Len(cue[n].text) \in Nat
    BY TextLength
  <1>3. step \in [1 .. N -> [Int -> Int]]
    <2>1. ASSUME NEW n \in 1 .. N, NEW s \in Int PROVE s + Len(cue[n].text) \in Int
      BY <1>2
    <2> QED BY <2>1
  <1>4. \A n \in 1 .. N, s \in Int : step[n][s] = s + Len(cue[n].text)
    OBVIOUS
  <1> HIDE DEF step
  <1>5. PICK run \in [0 .. N -> Int] : Iterates(run, N - 1, step, N)
    BY <1>1, <1>3, LoopRuns
  <1>6. ASSUME NEW n \in 0 .. N
        PROVE  run[n] = IF n = 0 THEN N - 1 ELSE run[n - 1] + Len(cue[n].text)
    <2>1. run[n] = IF n = 0 THEN N - 1 ELSE step[n][run[n - 1]]
      BY <1>5 DEF Iterates
    <2>2. n # 0 => n \in 1 .. N /\ n - 1 \in 0 .. N
      BY <1>1
    <2>3. n # 0 => run[n - 1] \in Int
      BY <1>5, <2>2
    <2> QED BY <1>4, <2>1, <2>2, <2>3
  <1>7. run = [n \in 0 .. N |-> run[n]]
    OBVIOUS
  <1>8. Widths(run, cue)
    <2>1. run = [n \in 0 .. N |-> IF n = 0 THEN N - 1 ELSE run[n - 1] + Len(cue[n].text)]
      BY <1>6, <1>7
    <2> QED BY <2>1 DEF Widths
  <1>9. Widths(it, cue)
    BY <1>8, Zenon
  <1>10. Width(cue) = it[N]
    BY DEF Width, Widths
  <1> HIDE DEF it
  <1>11. \A n \in 0 .. N : it[n] = IF n = 0 THEN N - 1 ELSE it[n - 1] + Len(cue[n].text)
    BY <1>9 DEF Widths
  <1> DEFINE Good == {n \in Nat : n <= N => it[n] \in Int}
  <1>12. 0 \in Good
    BY <1>1, <1>11
  <1>13. ASSUME NEW n \in 0 .. N, n \in Good, n < N PROVE n + 1 \in Good
    <2>1. n + 1 \in 0 .. N /\ n + 1 # 0 /\ (n + 1) - 1 = n /\ n + 1 \in Nat /\ n <= N
          /\ n + 1 \in 1 .. N
      BY <1>1, <1>13
    <2>2. it[n + 1] = it[n] + Len(cue[n + 1].text)
      BY <1>11, <2>1
    <2>3. it[n] \in Int /\ Len(cue[n + 1].text) \in Nat
      BY <1>2, <1>13, <2>1
    <2>4. it[n + 1] \in Int
      BY <2>2, <2>3
    <2> QED BY <2>1, <2>4
  <1>14. \A n \in 0 .. N : n \in Good
    <2> HIDE DEF Good
    <2> QED BY <1>1, <1>12, <1>13, Upwards
  <1>15. \A n \in 0 .. N : it[n] \in Int
    BY <1>14
  <1>16. \A n \in 1 .. N : it[n] = it[n - 1] + Len(cue[n].text)
    BY <1>1, <1>11
  <1>17. it[0] = N - 1
    BY <1>1, <1>11
  <1>18. Adds(it, cue, N - 1)
    BY <1>2, <1>15, <1>16, <1>17 DEF Adds
  <1> QED BY <1>10, <1>18


(* Sums over the same texts differ by their bases.                         *)
LEMMA SameSum ==
    ASSUME NEW cue \in Seq(Timing), NEW s, NEW t, NEW a \in Int, NEW b \in Int,
           Adds(s, cue, a), Adds(t, cue, b)
    PROVE  s[Len(cue)] - a = t[Len(cue)] - b
  <1> DEFINE N == Len(cue)
  <1>1. N \in Nat
    OBVIOUS
  <1>2. \A n \in 0 .. N : s[n] \in Int /\ t[n] \in Int
    BY DEF Adds
  <1>3. s[0] = a /\ t[0] = b
    BY DEF Adds
  <1>4. ASSUME NEW n \in 1 .. N PROVE s[n] - s[n - 1] = t[n] - t[n - 1]
    <2>1. PICK w \in Nat : w = Len(cue[n].text)
      BY TextLength
    <2>2. n \in 0 .. N /\ n - 1 \in 0 .. N
      BY <1>1
    <2>3. PICK e \in Int, f \in Int, g \in Int, h \in Int :
            e = s[n] /\ f = s[n - 1] /\ g = t[n] /\ h = t[n - 1]
      BY <1>2, <2>2
    <2>4. e = f + w /\ g = h + w
      BY <2>1, <2>3 DEF Adds
    <2>5. e - f = g - h
      BY <2>4
    <2> QED BY <2>3, <2>5
  <1>5. PICK d \in Int : d = a - b
    OBVIOUS
  <1>6. s[0] = t[0] + d
    BY <1>3, <1>5
  <1> HIDE DEF N
  <1>7. s[N] = t[N] + d
    BY <1>1, <1>2, <1>4, <1>5, <1>6, SameSteps, ZenonT(30)
  <1>8. s[N] \in Int /\ t[N] \in Int /\ N \in 0 .. N
    BY <1>1, <1>2
  <1>9. s[N] - a = t[N] - b
    BY <1>5, <1>7, <1>8
  <1> QED BY <1>9 DEF N

(* A cue is at least as wide as the spaces between its words.              *)
LEMMA WidthBound ==
    ASSUME NEW cue \in Seq(Timing)
    PROVE  Width(cue) \in Int /\ Width(cue) >= Len(cue) - 1
  <1> DEFINE N == Len(cue)
  <1>1. PICK s : Adds(s, cue, N - 1) /\ Width(cue) = s[N]
    BY WidthIs
  <1>2. N \in Nat
    OBVIOUS
  <1>3. s[0] = N - 1 /\ \A n \in 0 .. N : s[n] \in Int
    BY <1>1 DEF Adds
  <1> DEFINE Good == {n \in Nat : n <= N => s[n] >= N - 1}
  <1>4. 0 \in Good
    BY <1>2, <1>3
  <1>5. ASSUME NEW n \in 0 .. N, n \in Good, n < N PROVE n + 1 \in Good
    <2>1. n + 1 \in 1 .. N /\ n + 1 \in 0 .. N /\ (n + 1) - 1 = n /\ n <= N /\ n + 1 \in Nat
      BY <1>2, <1>5
    <2>2. PICK w \in Nat : w = Len(cue[n + 1].text)
      BY <2>1, TextLength
    <2>3. s[n + 1] = s[n] + w
      BY <1>1, <2>1, <2>2 DEF Adds
    <2>4. PICK x \in Int : x = s[n]
      BY <1>3, <2>1
    <2>5. x >= N - 1
      BY <1>5, <2>1, <2>4
    <2>6. x + w >= N - 1
      BY <1>2, <2>5
    <2> QED BY <2>1, <2>3, <2>4, <2>6
  <1>6. \A n \in 0 .. N : n \in Good
    <2> HIDE DEF Good
    <2> QED BY <1>2, <1>4, <1>5, Upwards
  <1>7. N \in 0 .. N /\ N <= N
    BY <1>2
  <1>8. s[N] >= N - 1 /\ s[N] \in Int
    BY <1>3, <1>6, <1>7
  <1> QED BY <1>1, <1>8

(* Two cues joined are as wide as both and a space.                        *)
LEMMA WidthJoin ==
    ASSUME NEW a \in Seq(Timing), NEW b \in Seq(Timing)
    PROVE  Width(a \o b) = Width(a) + Width(b) + 1
  <1> DEFINE A == Len(a)
             B == Len(b)
  <1>1. PICK ab \in Seq(Timing) : ab = a \o b
    BY ConcatIs
  <1>2. /\ A \in Nat /\ B \in Nat /\ Len(ab) = A + B
        /\ \A j \in 1 .. A : ab[j] = a[j]
        /\ \A j \in 1 .. B : ab[A + j] = b[j]
    BY <1>1, ConcatIs
  <1>3. PICK s : Adds(s, a, A - 1) /\ Width(a) = s[A]
    BY WidthIs
  <1>4. PICK t : Adds(t, b, B - 1) /\ Width(b) = t[B]
    BY WidthIs
  <1>5. PICK u : Adds(u, ab, A + B - 1) /\ Width(ab) = u[A + B]
    <2>1. \E u : Adds(u, ab, Len(ab) - 1) /\ Width(ab) = u[Len(ab)]
      BY WidthIs
    <2> HIDE DEF A, B
    <2> QED BY <1>2, <2>1
  <1> HIDE DEF A, B
  <1>6. Adds(u, a, A + B - 1)
    <2>1. u[0] = A + B - 1
      BY <1>5 DEF Adds
    <2>2. ASSUME NEW n \in 0 .. A PROVE u[n] \in Int
      <3>1. n \in 0 .. Len(ab)
        BY <1>2
      <3> QED BY <1>5, <3>1 DEF Adds
    <2>3. ASSUME NEW n \in 1 .. A
          PROVE  Len(a[n].text) \in Nat /\ u[n] = u[n - 1] + Len(a[n].text)
      <3>1. n \in 1 .. Len(ab) /\ ab[n] = a[n]
        BY <1>2
      <3> QED BY <1>5, <3>1 DEF Adds
    <2> QED BY <2>1, <2>2, <2>3 DEF Adds, A
  <1>7. PICK base \in Int : base = u[A]
    <2>1. A \in 0 .. Len(ab)
      BY <1>2
    <2> QED BY <1>5, <2>1 DEF Adds
  <1> DEFINE v == [n \in 0 .. B |-> u[A + n]]
  <1>8. Adds(v, b, base)
    <2>1. v[0] = base
      BY <1>2, <1>7
    <2>2. ASSUME NEW n \in 0 .. B PROVE v[n] \in Int
      <3>1. A + n \in 0 .. Len(ab) /\ v[n] = u[A + n]
        BY <1>2
      <3> QED BY <1>5, <3>1 DEF Adds
    <2>3. ASSUME NEW n \in 1 .. B
          PROVE  Len(b[n].text) \in Nat /\ v[n] = v[n - 1] + Len(b[n].text)
      <3>1. A + n \in 1 .. Len(ab) /\ ab[A + n] = b[n] /\ n - 1 \in 0 .. B /\ n \in 0 .. B
        BY <1>2
      <3>2. (A + n) - 1 = A + (n - 1)
        BY <1>2
      <3>3. v[n] = u[A + n] /\ v[n - 1] = u[(A + n) - 1]
        BY <3>1, <3>2
      <3>4. Len(ab[A + n].text) \in Nat /\ u[A + n] = u[(A + n) - 1] + Len(ab[A + n].text)
        BY <1>5, <3>1 DEF Adds
      <3> HIDE DEF v
      <3> QED BY <3>1, <3>3, <3>4
    <2> HIDE DEF v
    <2> QED BY <2>1, <2>2, <2>3 DEF Adds, B
  <1>9. v[B] = u[A + B]
    BY <1>2
  <1> HIDE DEF v
  <1>10. u[A] - (A + B - 1) = s[A] - (A - 1)
    <2>1. A + B - 1 \in Int /\ A - 1 \in Int
      BY <1>2
    <2> QED BY <1>3, <1>6, <2>1, SameSum DEF A
  <1>11. v[B] - base = t[B] - (B - 1)
    <2>1. B - 1 \in Int
      BY <1>2
    <2> QED BY <1>4, <1>8, <2>1, SameSum DEF B
  <1>12. PICK wa \in Int, wb \in Int, wab \in Int :
           wa = Width(a) /\ wb = Width(b) /\ wab = Width(ab)
    BY WidthBound
  <1>13. base - (A + B - 1) = wa - (A - 1) /\ wab - base = wb - (B - 1)
    BY <1>3, <1>4, <1>5, <1>7, <1>9, <1>10, <1>11, <1>12
  <1>14. wab = wa + wb + 1
    BY <1>2, <1>13
  <1> QED BY <1>1, <1>12, <1>14

(* The letters of a cue are its width without the spaces.                  *)
TextsOf(cue) == [n \in DOMAIN cue |-> cue[n].text]

LEMMA LettersOfCue ==
    ASSUME NEW cue \in Seq(Timing)
    PROVE  Len(FlattenSeq(TextsOf(cue))) \in Nat
           /\ Width(cue) = Len(FlattenSeq(TextsOf(cue))) + Len(cue) - 1
  <1> DEFINE N == Len(cue)
  <1>1. N \in Nat /\ DOMAIN cue = 1 .. N
    OBVIOUS
  <1>2. \A n \in 1 .. N : cue[n].text \in Seq(Char) /\ Len(cue[n].text) \in Nat
    BY TextLength
  <1>3. PICK texts \in Seq(Seq(Char)) :
          texts = TextsOf(cue) /\ Len(texts) = N /\ \A n \in 1 .. N : texts[n] = cue[n].text
    <2> DEFINE f == [n \in 1 .. N |-> cue[n].text]
    <2>1. f \in [1 .. N -> Seq(Char)]
      BY <1>2
    <2>2. f \in Seq(Seq(Char)) /\ Len(f) = N
      BY <1>1, <2>1
    <2>3. \A n \in 1 .. N : f[n] = cue[n].text
      OBVIOUS
    <2>4. f = TextsOf(cue)
      BY <1>1 DEF TextsOf
    <2> HIDE DEF f
    <2> QED BY <2>2, <2>3, <2>4
  <1>4. PICK all \in Seq(Char) : all = FlattenSeq(texts)
    BY FlattenCuts
  <1>5. PICK cut : Cuts(cut, texts, all) /\ cut[N] = Len(all)
    BY <1>3, <1>4, FlattenCuts
  <1>6. Adds(cut, cue, 0)
    <2>1. cut[0] = 0 /\ \A n \in 0 .. N : cut[n] \in 0 .. Len(all)
      BY <1>3, <1>5 DEF Cuts
    <2>2. ASSUME NEW n \in 0 .. N PROVE cut[n] \in Int
      <3>1. Len(all) \in Nat
        OBVIOUS
      <3> QED BY <2>1, <3>1
    <2>3. ASSUME NEW n \in 1 .. N
          PROVE  Len(cue[n].text) \in Nat /\ cut[n] = cut[n - 1] + Len(cue[n].text)
      <3>1. Piece(texts[n], all, cut[n - 1], cut[n])
        BY <1>3, <1>5 DEF Cuts
      <3>2. Len(cue[n].text) = cut[n] - cut[n - 1]
        BY <1>3, <3>1 DEF Piece
      <3>3. n \in 0 .. N /\ n - 1 \in 0 .. N
        BY <1>1
      <3>4. cut[n] \in Int /\ cut[n - 1] \in Int
        BY <2>2, <3>3
      <3>5. PICK w \in Nat, x \in Int, y \in Int :
              w = Len(cue[n].text) /\ x = cut[n] /\ y = cut[n - 1]
        BY <1>2, <3>4
      <3>6. x = y + w
        BY <3>2, <3>5
      <3> QED BY <3>5, <3>6
    <2> QED BY <2>1, <2>2, <2>3 DEF Adds
  <1>7. PICK s : Adds(s, cue, N - 1) /\ Width(cue) = s[N]
    BY WidthIs
  <1>8. s[N] - (N - 1) = cut[N] - 0
    <2>1. N - 1 \in Int /\ 0 \in Int
      BY <1>1
    <2> QED BY <1>6, <1>7, <2>1, SameSum
  <1>9. PICK w \in Int, l \in Nat : w = Width(cue) /\ l = Len(all)
    BY WidthBound
  <1>10. w - (N - 1) = l - 0
    BY <1>5, <1>7, <1>8, <1>9
  <1>11. w = l + N - 1
    BY <1>1, <1>10
  <1> QED BY <1>3, <1>4, <1>9, <1>11


-----------------------------------------------------------------------------
(* What a reader asks of a group: no sentence ends inside it, it is not    *)
(* too long and, unless it is one word, not too wide.                      *)
Unbroken(group) == \A n \in 1 .. Len(group) - 1 : Ending(group[n]) \notin SentenceEndings

Tidy(group, cap) ==
    /\ Len(group) \in Nat \ {0} /\ Len(group) <= MaxWords
    /\ Unbroken(group)
    /\ Len(group) = 1 \/ Width(group) <= cap

(* Two groups with no sentence end between them make an unbroken one.      *)
LEMMA UnbrokenJoin ==
    ASSUME NEW a \in Seq(Timing), NEW b \in Seq(Timing), a # <<>>, b # <<>>,
           Unbroken(a), Unbroken(b), ~EndsSentence(a)
    PROVE  Unbroken(a \o b)
  <1> DEFINE A == Len(a)
             B == Len(b)
  <1>1. PICK ab \in Seq(Timing) : ab = a \o b
    BY ConcatIs
  <1>2. /\ A \in Nat /\ B \in Nat /\ Len(ab) = A + B
        /\ \A j \in 1 .. A : ab[j] = a[j]
        /\ \A j \in 1 .. B : ab[A + j] = b[j]
    BY <1>1, ConcatIs
  <1>3. Ending(a[A]) \notin SentenceEndings
    BY DEF EndsSentence, Last
  <1>4. \A n \in 1 .. A - 1 : Ending(a[n]) \notin SentenceEndings
    BY DEF Unbroken
  <1>5. \A n \in 1 .. B - 1 : Ending(b[n]) \notin SentenceEndings
    BY DEF Unbroken
  <1> HIDE DEF A, B
  <1>6. ASSUME NEW n \in 1 .. Len(ab) - 1 PROVE Ending(ab[n]) \notin SentenceEndings
    <2>1. CASE n \in 1 .. A - 1
      <3>1. ab[n] = a[n]
        BY <1>2, <2>1
      <3> QED BY <1>4, <2>1, <3>1
    <2>2. CASE n = A
      <3>1. n \in 1 .. A
        BY <1>2, <2>2
      <3>2. ab[n] = a[A]
        BY <1>2, <2>2, <3>1
      <3> QED BY <1>3, <3>2
    <2>3. CASE n > A
      <3>1. PICK j \in 1 .. B - 1 : n = A + j
        <4>1. n - A \in 1 .. B - 1 /\ n = A + (n - A)
          BY <1>2, <2>3
        <4> QED BY <4>1
      <3>2. ab[n] = b[j]
        BY <1>2, <3>1
      <3> QED BY <1>5, <3>1, <3>2
    <2>4. n \in 1 .. A - 1 \/ n = A \/ n > A
      BY <1>2
    <2> QED BY <2>1, <2>2, <2>3, <2>4
  <1> QED BY <1>1, <1>6 DEF Unbroken

LEMMA UnbrokenWord ==
    ASSUME NEW word \in Timing
    PROVE  /\ <<word>> \in Seq(Timing) /\ Len(<<word>>) = 1 /\ Unbroken(<<word>>)
           /\ Append(<<>>, word) = <<word>>
  <1>1. <<word>> \in Seq(Timing) /\ Len(<<word>>) = 1 /\ Append(<<>>, word) = <<word>>
    OBVIOUS
  <1>2. 1 .. 1 - 1 = {}
    OBVIOUS
  <1> QED BY <1>1, <1>2 DEF Unbroken

(* The groups of the loop: the open one has not met its sentence's end.    *)
Neat(state) ==
    /\ \A i \in 1 .. Len(state.closed) : Tidy(state.closed[i], MaxCharacters)
    /\ state.open # <<>> => Tidy(state.open, MaxCharacters) /\ ~EndsSentence(state.open)

LEMMA FlushNeat ==
    ASSUME NEW state, IsState(state),
           \A i \in 1 .. Len(state.closed) : Tidy(state.closed[i], MaxCharacters),
           state.open # <<>> => Tidy(state.open, MaxCharacters)
    PROVE  \A i \in 1 .. Len(Flush(state).closed) : Tidy(Flush(state).closed[i], MaxCharacters)
  <1>1. CASE state.open = <<>>
    BY <1>1, FlushTyped
  <1>2. CASE state.open # <<>>
    <2>1. PICK closed \in Seq(Seq(Timing)), group \in Seq(Timing) :
            closed = state.closed /\ group = state.open
      BY DEF IsState
    <2>2. PICK more : more = Append(closed, group)
      OBVIOUS
    <2>3. Flush(state).closed = more
      BY <1>2, <2>1, <2>2, FlushTyped
    <2>4. /\ Len(closed) \in Nat /\ Len(more) = Len(closed) + 1
          /\ \A i \in 1 .. Len(closed) : more[i] = closed[i]
          /\ more[Len(closed) + 1] = group
      BY <2>2
    <2>5. ASSUME NEW i \in 1 .. Len(more) PROVE Tidy(more[i], MaxCharacters)
      <3>1. CASE i = Len(closed) + 1
        BY <1>2, <2>1, <2>4, <3>1
      <3>2. CASE i # Len(closed) + 1
        <4>1. i \in 1 .. Len(closed)
          BY <2>4, <3>2
        <4> QED BY <2>1, <2>4, <4>1
      <3> QED BY <3>1, <3>2
    <2> QED BY <2>3, <2>5
  <1> QED BY <1>1, <1>2

(* One turn of the loop: a word joins the open group only if that is not    *)
(* at the end of a sentence, and there is room.                            *)
LEMMA TakeWordNeat ==
    ASSUME NEW state, IsState(state), Neat(state), NEW word \in Timing
    PROVE  Neat(TakeWord(state, word))
  <1> DEFINE room == IF state.open # <<>> /\ TooWide(state.open, word)
                       THEN Flush(state) ELSE state
             taken == [room EXCEPT !.open = Append(@, word)]
  <1>1. TakeWord(state, word) = IF ShouldBreak(taken.open) THEN Flush(taken) ELSE taken
    BY DEF TakeWord
  <1>2. IsState(room)
    BY FlushTyped
  <1>3. /\ \A i \in 1 .. Len(room.closed) : Tidy(room.closed[i], MaxCharacters)
        /\ room.open # <<>> => /\ Tidy(room.open, MaxCharacters) /\ ~EndsSentence(room.open)
                               /\ ~TooWide(room.open, word)
    <2>1. CASE state.open # <<>> /\ TooWide(state.open, word)
      <3>1. room = Flush(state) /\ Flush(state).open = <<>>
        BY <2>1, FlushTyped
      <3>2. \A i \in 1 .. Len(Flush(state).closed) : Tidy(Flush(state).closed[i], MaxCharacters)
        BY FlushNeat DEF Neat
      <3> HIDE DEF room
      <3> QED BY <3>1, <3>2
    <2>2. CASE ~(state.open # <<>> /\ TooWide(state.open, word))
      <3>1. room = state
        BY <2>2
      <3> HIDE DEF room
      <3> QED BY <2>2, <3>1 DEF Neat
    <2> QED BY <2>1, <2>2
  <1> HIDE DEF room
  <1>4. PICK group \in Seq(Timing) : group = room.open
    BY <1>2 DEF IsState
  <1>5. PICK more \in Seq(Timing) : more = Append(group, word)
    <2>1. group \in Seq(Timing)
      BY <1>4
    <2>2. Append(group, word) \in Seq(Timing)
      BY <2>1
    <2> QED BY <2>2
  <1>6. /\ IsState(taken) /\ taken.open = more /\ taken.closed = room.closed
    BY <1>2, <1>4, <1>5 DEF IsState
  <1>7. Tidy(more, MaxCharacters)
    <2>1. CASE group = <<>>
      <3>1. more = <<word>>
        BY <1>5, <2>1, UnbrokenWord
      <3>2. MaxWords \in Nat \ {0}
        BY CaptionAssumption
      <3>3. 1 <= MaxWords /\ 1 \in Nat \ {0}
        BY <3>2
      <3> QED BY <3>1, <3>3, UnbrokenWord DEF Tidy
    <2>2. CASE group # <<>>
      <3>1. Tidy(group, MaxCharacters) /\ ~EndsSentence(group) /\ ~TooWide(group, word)
        BY <1>3, <1>4, <2>2
      <3>2. Len(group) \in Nat /\ Len(more) = Len(group) + 1
        BY <1>4, <1>5
      <3>3. MaxWords \in Nat /\ MaxCharacters \in Int /\ Width(more) \in Int
        BY CaptionAssumption, WidthBound
      <3>4. Len(more) <= MaxWords /\ Width(more) <= MaxCharacters
        BY <1>5, <3>1, <3>2, <3>3 DEF TooWide
      <3>5. PICK lone \in Seq(Timing) : lone = <<word>> /\ Unbroken(lone) /\ lone # <<>>
        <4>1. <<word>> # <<>>
          OBVIOUS
        <4> QED BY <4>1, UnbrokenWord
      <3>6. more = group \o lone
        BY <1>5, <3>5
      <3>7. Unbroken(more)
        BY <2>2, <3>1, <3>5, <3>6, UnbrokenJoin DEF Tidy
      <3> QED BY <3>2, <3>4, <3>7 DEF Tidy
    <2> QED BY <2>1, <2>2
  <1> HIDE DEF taken
  <1>8. CASE ShouldBreak(taken.open)
    <2>1. \A i \in 1 .. Len(Flush(taken).closed) : Tidy(Flush(taken).closed[i], MaxCharacters)
      BY <1>3, <1>6, <1>7, FlushNeat
    <2>2. Flush(taken).open = <<>>
      BY <1>6, FlushTyped
    <2> QED BY <1>1, <1>8, <2>1, <2>2 DEF Neat
  <1>9. CASE ~ShouldBreak(taken.open)
    <2>1. ~EndsSentence(more)
      BY <1>6, <1>9 DEF ShouldBreak
    <2> QED BY <1>1, <1>3, <1>6, <1>7, <1>9, <2>1 DEF Neat
  <1> QED BY <1>8, <1>9

LEMMA GroupedTidy ==
    ASSUME NEW scene \in Seq(Timing)
    PROVE  \A i \in 1 .. Len(Grouped(scene)) : Tidy(Grouped(scene)[i], MaxCharacters)
  <1> DEFINE N == Len(scene)
  <1>1. PICK turn : Turns(turn, scene) /\ Taken(scene) = turn[N]
    BY TakenIs
  <1>2. N \in Nat /\ \A n \in 1 .. N : scene[n] \in Timing
    OBVIOUS
  <1>3. \A n \in 0 .. N : turn[n] = IF n = 0 THEN [closed |-> <<>>, open |-> <<>>]
                                            ELSE TakeWord(turn[n - 1], scene[n])
    BY <1>1 DEF Turns
  <1> DEFINE Good == {n \in Nat : n <= N => IsState(turn[n]) /\ Neat(turn[n])}
  <1>4. 0 \in Good
    <2>1. turn[0].closed = <<>> /\ turn[0].open = <<>> /\ IsState(turn[0])
      <3>1. 0 \in 0 .. N
        BY <1>2
      <3>2. turn[0] = [closed |-> <<>>, open |-> <<>>]
        BY <1>3, <3>1
      <3>3. <<>> \in Seq(Seq(Timing)) /\ <<>> \in Seq(Timing)
        OBVIOUS
      <3> QED BY <3>2, <3>3 DEF IsState
    <2>2. 1 .. Len(<<>>) = {}
      OBVIOUS
    <2>3. Neat(turn[0])
      BY <2>1, <2>2 DEF Neat
    <2> QED BY <2>1, <2>3
  <1>5. ASSUME NEW n \in 0 .. N, n \in Good, n < N PROVE n + 1 \in Good
    <2>1. /\ n + 1 \in 0 .. N /\ n + 1 # 0 /\ (n + 1) - 1 = n /\ n + 1 \in Nat /\ n <= N
          /\ n + 1 \in 1 .. N
      BY <1>2, <1>5
    <2>2. turn[n + 1] = TakeWord(turn[n], scene[n + 1])
      BY <1>3, <2>1
    <2>3. PICK word \in Timing : word = scene[n + 1]
      BY <1>2, <2>1
    <2> DEFINE before == turn[n]
    <2> HIDE DEF before
    <2>4. IsState(before) /\ Neat(before)
      BY <1>5, <2>1 DEF before
    <2>5. IsState(TakeWord(before, word)) /\ Neat(TakeWord(before, word))
      BY <2>3, <2>4, TakeWordTyped, TakeWordNeat
    <2> QED BY <2>1, <2>2, <2>3, <2>5 DEF before
  <1>6. \A n \in 0 .. N : n \in Good
    <2> HIDE DEF Good
    <2> QED BY <1>2, <1>4, <1>5, Upwards
  <1>7. N \in 0 .. N /\ N <= N
    BY <1>2
  <1>8. PICK last : last = turn[N]
    OBVIOUS
  <1>9. IsState(last) /\ Neat(last)
    BY <1>6, <1>7, <1>8
  <1>10. \A i \in 1 .. Len(Flush(last).closed) : Tidy(Flush(last).closed[i], MaxCharacters)
    BY <1>9, FlushNeat DEF Neat
  <1> QED BY <1>1, <1>8, <1>10 DEF Grouped


-----------------------------------------------------------------------------
(* The repair: what may share a frame, before and after two groups do.     *)
Cap == MaxCharacters + MergeSlack

AllTidy(groups) == \A i \in 1 .. Len(groups) : Tidy(groups[i], Cap)

(* The lone words up to a place have no neighbour that would take them.    *)
Settled(groups, upto) ==
    \A i \in 2 .. Len(groups) :
        i <= upto /\ Len(groups[i]) = 1 => ~MayJoin(groups, i - 1) /\ ~MayJoin(groups, i)

LEMMA CapIsInt == Cap \in Int /\ MaxCharacters <= Cap /\ MaxWords \in Nat
  <1>1. MaxCharacters \in Int /\ MergeSlack \in Nat /\ MaxWords \in Nat
    BY CaptionAssumption
  <1> QED BY <1>1 DEF Cap

(* A group that grows makes no room.                                       *)
LEMMA FitsLess ==
    ASSUME NEW a \in Seq(Timing), NEW b \in Seq(Timing), NEW c \in Seq(Timing)
    PROVE  /\ Fits(a, b \o c) => Fits(a, b)
           /\ Fits(a \o b, c) => Fits(b, c)
  <1>1. PICK ab \in Seq(Timing), bc \in Seq(Timing) : ab = a \o b /\ bc = b \o c
    BY ConcatIs
  <1>2. PICK x \in Nat, y \in Nat, z \in Nat : x = Len(a) /\ y = Len(b) /\ z = Len(c)
    OBVIOUS
  <1>3. Len(ab) = x + y /\ Len(bc) = y + z
    BY <1>1, <1>2, ConcatIs
  <1>4. PICK u \in Int, v \in Int, w \in Int :
          /\ u = Width(a) /\ v = Width(b) /\ w = Width(c)
          /\ u >= x - 1 /\ w >= z - 1
    BY <1>2, WidthBound
  <1>5. PICK cap \in Int : cap = Cap
    BY CapIsInt
  <1>6. /\ Width(a \o b) = u + v + 1 /\ Width(b \o c) = v + w + 1
        /\ Width(a \o bc) = u + (v + w + 1) + 1
        /\ Width(ab \o c) = (u + v + 1) + w + 1
    <2>1. Width(ab) = u + v + 1 /\ Width(bc) = v + w + 1
      BY <1>1, <1>4, WidthJoin
    <2>2. Width(a \o bc) = u + Width(bc) + 1
      BY <1>1, <1>4, WidthJoin
    <2>3. Width(ab \o c) = Width(ab) + w + 1
      BY <1>1, <1>4, WidthJoin
    <2> QED BY <1>1, <2>1, <2>2, <2>3
  <1>7. MaxWords \in Nat
    BY CapIsInt
  <1>8. Fits(a, bc) => Fits(a, b)
    <2>1. x + (y + z) <= MaxWords => x + y <= MaxWords
      BY <1>2, <1>7
    <2>2. u + (v + w + 1) + 1 <= cap => u + v + 1 <= cap
      <3>1. w >= 0 - 1 /\ u \in Int /\ v \in Int /\ w \in Int /\ cap \in Int
        BY <1>2, <1>4, <1>5
      <3> QED BY <3>1, SMTT(30)
    <2> QED BY <1>2, <1>3, <1>5, <1>6, <2>1, <2>2 DEF Fits, Cap
  <1>9. Fits(ab, c) => Fits(b, c)
    <2>1. (x + y) + z <= MaxWords => y + z <= MaxWords
      BY <1>2, <1>7
    <2>2. (u + v + 1) + w + 1 <= cap => v + w + 1 <= cap
      <3>1. u >= 0 - 1 /\ u \in Int /\ v \in Int /\ w \in Int /\ cap \in Int
        BY <1>2, <1>4, <1>5
      <3> QED BY <3>1, SMTT(30)
    <2> QED BY <1>2, <1>3, <1>5, <1>6, <2>1, <2>2 DEF Fits, Cap
  <1> QED BY <1>1, <1>8, <1>9

LEMMA EndsJoin ==
    ASSUME NEW a \in Seq(Timing), NEW b \in Seq(Timing), b # <<>>
    PROVE  EndsSentence(a \o b) = EndsSentence(b)
  <1>1. PICK ab \in Seq(Timing) : ab = a \o b
    BY ConcatIs
  <1>2. /\ Len(a) \in Nat /\ Len(b) \in Nat \ {0} /\ Len(ab) = Len(a) + Len(b)
        /\ \A j \in 1 .. Len(b) : ab[Len(a) + j] = b[j]
    BY <1>1, ConcatIs
  <1>3. Len(b) \in 1 .. Len(b)
    BY <1>2
  <1>4. ab[Len(ab)] = b[Len(b)]
    BY <1>2, <1>3
  <1> QED BY <1>1, <1>4 DEF EndsSentence, Last

(* A join neither opens a frame to a word that had none before, nor leaves *)
(* a group untidy.                                                         *)
LEMMA MayJoinBefore ==
    ASSUME NEW groups \in Seq(Seq(Timing)), AllTidy(groups), NEW k, MayJoin(groups, k),
           NEW j, MayJoin(Join(groups, k), j)
    PROVE  MayJoin(groups, IF j < k THEN j ELSE j + 1)
  <1> DEFINE n == Len(groups)
  <1>1. k \in 1 .. n - 1 /\ n \in Nat /\ k \in 1 .. n /\ k + 1 \in 1 .. n
    BY DEF MayJoin
  <1>2. PICK after \in Seq(Seq(Timing)) : after = Join(groups, k)
    BY <1>1, JoinIs
  <1>3. /\ Len(after) = n - 1
        /\ after[k] = groups[k] \o groups[k + 1]
        /\ \A i \in 1 .. k - 1 : after[i] = groups[i]
        /\ \A i \in k + 1 .. n - 1 : after[i] = groups[i + 1]
    BY <1>1, <1>2, JoinIs
  <1>4. j \in 1 .. (n - 1) - 1 /\ ~EndsSentence(after[j]) /\ Fits(after[j], after[j + 1])
    BY <1>2, <1>3 DEF MayJoin
  <1>5. PICK a \in Seq(Timing), b \in Seq(Timing) : a = groups[k] /\ b = groups[k + 1]
    BY <1>1
  <1>6. b # <<>>
    <2>1. Len(b) # 0
      BY <1>1, <1>5 DEF AllTidy, Tidy
    <2> QED BY <2>1
  <1> HIDE DEF n
  <1>7. CASE j < k
    <2>1. j \in 1 .. n - 1 /\ after[j] = groups[j]
      BY <1>1, <1>3, <1>4, <1>7
    <2>2. CASE j + 1 < k
      <3>1. after[j + 1] = groups[j + 1]
        <4>1. j + 1 \in 1 .. k - 1
          BY <1>1, <1>4, <2>2
        <4> QED BY <1>3, <4>1
      <3> QED BY <1>4, <1>7, <2>1, <3>1 DEF MayJoin, n
    <2>3. CASE j + 1 = k
      <3>1. PICK c \in Seq(Timing) : c = groups[j]
        <4>1. j \in 1 .. n
          BY <1>1, <2>1
        <4> QED BY <4>1 DEF n
      <3>2. Fits(c, a \o b)
        BY <1>3, <1>4, <1>5, <2>1, <2>3, <3>1
      <3>3. Fits(c, a)
        BY <3>2, FitsLess
      <3> QED BY <1>4, <1>5, <1>7, <2>1, <2>3, <3>1, <3>3 DEF MayJoin, n
    <2>4. j + 1 < k \/ j + 1 = k
      BY <1>1, <1>4, <1>7
    <2> QED BY <2>2, <2>3, <2>4
  <1>8. CASE ~(j < k)
    <2>1. /\ j + 1 \in 1 .. n - 1 /\ j + 1 \in k + 1 .. n - 1
          /\ after[j + 1] = groups[(j + 1) + 1]
      <3>1. j + 1 \in 1 .. n - 1 /\ j + 1 \in k + 1 .. n - 1
        BY <1>1, <1>4, <1>8
      <3> QED BY <1>3, <3>1
    <2>2. CASE j = k
      <3>1. PICK c \in Seq(Timing) : c = groups[(j + 1) + 1]
        <4>1. n \in Nat /\ j + 1 \in 1 .. n - 1
          BY <1>1, <2>1
        <4>2. PICK i \in 1 .. n - 1 : i = j + 1
          BY <4>1
        <4>3. i + 1 \in 1 .. n
          BY <4>1
        <4>4. groups[i + 1] \in Seq(Timing)
          BY <4>3 DEF n
        <4> QED BY <4>2, <4>4
      <3>2. Fits(a \o b, c)
        BY <1>3, <1>4, <1>5, <2>1, <2>2, <3>1
      <3>3. Fits(b, c)
        BY <3>2, FitsLess
      <3>4. ~EndsSentence(b)
        BY <1>3, <1>4, <1>5, <1>6, <2>2, EndsJoin
      <3> QED BY <1>5, <1>8, <2>1, <2>2, <3>1, <3>3, <3>4 DEF MayJoin, n
    <2>3. CASE j > k
      <3>1. j \in k + 1 .. n - 1
        BY <1>1, <1>4, <2>3
      <3>2. after[j] = groups[j + 1]
        BY <1>3, <3>1
      <3> QED BY <1>4, <1>8, <2>1, <3>2 DEF MayJoin, n
    <2>4. j = k \/ j > k
      BY <1>1, <1>4, <1>8
    <2> QED BY <2>2, <2>3, <2>4
  <1> QED BY <1>7, <1>8

LEMMA TidyJoin ==
    ASSUME NEW groups \in Seq(Seq(Timing)), AllTidy(groups), NEW k, MayJoin(groups, k)
    PROVE  AllTidy(Join(groups, k)) /\ Len(Join(groups, k)[k]) # 1
  <1> DEFINE n == Len(groups)
  <1>1. k \in 1 .. n - 1 /\ n \in Nat /\ k \in 1 .. n /\ k + 1 \in 1 .. n
    BY DEF MayJoin
  <1>2. PICK after \in Seq(Seq(Timing)) : after = Join(groups, k)
    BY <1>1, JoinIs
  <1>3. /\ Len(after) = n - 1
        /\ after[k] = groups[k] \o groups[k + 1]
        /\ \A i \in 1 .. k - 1 : after[i] = groups[i]
        /\ \A i \in k + 1 .. n - 1 : after[i] = groups[i + 1]
    BY <1>1, <1>2, JoinIs
  <1>4. PICK a \in Seq(Timing), b \in Seq(Timing) : a = groups[k] /\ b = groups[k + 1]
    BY <1>1
  <1>5. Tidy(a, Cap) /\ Tidy(b, Cap) /\ ~EndsSentence(a) /\ Fits(a, b)
    BY <1>1, <1>4 DEF AllTidy, MayJoin
  <1>6. PICK x \in Nat \ {0}, y \in Nat \ {0} : x = Len(a) /\ y = Len(b)
    BY <1>5 DEF Tidy
  <1>7. a # <<>> /\ b # <<>>
    BY <1>6
  <1>8. PICK ab \in Seq(Timing) : ab = a \o b /\ Len(ab) = x + y
    BY <1>6, ConcatIs
  <1>9. Tidy(ab, Cap) /\ Len(ab) # 1
    <2>1. Unbroken(ab)
      BY <1>5, <1>7, <1>8, UnbrokenJoin DEF Tidy
    <2>2. x + y <= MaxWords /\ Width(ab) <= Cap
      BY <1>5, <1>6, <1>8 DEF Fits, Cap
    <2>3. x + y \in Nat \ {0} /\ x + y # 1
      BY <1>6
    <2> QED BY <1>8, <2>1, <2>2, <2>3 DEF Tidy
  <1> HIDE DEF n
  <1>10. ASSUME NEW i \in 1 .. n - 1 PROVE Tidy(after[i], Cap)
    <2>1. CASE i = k
      BY <1>3, <1>4, <1>8, <1>9, <2>1
    <2>2. CASE i < k
      <3>1. i \in 1 .. k - 1 /\ i \in 1 .. n
        BY <1>1, <2>2
      <3> QED BY <1>3, <3>1 DEF AllTidy, n
    <2>3. CASE i > k
      <3>1. i \in k + 1 .. n - 1 /\ i + 1 \in 1 .. n
        BY <1>1, <2>3
      <3> QED BY <1>3, <3>1 DEF AllTidy, n
    <2> QED BY <1>1, <2>1, <2>2, <2>3
  <1> QED BY <1>2, <1>3, <1>4, <1>8, <1>9, <1>10 DEF AllTidy

LEMMA SettledJoin ==
    ASSUME NEW groups \in Seq(Seq(Timing)), AllTidy(groups), NEW k, MayJoin(groups, k),
           NEW upto \in Nat, upto <= k, Settled(groups, upto)
    PROVE  Settled(Join(groups, k), upto)
  <1> DEFINE n == Len(groups)
  <1>1. k \in 1 .. n - 1 /\ n \in Nat
    BY DEF MayJoin
  <1>2. PICK after \in Seq(Seq(Timing)) : after = Join(groups, k)
    BY <1>1, JoinIs
  <1>3. /\ Len(after) = n - 1
        /\ \A i \in 1 .. k - 1 : after[i] = groups[i]
    BY <1>1, <1>2, JoinIs
  <1>4. Len(after[k]) # 1
    BY <1>2, TidyJoin
  <1> HIDE DEF n
  <1>5. ASSUME NEW i \in 2 .. Len(after), i <= upto, Len(after[i]) = 1
        PROVE  ~MayJoin(after, i - 1) /\ ~MayJoin(after, i)
    <2>1. i # k
      BY <1>4, <1>5
    <2>2. i < k /\ i - 1 < k /\ i \in 1 .. k - 1 /\ i \in 2 .. n
      BY <1>1, <1>3, <1>5, <2>1
    <2>3. Len(groups[i]) = 1
      BY <1>3, <1>5, <2>2
    <2>4. ~MayJoin(groups, i - 1) /\ ~MayJoin(groups, i)
      BY <1>5, <2>2, <2>3 DEF Settled, n
    <2> QED BY <1>2, <2>2, <2>4, MayJoinBefore
  <1> QED BY <1>2, <1>5 DEF Settled


(* The repair at work: every group is tidy, and the lone words it has      *)
(* passed are settled.                                                     *)
Mending(pass) ==
    /\ IsPass(pass) /\ pass.position >= 2
    /\ AllTidy(pass.groups)
    /\ Settled(pass.groups, pass.position - 1)

(* The groups a turn leaves ahead, itself included. *)
Ahead(pass) == Len(pass.groups) - pass.position

LEMMA RepairMends ==
    ASSUME NEW pass, Mending(pass)
    PROVE  /\ Mending(Repair(pass))
           /\ pass.position > Len(pass.groups) => Repair(pass) = pass
           /\ pass.position <= Len(pass.groups) => Ahead(Repair(pass)) = Ahead(pass) - 1
  <1>1. PICK i \in Nat, groups \in Seq(Seq(Timing)) :
          /\ i = pass.position /\ groups = pass.groups
          /\ i >= 2 /\ AllTidy(groups) /\ Settled(groups, i - 1)
    BY DEF Mending, IsPass
  <1> DEFINE finished == i > Len(groups)
             lone == ~finished /\ Len(groups[i]) <= 1
             back == lone /\ MayJoin(groups, i - 1)
             onward == lone /\ ~back /\ MayJoin(groups, i)
  <1>2. Repair(pass) =
          CASE finished -> pass
            [] back     -> [pass EXCEPT !.groups = Join(groups, i - 1)]
            [] onward   -> [pass EXCEPT !.groups = Join(groups, i)]
            [] ~finished /\ ~back /\ ~onward -> [pass EXCEPT !.position = i + 1]
    BY <1>1 DEF Repair
  <1>3. Len(groups) \in Nat /\ i - 1 \in Nat /\ i - 1 <= i /\ i - 1 <= i - 1
    BY <1>1
  <1>4. ASSUME NEW k, k = i - 1 \/ k = i, MayJoin(groups, k), ~finished,
               Repair(pass) = [pass EXCEPT !.groups = Join(groups, k)]
        PROVE  Mending(Repair(pass)) /\ Ahead(Repair(pass)) = Ahead(pass) - 1
    <2>1. k \in 1 .. Len(groups) - 1
      BY <1>4 DEF MayJoin
    <2>2. PICK after \in Seq(Seq(Timing)) :
            after = Join(groups, k) /\ Len(after) = Len(groups) - 1
      BY <1>1, <2>1, JoinIs
    <2>3. AllTidy(after)
      BY <1>1, <1>4, <2>2, TidyJoin
    <2>4. i - 1 <= k
      BY <1>1, <1>3, <1>4
    <2>5. PICK upto \in Nat : upto = i - 1
      BY <1>3
    <2>6. Settled(after, upto)
      BY <1>1, <1>4, <2>2, <2>4, <2>5, SettledJoin
    <2>7. /\ Repair(pass) \in [groups : Seq(Seq(Timing)), position : Nat]
          /\ Repair(pass).groups = after /\ Repair(pass).position = i
      BY <1>1, <1>4, <2>2 DEF Mending, IsPass
    <2>8. Ahead(Repair(pass)) = Ahead(pass) - 1
      <3>1. PICK l \in Nat : l = Len(groups)
        BY <1>3
      <3>2. Ahead(pass) = l - i /\ Ahead(Repair(pass)) = (l - 1) - i
        BY <1>1, <2>2, <2>7, <3>1 DEF Ahead
      <3>3. \A x, y \in Int : (x - 1) - y = (x - y) - 1
        OBVIOUS
      <3>4. l \in Int /\ i \in Int
        BY <1>1, <3>1
      <3> QED BY <3>2, <3>3, <3>4
    <2> QED BY <1>1, <2>3, <2>5, <2>6, <2>7, <2>8 DEF Mending, IsPass
  <1>5. CASE finished
    <2>1. Repair(pass) = pass
      <3>1. ~back /\ ~onward
        BY <1>5
      <3> HIDE DEF finished, back, onward
      <3> QED BY <1>2, <1>5, <3>1
    <2>2. ~(pass.position <= Len(pass.groups))
      BY <1>1, <1>3, <1>5
    <2> QED BY <2>1, <2>2
  <1>6. CASE back
    <2>1. ~finished /\ MayJoin(groups, i - 1) /\ ~onward
      BY <1>6
    <2>2. Repair(pass) = [pass EXCEPT !.groups = Join(groups, i - 1)]
      <3> HIDE DEF finished, back, onward
      <3> QED BY <1>2, <1>6, <2>1
    <2>3. ~(pass.position > Len(pass.groups))
      BY <1>1, <2>1
    <2> QED BY <1>4, <2>1, <2>2, <2>3
  <1>7. CASE onward
    <2>1. ~finished /\ MayJoin(groups, i) /\ ~back
      BY <1>7
    <2>2. Repair(pass) = [pass EXCEPT !.groups = Join(groups, i)]
      <3> HIDE DEF finished, back, onward
      <3> QED BY <1>2, <1>7, <2>1
    <2>3. ~(pass.position > Len(pass.groups))
      BY <1>1, <2>1
    <2> QED BY <1>4, <2>1, <2>2, <2>3
  <1>8. CASE ~finished /\ ~back /\ ~onward
    <2>1. Repair(pass) = [pass EXCEPT !.position = i + 1]
      <3> HIDE DEF finished, back, onward
      <3> QED BY <1>2, <1>8
    <2>2. PICK more \in Nat : more = i + 1
      BY <1>1
    <2>3. /\ Repair(pass) \in [groups : Seq(Seq(Timing)), position : Nat]
          /\ Repair(pass).groups = groups /\ Repair(pass).position = more
      BY <1>1, <2>1, <2>2 DEF Mending, IsPass
    <2>4. more >= 2 /\ more - 1 = i
      BY <1>1, <2>2
    <2>5. ~(i > Len(groups)) /\ i \in 1 .. Len(groups)
      BY <1>1, <1>3, <1>8
    <2>6. ASSUME Len(groups[i]) = 1 PROVE ~MayJoin(groups, i - 1) /\ ~MayJoin(groups, i)
      <3>1. lone
        BY <1>8, <2>6
      <3> HIDE DEF lone, finished
      <3> QED BY <1>8, <3>1
    <2> HIDE DEF finished, lone, back, onward
    <2>7. Settled(groups, i)
      <3> SUFFICES ASSUME NEW j \in 2 .. Len(groups), j <= i, Len(groups[j]) = 1
                   PROVE  ~MayJoin(groups, j - 1) /\ ~MayJoin(groups, j)
        BY DEF Settled
      <3>1. CASE j = i
        BY <2>6, <3>1
      <3>2. CASE j # i
        <4>1. j <= i - 1
          BY <1>1, <3>2
        <4> QED BY <1>1, <4>1 DEF Settled
      <3> QED BY <3>1, <3>2
    <2>8. Ahead(Repair(pass)) = Ahead(pass) - 1
      <3>1. PICK l \in Nat : l = Len(groups)
        BY <1>3
      <3>2. Ahead(pass) = l - i /\ Ahead(Repair(pass)) = l - more
        BY <1>1, <2>3, <3>1 DEF Ahead
      <3>3. l - (i + 1) = (l - i) - 1
        BY <1>1, <3>1
      <3> QED BY <2>2, <3>2, <3>3
    <2>9. ~(pass.position > Len(pass.groups))
      BY <1>1, <2>5
    <2>10. Mending(Repair(pass))
      BY <1>1, <2>3, <2>4, <2>7 DEF Mending, IsPass
    <2> QED BY <2>8, <2>9, <2>10
  <1> HIDE DEF finished, lone, back, onward
  <1> QED BY <1>5, <1>6, <1>7, <1>8

(* The repair runs until it has passed every group. *)
LEMMA RepairedSettled ==
    ASSUME NEW groups \in Seq(Seq(Timing)), AllTidy(groups)
    PROVE  /\ Repaired(groups) \in Seq(Seq(Timing))
           /\ AllTidy(Repaired(groups))
           /\ Settled(Repaired(groups), Len(Repaired(groups)))
  <1> DEFINE N == Len(groups)
  <1>1. PICK turn : /\ Passes(turn, groups)
                    /\ \A n \in 0 .. N : IsPass(turn[n])
                    /\ Repaired(groups) = turn[N].groups
    BY RepairedIs
  <1>2. N \in Nat
    OBVIOUS
  <1>3. \A n \in 0 .. N : turn[n] = IF n = 0 THEN [groups |-> groups, position |-> 2]
                                            ELSE Repair(turn[n - 1])
    BY <1>1 DEF Passes
  <1> DEFINE Done(pass, n) == \/ pass.position > Len(pass.groups)
                              \/ Ahead(pass) + n <= N - 2
             Good == {n \in Nat : n <= N => Mending(turn[n]) /\ Done(turn[n], n)}
  <1>4. 0 \in Good
    <2>1. PICK pass : pass = [groups |-> groups, position |-> 2]
      OBVIOUS
    <2>2. turn[0] = pass
      BY <1>2, <1>3, <2>1
    <2>3. IsPass(pass) /\ pass.position = 2 /\ pass.groups = groups
      BY <2>1 DEF IsPass
    <2>4. Settled(groups, 2 - 1)
      BY DEF Settled
    <2>5. 2 >= 2
      OBVIOUS
    <2>6. Mending(pass)
      BY <2>3, <2>4, <2>5 DEF Mending
    <2>7. Ahead(pass) + 0 <= N - 2
      BY <1>2, <2>3 DEF Ahead
    <2> HIDE DEF N
    <2> QED BY <2>2, <2>6, <2>7
  <1>5. ASSUME NEW n \in 0 .. N, n \in Good, n < N PROVE n + 1 \in Good
    <2>1. n + 1 \in 0 .. N /\ n + 1 # 0 /\ (n + 1) - 1 = n /\ n + 1 \in Nat /\ n <= N
      BY <1>2, <1>5
    <2>2. turn[n + 1] = Repair(turn[n])
      BY <1>3, <2>1
    <2>3. PICK pass : pass = turn[n]
      OBVIOUS
    <2>4. Mending(pass) /\ Done(pass, n)
      BY <1>5, <2>1, <2>3
    <2>5. PICK next : next = Repair(pass)
      OBVIOUS
    <2>6. /\ Mending(next)
          /\ pass.position > Len(pass.groups) => next = pass
          /\ pass.position <= Len(pass.groups) => Ahead(next) = Ahead(pass) - 1
      BY <2>4, <2>5, RepairMends
    <2>7. Done(next, n + 1)
      <3>1. CASE pass.position > Len(pass.groups)
        BY <2>6, <3>1
      <3>2. CASE ~(pass.position > Len(pass.groups))
        <4>1. pass.position \in Nat /\ Len(pass.groups) \in Nat
          BY <2>4 DEF Mending, IsPass
        <4>2. PICK a \in Int : a = Ahead(pass)
          BY <4>1 DEF Ahead
        <4>3. Ahead(next) = a - 1 /\ a + n <= N - 2
          BY <2>4, <2>6, <3>2, <4>1, <4>2
        <4>4. (a - 1) + (n + 1) <= N - 2
          BY <1>2, <4>2, <4>3
        <4> QED BY <4>3, <4>4
      <3> QED BY <3>1, <3>2
    <2> HIDE DEF Done
    <2> QED BY <2>1, <2>2, <2>3, <2>5, <2>6, <2>7
  <1>6. \A n \in 0 .. N : n \in Good
    <2> HIDE DEF Good
    <2> QED BY <1>2, <1>4, <1>5, Upwards
  <1>7. N \in 0 .. N /\ N <= N
    BY <1>2
  <1>8. PICK last : last = turn[N]
    OBVIOUS
  <1>9. Mending(last) /\ Done(last, N)
    BY <1>6, <1>7, <1>8
  <1>10. PICK position \in Nat, mended \in Seq(Seq(Timing)) :
           position = last.position /\ mended = last.groups
    BY <1>9 DEF Mending, IsPass
  <1>11. Len(mended) \in Nat /\ position > Len(mended)
    <2>1. Len(mended) \in Nat
      OBVIOUS
    <2>2. position > Len(mended) \/ (Len(mended) - position) + N <= N - 2
      BY <1>9, <1>10 DEF Ahead
    <2> HIDE DEF N
    <2> QED BY <1>2, <1>10, <2>1, <2>2
  <1>12. Settled(mended, Len(mended))
    <2>1. Settled(mended, position - 1)
      BY <1>9, <1>10 DEF Mending
    <2> SUFFICES ASSUME NEW j \in 2 .. Len(mended), Len(mended[j]) = 1
                 PROVE  ~MayJoin(mended, j - 1) /\ ~MayJoin(mended, j)
      BY DEF Settled
    <2>2. j <= position - 1
      BY <1>10, <1>11
    <2> QED BY <2>1, <2>2 DEF Settled
  <1> QED BY <1>1, <1>8, <1>9, <1>10, <1>12 DEF Mending


(* The captions of a scene: what a reader asks of each group, and of each  *)
(* lone word beside its neighbour.                                         *)
Readable(groups) ==
    /\ AllTidy(groups)
    /\ \A i \in 1 .. Len(groups) - 1 :
         1 \in {Len(groups[i]), Len(groups[i + 1])} => ~MayJoin(groups, i)

(* The first group is tried last: a join there opens nothing to the lone   *)
(* words the repair has settled.                                           *)
LEMMA AbsorbReads ==
    ASSUME NEW groups \in Seq(Seq(Timing)), AllTidy(groups)
    PROVE  AbsorbOrphans(groups) \in Seq(Seq(Timing)) /\ Readable(AbsorbOrphans(groups))
  <1>1. PICK mended \in Seq(Seq(Timing)) :
          mended = Repaired(groups) /\ AllTidy(mended) /\ Settled(mended, Len(mended))
    BY RepairedSettled
  <1>2. PICK n \in Nat : n = Len(mended)
    OBVIOUS
  <1>3. ASSUME NEW i \in 2 .. n, Len(mended[i]) = 1
        PROVE  ~MayJoin(mended, i - 1) /\ ~MayJoin(mended, i)
    <2>1. i <= n
      BY <1>2
    <2> QED BY <1>1, <1>2, <1>3, <2>1 DEF Settled
  <1>4. AbsorbOrphans(groups) =
          IF mended # <<>> /\ Len(mended[1]) = 1 /\ MayJoin(mended, 1)
            THEN Join(mended, 1) ELSE mended
    BY <1>1 DEF AbsorbOrphans
  <1>5. CASE mended # <<>> /\ Len(mended[1]) = 1 /\ MayJoin(mended, 1)
    <2>1. 1 \in 1 .. Len(mended) - 1
      BY <1>5 DEF MayJoin
    <2>2. PICK after \in Seq(Seq(Timing)) : after = Join(mended, 1)
      BY <2>1, JoinIs
    <2>3. Len(after) = n - 1 /\ \A i \in 2 .. n - 1 : after[i] = mended[i + 1]
      <3>1. /\ Len(after) = Len(mended) - 1
            /\ \A i \in 1 + 1 .. Len(mended) - 1 : after[i] = mended[i + 1]
        BY <2>1, <2>2, JoinIs
      <3>2. 1 + 1 = 2 /\ Len(mended) - 1 = n - 1
        BY <1>2
      <3> QED BY <3>1, <3>2
    <2>4. AllTidy(after) /\ Len(after[1]) # 1
      BY <1>1, <1>5, <2>2, TidyJoin
    <2>5. ASSUME NEW i \in 1 .. Len(after) - 1, 1 \in {Len(after[i]), Len(after[i + 1])}
          PROVE  ~MayJoin(after, i)
      <3>1. SUFFICES ASSUME MayJoin(after, i) PROVE FALSE
        OBVIOUS
      <3>2. i \in Nat /\ i >= 1 /\ i + 1 <= n - 1
        BY <1>2, <2>3
      <3>3. MayJoin(mended, i + 1)
        <4>1. MayJoin(mended, IF i < 1 THEN i ELSE i + 1)
          BY <1>1, <1>5, <2>2, <3>1, MayJoinBefore
        <4>2. ~(i < 1)
          BY <3>2
        <4> QED BY <4>1, <4>2
      <3>4. CASE Len(after[i]) = 1
        <4>1. i # 1
          BY <2>4, <3>4
        <4>2. i \in 2 .. n - 1 /\ i + 1 \in 2 .. n
          BY <1>2, <3>2, <4>1
        <4>3. Len(mended[i + 1]) = 1
          BY <2>3, <3>4, <4>2
        <4> QED BY <1>3, <3>3, <4>2, <4>3
      <3>5. CASE Len(after[i + 1]) = 1
        <4>1. i + 1 \in 2 .. n - 1 /\ (i + 1) + 1 \in 2 .. n /\ ((i + 1) + 1) - 1 = i + 1
          BY <1>2, <3>2
        <4>2. Len(mended[(i + 1) + 1]) = 1
          BY <2>3, <3>5, <4>1
        <4>3. ~MayJoin(mended, ((i + 1) + 1) - 1)
          BY <1>3, <4>1, <4>2
        <4> QED BY <3>3, <4>1, <4>3
      <3> QED BY <2>5, <3>4, <3>5
    <2> QED BY <1>4, <1>5, <2>2, <2>4, <2>5 DEF Readable
  <1>6. CASE ~(mended # <<>> /\ Len(mended[1]) = 1 /\ MayJoin(mended, 1))
    <2>1. ASSUME NEW i \in 1 .. Len(mended) - 1, 1 \in {Len(mended[i]), Len(mended[i + 1])}
          PROVE  ~MayJoin(mended, i)
      <3>1. CASE Len(mended[i]) = 1
        <4>1. CASE i = 1
          <5>1. mended # <<>>
            BY <1>2, <2>1
          <5> QED BY <1>6, <3>1, <4>1, <5>1
        <4>2. CASE i # 1
          <5>1. i \in 2 .. n
            BY <1>2, <4>2
          <5> QED BY <1>3, <3>1, <5>1
        <4> QED BY <4>1, <4>2
      <3>2. CASE Len(mended[i + 1]) = 1
        <4>1. i + 1 \in 2 .. n /\ (i + 1) - 1 = i
          BY <1>2
        <4>2. ~MayJoin(mended, (i + 1) - 1)
          BY <1>3, <3>2, <4>1
        <4> QED BY <4>1, <4>2
      <3> QED BY <2>1, <3>1, <3>2
    <2> QED BY <1>1, <1>4, <1>6, <2>1 DEF Readable
  <1> QED BY <1>5, <1>6

LEMMA GroupsRead ==
    ASSUME NEW scene \in Seq(Timing)
    PROVE  /\ AbsorbOrphans(Grouped(scene)) \in Seq(Seq(Timing))
           /\ Readable(AbsorbOrphans(Grouped(scene)))
  <1>1. PICK groups \in Seq(Seq(Timing)) : groups = Grouped(scene)
    BY GroupedWords
  <1>2. ASSUME NEW i \in 1 .. Len(groups) PROVE Tidy(groups[i], Cap)
    <2>1. PICK group \in Seq(Timing) : group = groups[i]
      OBVIOUS
    <2>2. Tidy(group, MaxCharacters)
      BY <1>1, <2>1, GroupedTidy
    <2>3. PICK w \in Int, m \in Int, c \in Int :
            w = Width(group) /\ m = MaxCharacters /\ c = Cap /\ m <= c
      BY CapIsInt, CaptionAssumption, WidthBound
    <2>4. w <= m => w <= c
      BY <2>3
    <2> QED BY <2>1, <2>2, <2>3, <2>4 DEF Tidy
  <1>3. AllTidy(groups)
    BY <1>2 DEF AllTidy
  <1> QED BY <1>1, <1>3, AbsorbReads

(* The captions of a scene are its groups.                                 *)
LEMMA CuesAreGroups ==
    ASSUME NEW scene \in Seq(Timing)
    PROVE  /\ Len(GroupIntoCues(scene)) = Len(AbsorbOrphans(Grouped(scene)))
           /\ DOMAIN GroupIntoCues(scene) = 1 .. Len(AbsorbOrphans(Grouped(scene)))
           /\ \A i \in 1 .. Len(AbsorbOrphans(Grouped(scene))) :
                GroupIntoCues(scene)[i].words = AbsorbOrphans(Grouped(scene))[i]
  <1>1. PICK groups \in Seq(Seq(Timing)) : groups = AbsorbOrphans(Grouped(scene))
    BY GroupsRead
  <1>2. GroupIntoCues(scene) =
          [i \in DOMAIN groups |->
             [words |-> groups[i], start |-> groups[i][1].start, end |-> Last(groups[i]).end]]
    BY <1>1 DEF GroupIntoCues
  <1>3. DOMAIN groups = 1 .. Len(groups) /\ Len(groups) \in Nat
    OBVIOUS
  <1>4. DOMAIN GroupIntoCues(scene) = 1 .. Len(groups)
    BY <1>2, <1>3
  <1>5. Len(GroupIntoCues(scene)) = Len(groups)
    BY <1>3, <1>4
  <1>6. \A i \in 1 .. Len(groups) : GroupIntoCues(scene)[i].words = groups[i]
    BY <1>2, <1>3
  <1> QED BY <1>1, <1>4, <1>5, <1>6

(* The width of one cue, and of two side by side, counted in letters.      *)
LettersIn(cue) == FlattenSeq([n \in DOMAIN cue.words |-> cue.words[n].text])

LEMMA CueReads ==
    ASSUME NEW cue, NEW group \in Seq(Timing), cue.words = group, Tidy(group, Cap)
    PROVE  /\ \A n \in 1 .. Len(cue.words) - 1 : Ending(cue.words[n]) \notin SentenceEndings
           /\ Len(cue.words) <= MaxWords
           /\ \/ Len(cue.words) = 1
              \/ Len(LettersIn(cue)) + Len(cue.words) - 1 <= MaxCharacters + MergeSlack
  <1>1. LettersIn(cue) = FlattenSeq(TextsOf(group))
    BY DEF LettersIn, TextsOf
  <1>2. Width(group) = Len(LettersIn(cue)) + Len(group) - 1
    BY <1>1, LettersOfCue
  <1> QED BY <1>2 DEF Tidy, Unbroken, Cap

LEMMA CuesApart ==
    ASSUME NEW left, NEW right, NEW a \in Seq(Timing), NEW b \in Seq(Timing),
           left.words = a, right.words = b, ~(~EndsSentence(a) /\ Fits(a, b))
    PROVE  \/ Ending(Last(left.words)) \in SentenceEndings
           \/ Len(left.words) + Len(right.words) > MaxWords
           \/ Len(LettersIn(left)) + Len(LettersIn(right))
                + Len(left.words) + Len(right.words) - 1 > MaxCharacters + MergeSlack
  <1>1. LettersIn(left) = FlattenSeq(TextsOf(a)) /\ LettersIn(right) = FlattenSeq(TextsOf(b))
    BY DEF LettersIn, TextsOf
  <1>2. PICK p \in Nat, q \in Nat : p = Len(LettersIn(left)) /\ q = Len(LettersIn(right))
    BY <1>1, LettersOfCue
  <1>3. PICK x \in Nat, y \in Nat : x = Len(a) /\ y = Len(b)
    OBVIOUS
  <1>4. Width(a) = p + x - 1 /\ Width(b) = q + y - 1
    BY <1>1, <1>2, <1>3, LettersOfCue
  <1>5. Width(a \o b) = p + q + x + y - 1
    <2>1. Width(a \o b) = (p + x - 1) + (q + y - 1) + 1
      BY <1>4, WidthJoin
    <2>2. (p + x - 1) + (q + y - 1) + 1 = p + q + x + y - 1
      BY <1>2, <1>3
    <2> QED BY <2>1, <2>2
  <1>6. PICK cap \in Int, most \in Int : cap = MaxCharacters + MergeSlack /\ most = MaxWords
    BY CapIsInt DEF Cap
  <1>7. x + y <= most \/ x + y > most
    BY <1>3, <1>6
  <1>8. p + q + x + y - 1 <= cap \/ p + q + x + y - 1 > cap
    BY <1>2, <1>3, <1>6
  <1>9. ~EndsSentence(a) => ~(x + y <= most) \/ ~(p + q + x + y - 1 <= cap)
    BY <1>3, <1>5, <1>6 DEF Fits
  <1>10. EndsSentence(a) => Ending(Last(left.words)) \in SentenceEndings
    BY DEF EndsSentence
  <1> QED BY <1>2, <1>3, <1>6, <1>7, <1>8, <1>9, <1>10

Reads(cues) ==
    /\ \A i \in DOMAIN cues :
         /\ \A n \in 1 .. Len(cues[i].words) - 1 :
              Ending(cues[i].words[n]) \notin SentenceEndings
         /\ Len(cues[i].words) <= MaxWords
         /\ \/ Len(cues[i].words) = 1
            \/ Len(LettersIn(cues[i])) + Len(cues[i].words) - 1 <= MaxCharacters + MergeSlack
    /\ \A i \in 1 .. Len(cues) - 1 :
         1 \in {Len(cues[i].words), Len(cues[i + 1].words)} =>
            \/ Ending(Last(cues[i].words)) \in SentenceEndings
            \/ Len(cues[i].words) + Len(cues[i + 1].words) > MaxWords
            \/ Len(LettersIn(cues[i])) + Len(LettersIn(cues[i + 1]))
                 + Len(cues[i].words) + Len(cues[i + 1].words) - 1 > MaxCharacters + MergeSlack

LEMMA SceneReads ==
    ASSUME NEW scene \in Seq(Timing), NEW cues, cues = GroupIntoCues(scene)
    PROVE  Reads(cues)
  <1>1. PICK groups \in Seq(Seq(Timing)) :
          groups = AbsorbOrphans(Grouped(scene)) /\ Readable(groups)
    BY GroupsRead
  <1>2. PICK n \in Nat : n = Len(groups)
    OBVIOUS
  <1>3. /\ Len(cues) = n /\ DOMAIN cues = 1 .. n
        /\ \A i \in 1 .. n : cues[i].words = groups[i]
    BY <1>1, <1>2, CuesAreGroups
  <1>4. ASSUME NEW i \in DOMAIN cues
        PROVE  /\ \A m \in 1 .. Len(cues[i].words) - 1 :
                    Ending(cues[i].words[m]) \notin SentenceEndings
               /\ Len(cues[i].words) <= MaxWords
               /\ \/ Len(cues[i].words) = 1
                  \/ Len(LettersIn(cues[i])) + Len(cues[i].words) - 1
                       <= MaxCharacters + MergeSlack
    <2>1. i \in 1 .. n
      BY <1>3
    <2>2. PICK group \in Seq(Timing) : group = groups[i]
      BY <1>2, <2>1
    <2>3. Tidy(group, Cap) /\ cues[i].words = group
      BY <1>1, <1>2, <1>3, <2>1, <2>2 DEF Readable, AllTidy
    <2> QED BY <2>3, CueReads
  <1>5. ASSUME NEW i \in 1 .. Len(cues) - 1,
               1 \in {Len(cues[i].words), Len(cues[i + 1].words)}
        PROVE  \/ Ending(Last(cues[i].words)) \in SentenceEndings
               \/ Len(cues[i].words) + Len(cues[i + 1].words) > MaxWords
               \/ Len(LettersIn(cues[i])) + Len(LettersIn(cues[i + 1]))
                    + Len(cues[i].words) + Len(cues[i + 1].words) - 1
                    > MaxCharacters + MergeSlack
    <2>1. i \in 1 .. n - 1 /\ i \in 1 .. n /\ i + 1 \in 1 .. n
      BY <1>2, <1>3
    <2>2. PICK a \in Seq(Timing), b \in Seq(Timing) : a = groups[i] /\ b = groups[i + 1]
      BY <1>2, <2>1
    <2>3. cues[i].words = a /\ cues[i + 1].words = b
      BY <1>3, <2>1, <2>2
    <2>4. ~MayJoin(groups, i)
      BY <1>1, <1>2, <1>5, <2>1, <2>2, <2>3 DEF Readable
    <2>5. ~(~EndsSentence(a) /\ Fits(a, b))
      BY <1>2, <2>1, <2>2, <2>4 DEF MayJoin
    <2> QED BY <2>3, <2>5, CuesApart
  <1> QED BY <1>4, <1>5 DEF Reads

(* The captions of a compiled timeline read well: none runs on past the    *)
(* end of a sentence, none holds more words or (unless it is one word) more*)
(* characters than the repair may leave, and none is a lone word that would*)
(* have fitted beside its neighbour. It holds of what the greedy loop and  *)
(* the single repair pass leave of any words whatsoever.                   *)
THEOREM CaptionsAreReadable == Spec => []CaptionsReadWell
  <1>1. Inv => CaptionsReadWell
    <2> SUFFICES ASSUME Inv, NEW k \in Scene \ cards, NEW cues,
                        cues = GroupIntoCues(spans[k].words)
                 PROVE  Reads(cues)
      BY Zenon DEF CaptionsReadWell, Reads, LettersIn
    <2>1. spans \in Seq(Span)
      BY DEF Inv, TypeOK, Span
    <2>2. PICK scene \in Seq(Timing) : scene = spans[k].words
      <3>1. spans[k] \in Span
        BY <2>1 DEF Scene
      <3>2. spans[k].words \in Seq(Timing)
        BY <3>1 DEF Span
      <3> QED BY <3>2
    <2> QED BY <2>2, SceneReads
  <1> QED BY SpecInv, <1>1, PTL
=============================================================================
