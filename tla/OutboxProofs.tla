---------------------------- MODULE OutboxProofs ----------------------------
(***************************************************************************)
(* Proofs about Outbox, for any events, writing transactions, overlapping  *)
(* passes, batch size and number of failures: the drain implements         *)
(* EventChannel, and only failures announce an event again.                *)
(***************************************************************************)
EXTENDS Outbox, TLAPS

(* What a pass may rely on: its rows are its own, committed, not yet       *)
(* stamped, each once; those it sent have been delivered.                  *)
Holding(d) ==
    /\ drain[d].left \subseteq Committed
    /\ Claimed(d) \subseteq Unpublished
    /\ Claimed(d) \cap drain[d].left = {}
    /\ \A i, j \in 1..Len(drain[d].batch) :
          drain[d].batch[i] = drain[d].batch[j] => i = j
    /\ drain[d].sent <= Len(drain[d].batch)
    /\ drain[d].at # "publishing" => drain[d].sent = 0
    /\ \A e \in Sent(d) : deliveries[e] > 0

Exclusive == \A d, o \in Drain : d # o => Claimed(d) \cap Claimed(o) = {}

Honest == \A e \in Event : published[e] => e \in Committed /\ deliveries[e] > 0

(* Every delivery but one is some failed pass's. *)
Counted ==
    \A e \in Event :
        /\ deliveries[e] <= lost + 1
        /\ ~published[e] /\ (\A d \in Drain : e \notin Sent(d)) => deliveries[e] <= lost

IInv ==
    /\ TypeOK
    /\ \A d \in Drain : Holding(d)
    /\ Exclusive
    /\ Honest
    /\ Counted

PassRow == [at : {"off", "claiming", "publishing"}, left : SUBSET Event,
            skipped : SUBSET Event, batch : Seq(Event), sent : Nat]

-----------------------------------------------------------------------------
(* A pass that is off holds nothing. *)
LEMMA OffHoldsNothing ==
    /\ Off \in PassRow
    /\ Off.at = "off" /\ Off.left = {} /\ Off.batch = <<>> /\ Off.sent = 0 /\ Len(Off.batch) = 0
  BY DEF Off, PassRow

(* The initial state. *)
LEMMA InitIInv == Init => IInv
  <1> SUFFICES ASSUME Init PROVE IInv
    OBVIOUS
  <1> USE OutboxAssumption
  <1>1. \A d \in Drain : drain[d] = Off
    BY DEF Init
  <1>2. \A d \in Drain : Claimed(d) = {} /\ Sent(d) = {}
    BY <1>1, OffHoldsNothing DEF Claimed, Sent
  <1>3. TypeOK
    BY <1>1, OffHoldsNothing DEF Init, TypeOK, PassRow
  <1>4. \A d \in Drain : Holding(d)
    BY <1>1, <1>2, OffHoldsNothing DEF Holding
  <1>5. Exclusive
    BY <1>2 DEF Exclusive
  <1>6. Honest /\ Counted
    BY <1>2 DEF Init, Honest, Counted
  <1> QED BY <1>3, <1>4, <1>5, <1>6 DEF IInv

-----------------------------------------------------------------------------
(* A step of one pass that sends and stamps nothing: it keeps the          *)
(* invariant if the pass's new row does.                                   *)
LEMMA Quiet ==
    ASSUME IInv, NEW d \in Drain, NEW r \in PassRow, Goes(d, r),
           UNCHANGED <<writers, published, deliveries>>,
           lost' \in Nat, lost <= lost',
           r.left \subseteq Committed,
           \A i \in 1..Len(r.batch) :
              /\ r.batch[i] \in Unpublished
              /\ r.batch[i] \notin r.left
              /\ \A o \in Drain \ {d} : r.batch[i] \notin Claimed(o),
           \A i, j \in 1..Len(r.batch) : r.batch[i] = r.batch[j] => i = j,
           r.sent = 0,
           lost < lost' \/ drain[d].sent = 0
    PROVE  IInv'
  <1>1. TypeOK /\ drain \in [Drain -> PassRow]
    BY DEF IInv, TypeOK, PassRow
  <1>2. drain'[d] = r /\ \A o \in Drain \ {d} : drain'[o] = drain[o]
    BY <1>1 DEF Goes
  <1>3. TypeOK'
    <2>1. drain' \in [Drain -> PassRow]
      BY <1>1 DEF Goes
    <2> QED BY <1>1, <2>1 DEF TypeOK, writers, PassRow
  <1>4. Committed' = Committed /\ Unpublished' = Unpublished
    BY DEF Committed, Unpublished, writers
  <1>5. /\ \A o \in Drain \ {d} : Claimed(o)' = Claimed(o) /\ Sent(o)' = Sent(o)
        /\ Claimed(d)' = {r.batch[i] : i \in 1..Len(r.batch)}
        /\ Sent(d)' = {}
    BY <1>2 DEF Claimed, Sent
  <1>6. Len(r.batch) \in Nat
    BY DEF PassRow
  <1>7. Holding(d)'
    BY <1>2, <1>4, <1>5, <1>6 DEF Holding
  <1>8. ASSUME NEW o \in Drain \ {d} PROVE Holding(o)'
    <2>1. Holding(o)
      BY DEF IInv
    <2> QED BY <1>2, <1>4, <1>5, <2>1 DEF Holding
  <1>9. Exclusive'
    BY <1>5 DEF Exclusive, IInv
  <1>10. Honest'
    BY <1>4 DEF Honest, IInv
  <1>11. Counted'
    <2> SUFFICES ASSUME NEW e \in Event
                 PROVE  /\ deliveries[e] <= lost' + 1
                        /\ ~published[e] /\ (\A o \in Drain : e \notin Sent(o)')
                             => deliveries[e] <= lost'
      BY DEF Counted
    <2>1. deliveries[e] \in Nat /\ lost \in Nat
      BY <1>1 DEF TypeOK
    <2>2. /\ deliveries[e] <= lost + 1
          /\ ~published[e] /\ (\A o \in Drain : e \notin Sent(o)) => deliveries[e] <= lost
      BY DEF IInv, Counted
    <2>3. CASE lost < lost'
      BY <2>1, <2>2, <2>3
    <2>4. CASE drain[d].sent = 0
      <3>1. Sent(d) = {}
        BY <2>4 DEF Sent
      <3> QED BY <1>5, <2>1, <2>2, <3>1
    <2> QED BY <2>3, <2>4
  <1> QED BY <1>3, <1>7, <1>8, <1>9, <1>10, <1>11 DEF IInv

-----------------------------------------------------------------------------
(* A writing transaction only makes more rows committed.                   *)
LEMMA CommittedGrows ==
    ASSUME TypeOK, NEW t \in Txn, TxnNext(t)
    PROVE  Committed \subseteq Committed'
  <1>1. CASE Begin(t) \/ Rollback(t)
    BY <1>1 DEF Committed, Begin, Rollback
  <1>2. CASE Commit(t)
    <2>1. ended[t] = 0 /\ ended' = [ended EXCEPT ![t] = clock]
      BY <1>2 DEF Commit, InProgress
    <2>2. \A e \in Committed : Writer[e] # t
      BY <2>1 DEF Committed
    <2>3. \A e \in Committed : ended'[Writer[e]] = ended[Writer[e]]
      BY OutboxAssumption, <2>1, <2>2 DEF Committed, TypeOK, OutboxAssumption
    <2> QED BY <2>3 DEF Committed
  <1> QED BY <1>1, <1>2 DEF TxnNext

LEMMA WritersKeep ==
    ASSUME IInv, NEW t \in Txn, TxnNext(t)
    PROVE  IInv'
  <1>1. TypeOK /\ OutboxAssumption
    BY OutboxAssumption DEF IInv
  <1>2. UNCHANGED <<published, drain, deliveries, lost>>
    BY DEF TxnNext, Begin, Commit, Rollback
  <1>3. TypeOK'
    <2>1. CASE Begin(t)
      BY <1>1, <2>1 DEF TypeOK, Begin
    <2>2. CASE Commit(t)
      BY <1>1, <2>2 DEF TypeOK, Commit
    <2>3. CASE Rollback(t)
      BY <1>1, <2>3 DEF TypeOK, Rollback
    <2> QED BY <2>1, <2>2, <2>3 DEF TxnNext
  <1>4. Committed \subseteq Committed'
    BY CommittedGrows DEF IInv
  <1>5. \A d \in Drain : Claimed(d)' = Claimed(d) /\ Sent(d)' = Sent(d)
    BY <1>2 DEF Claimed, Sent
  <1>6. Unpublished \subseteq Unpublished'
    BY <1>2, <1>4 DEF Unpublished
  <1>7. ASSUME NEW d \in Drain PROVE Holding(d)'
    <2>1. Holding(d)
      BY DEF IInv
    <2> QED BY <1>2, <1>4, <1>5, <1>6, <2>1 DEF Holding
  <1>8. Exclusive' /\ Honest' /\ Counted'
    BY <1>2, <1>4, <1>5 DEF IInv, Exclusive, Honest, Counted
  <1> QED BY <1>3, <1>7, <1>8 DEF IInv

-----------------------------------------------------------------------------
(* The claim.                                                              *)

LEMMA TickKeeps ==
    ASSUME IInv, NEW d \in Drain, Tick(d)
    PROVE  IInv'
  <1> DEFINE r == [Off EXCEPT !.at = "claiming", !.left = Unpublished]
  <1>1. Unpublished \subseteq Committed /\ Committed \subseteq Event
    BY DEF Unpublished, Committed
  <1>2. /\ r \in PassRow /\ r.left = Unpublished /\ r.batch = <<>> /\ r.sent = 0
        /\ Len(r.batch) = 0
    <2>1. Off \in PassRow /\ Unpublished \in SUBSET Event
      BY <1>1, OffHoldsNothing
    <2>2. r \in PassRow
      BY <2>1 DEF PassRow
    <2>3. r.left = Unpublished /\ r.batch = <<>> /\ r.sent = 0
      BY DEF Off
    <2>4. Len(<<>>) = 0
      OBVIOUS
    <2> QED BY <2>2, <2>3, <2>4
  <1>3. lost \in Nat /\ drain[d].sent = 0
    BY DEF IInv, TypeOK, Holding, Tick
  <1>4. Goes(d, r) /\ UNCHANGED <<writers, published, deliveries, lost>>
    BY DEF Tick
  <1> HIDE DEF r
  <1> QED BY <1>1, <1>2, <1>3, <1>4, Quiet

(* What is already claimed, seen from the row. *)
LEMMA Held ==
    ASSUME IInv, NEW d \in Drain
    PROVE  /\ drain[d] \in PassRow
           /\ Len(drain[d].batch) \in Nat
           /\ drain[d].left \subseteq Committed
           /\ \A i \in 1..Len(drain[d].batch) :
                /\ drain[d].batch[i] \in Unpublished
                /\ drain[d].batch[i] \notin drain[d].left
                /\ \A o \in Drain \ {d} : drain[d].batch[i] \notin Claimed(o)
           /\ \A i, j \in 1..Len(drain[d].batch) :
                drain[d].batch[i] = drain[d].batch[j] => i = j
  <1>1. drain[d] \in PassRow
    BY DEF IInv, TypeOK, PassRow
  <1>2. Holding(d) /\ Exclusive
    BY DEF IInv
  <1>3. \A i \in 1..Len(drain[d].batch) : drain[d].batch[i] \in Claimed(d)
    BY DEF Claimed
  <1> QED BY <1>1, <1>2, <1>3 DEF Holding, Exclusive, PassRow

LEMMA VisitKeeps ==
    ASSUME IInv, NEW d \in Drain, Visit(d)
    PROVE  IInv'
  <1> DEFINE r == drain[d]
             pass(e) == [r EXCEPT !.left = @ \ {e}, !.skipped = @ \cup {e}]
             drop(e) == [r EXCEPT !.left = @ \ {e}]
             take(e) == [r EXCEPT !.left = @ \ {e}, !.batch = Append(@, e)]
  <1>1. r \in PassRow /\ lost \in Nat
    BY Held DEF IInv, TypeOK
  <1>2. r.sent = 0
    BY DEF IInv, Holding, Visit
  <1>3. PICK e \in Oldest(r.left) :
            Goes(d, IF Locked(d, e) THEN pass(e) ELSE IF published[e] THEN drop(e) ELSE take(e))
    BY DEF Visit
  <1>4. e \in r.left /\ e \in Event
    BY <1>1 DEF Oldest, PassRow
  <1>5. UNCHANGED <<writers, published, deliveries, lost>>
    BY DEF Visit
  <1>6. /\ pass(e) \in PassRow /\ pass(e).left = r.left \ {e} /\ pass(e).batch = r.batch
        /\ pass(e).sent = r.sent
    BY <1>1, <1>4 DEF PassRow
  <1>7. /\ drop(e) \in PassRow /\ drop(e).left = r.left \ {e} /\ drop(e).batch = r.batch
        /\ drop(e).sent = r.sent
    BY <1>1, <1>4 DEF PassRow
  <1>8. /\ take(e) \in PassRow /\ take(e).left = r.left \ {e}
        /\ take(e).batch = Append(r.batch, e) /\ take(e).sent = r.sent
    <2>1. Append(r.batch, e) \in Seq(Event) /\ r.left \ {e} \in SUBSET Event
      BY <1>1, <1>4 DEF PassRow
    <2>2. take(e) \in PassRow
      BY <1>1, <2>1 DEF PassRow
    <2>3. take(e).left = r.left \ {e} /\ take(e).batch = Append(r.batch, e)
          /\ take(e).sent = r.sent
      BY <1>1 DEF PassRow
    <2> QED BY <2>2, <2>3
  <1> HIDE DEF pass, drop, take
  <1>9. CASE Locked(d, e)
    <2>1. Goes(d, pass(e))
      BY <1>3, <1>9
    <2> QED BY <1>1, <1>2, <1>5, <1>6, <2>1, Held, Quiet
  <1>10. CASE ~Locked(d, e) /\ published[e]
    <2>1. Goes(d, drop(e))
      BY <1>3, <1>10
    <2> QED BY <1>1, <1>2, <1>5, <1>7, <2>1, Held, Quiet
  <1>11. CASE ~Locked(d, e) /\ ~published[e]
    <2> DEFINE b == Append(r.batch, e)
    <2>1. Goes(d, take(e))
      BY <1>3, <1>11
    <2>2. /\ Len(b) = Len(r.batch) + 1 /\ b[Len(b)] = e
          /\ \A i \in 1..Len(r.batch) : b[i] = r.batch[i]
      BY <1>1, <1>4 DEF PassRow
    <2>3. Len(r.batch) \in Nat /\ r.left \subseteq Committed
      BY Held
    <2>4. e \in Unpublished /\ \A o \in Drain \ {d} : e \notin Claimed(o)
      BY <1>4, <1>11, <2>3 DEF Unpublished, Locked
    <2>5. \A i \in 1..Len(r.batch) : /\ r.batch[i] \in Unpublished /\ r.batch[i] \notin r.left
                                    /\ \A o \in Drain \ {d} : r.batch[i] \notin Claimed(o)
      BY Held
    <2>6. \A i, j \in 1..Len(r.batch) : r.batch[i] = r.batch[j] => i = j
      BY Held
    <2> HIDE DEF b
    <2>7. \A i \in 1..Len(b) : i \in 1..Len(r.batch) \/ i = Len(b)
      BY <2>2, <2>3
    <2>8. ASSUME NEW i \in 1..Len(b)
          PROVE  /\ b[i] \in Unpublished
                 /\ b[i] \notin r.left \ {e}
                 /\ \A o \in Drain \ {d} : b[i] \notin Claimed(o)
      BY <2>2, <2>4, <2>5, <2>7
    <2>9. ASSUME NEW i \in 1..Len(b), NEW j \in 1..Len(b), b[i] = b[j] PROVE i = j
      <3>1. ASSUME NEW k \in 1..Len(r.batch) PROVE b[k] # e
        BY <1>4, <2>2, <2>5, <3>1
      <3> QED BY <2>2, <2>6, <2>7, <2>9, <3>1
    <2>10. take(e).batch = b
      BY <1>8 DEF b
    <2> QED BY <1>1, <1>2, <1>5, <1>8, <2>1, <2>3, <2>8, <2>9, <2>10, Quiet
  <1> QED BY <1>9, <1>10, <1>11

LEMMA ClaimKeeps ==
    ASSUME IInv, NEW d \in Drain, Claim(d)
    PROVE  IInv'
  <1> DEFINE r == drain[d]
             go == [r EXCEPT !.at = "publishing", !.left = {}]
  <1>1. r \in PassRow /\ lost \in Nat
    BY Held DEF IInv, TypeOK
  <1>2. r.sent = 0
    BY DEF IInv, Holding, Claim
  <1>3. UNCHANGED <<writers, published, deliveries, lost>>
    BY DEF Claim
  <1>4. /\ go \in PassRow /\ go.left = {} /\ go.batch = r.batch /\ go.sent = r.sent
    BY <1>1 DEF PassRow
  <1>5. Goes(d, Off) \/ Goes(d, go)
    BY DEF Claim
  <1> HIDE DEF go
  <1>6. CASE Goes(d, Off)
    BY <1>1, <1>2, <1>3, <1>6, OffHoldsNothing, Quiet
  <1>7. CASE Goes(d, go)
    BY <1>1, <1>2, <1>3, <1>4, <1>7, Held, Quiet
  <1> QED BY <1>5, <1>6, <1>7

LEMMA FailKeeps ==
    ASSUME IInv, NEW d \in Drain, Fail(d)
    PROVE  IInv'
  <1>1. lost \in Nat /\ lost' = lost + 1 /\ Goes(d, Off)
    BY DEF IInv, TypeOK, Fail
  <1>2. UNCHANGED <<writers, published, deliveries>>
    BY DEF Fail
  <1> QED BY <1>1, <1>2, OffHoldsNothing, Quiet

-----------------------------------------------------------------------------
(* Publishing and stamping.                                                *)

(* The row a pass publishes next: its own, unpublished and not sent yet.   *)
LEMMA NextRow ==
    ASSUME IInv, NEW d \in Drain, Publish(d)
    PROVE  LET e == drain[d].batch[drain[d].sent + 1] IN
           /\ e \in Event /\ e \in Committed /\ ~published[e]
           /\ \A o \in Drain : e \notin Sent(o)
           /\ drain[d].sent + 1 \in 1..Len(drain[d].batch)
  <1> DEFINE k == drain[d].sent + 1
             e == drain[d].batch[k]
  <1>1. drain[d] \in PassRow /\ drain[d].sent \in Nat /\ Len(drain[d].batch) \in Nat
    BY Held DEF PassRow
  <1>2. k \in 1..Len(drain[d].batch)
    BY <1>1 DEF Publish
  <1>3. /\ e \in Unpublished
        /\ \A o \in Drain \ {d} : e \notin Claimed(o)
        /\ \A i, j \in 1..Len(drain[d].batch) : drain[d].batch[i] = drain[d].batch[j] => i = j
    BY <1>2, Held
  <1>4. e \in Event /\ e \in Committed /\ ~published[e]
    BY <1>3 DEF Unpublished, Committed
  <1>5. e \notin Sent(d)
    <2> SUFFICES ASSUME NEW i \in 1..drain[d].sent, drain[d].batch[i] = e PROVE FALSE
      BY DEF Sent
    <2>1. i \in 1..Len(drain[d].batch) /\ i # k
      BY <1>1, <1>2
    <2> QED BY <1>2, <1>3, <2>1
  <1>6. ASSUME NEW o \in Drain \ {d} PROVE e \notin Sent(o)
    <2>1. drain[o].sent \in Nat /\ Len(drain[o].batch) \in Nat
      BY Held DEF PassRow
    <2>2. drain[o].sent <= Len(drain[o].batch)
      BY DEF IInv, Holding
    <2>3. Sent(o) \subseteq Claimed(o)
      BY <2>1, <2>2 DEF Sent, Claimed
    <2> QED BY <1>3, <2>3
  <1> QED BY <1>2, <1>4, <1>5, <1>6

LEMMA PublishKeeps ==
    ASSUME IInv, NEW d \in Drain, Publish(d)
    PROVE  IInv'
  <1> DEFINE k == drain[d].sent + 1
             e == drain[d].batch[k]
             r == [drain[d] EXCEPT !.sent = k]
  <1>1. /\ TypeOK /\ drain[d] \in PassRow /\ drain[d].sent \in Nat
        /\ drain \in [Drain -> PassRow]
    BY Held DEF IInv, TypeOK, PassRow
  <1>2. /\ e \in Event /\ e \in Committed /\ ~published[e]
        /\ \A o \in Drain : e \notin Sent(o)
        /\ k \in 1..Len(drain[d].batch)
    BY NextRow
  <1>3. drain' = [drain EXCEPT ![d] = r] /\ deliveries' = [deliveries EXCEPT ![e] = @ + 1]
        /\ UNCHANGED <<writers, published, lost>> /\ drain[d].at = "publishing"
    BY DEF Publish, Goes
  <1>4. /\ r \in PassRow /\ r.left = drain[d].left /\ r.batch = drain[d].batch
        /\ r.sent = k /\ r.at = "publishing"
    <2>1. drain[d] \in PassRow /\ k \in Nat
      BY <1>1
    <2>2. r.left = drain[d].left /\ r.batch = drain[d].batch /\ r.sent = k
      BY <2>1 DEF PassRow
    <2>3. r.at = "publishing"
      BY <2>1, <1>3 DEF PassRow
    <2>4. r \in PassRow
      BY <2>1 DEF PassRow
    <2> QED BY <2>2, <2>3, <2>4
  <1> HIDE DEF r
  <1>5. drain'[d] = r /\ \A o \in Drain \ {d} : drain'[o] = drain[o]
    BY <1>1, <1>3
  <1>6. /\ Committed' = Committed /\ Unpublished' = Unpublished
        /\ \A o \in Drain : Claimed(o)' = Claimed(o)
        /\ \A o \in Drain \ {d} : Sent(o)' = Sent(o)
    BY <1>3, <1>4, <1>5 DEF Committed, Unpublished, Claimed, Sent, writers
  <1>7. Sent(d)' = Sent(d) \cup {e}
    <2>1. Sent(d)' = {drain[d].batch[i] : i \in 1..k}
      BY <1>4, <1>5 DEF Sent
    <2>2. 1..k = (1..drain[d].sent) \cup {k}
      BY <1>1
    <2> QED BY <2>1, <2>2 DEF Sent
  <1>8. /\ deliveries \in [Event -> Nat] /\ deliveries' \in [Event -> Nat] /\ lost \in Nat
        /\ deliveries'[e] = deliveries[e] + 1
        /\ \A f \in Event \ {e} : deliveries'[f] = deliveries[f]
    BY <1>1, <1>2, <1>3 DEF TypeOK
  <1>9. \A f \in Event : deliveries[f] > 0 => deliveries'[f] > 0
    BY <1>8
  <1> HIDE DEF e
  <1>10. TypeOK'
    <2>1. drain' \in [Drain -> PassRow]
      BY <1>1, <1>3, <1>4
    <2> QED BY <1>1, <1>3, <1>8, <2>1 DEF TypeOK, writers, PassRow
  <1>11. Holding(d)'
    <2>1. Holding(d)
      BY DEF IInv
    <2>2. \A f \in Sent(d) : f \in Event /\ deliveries[f] > 0
      <3>1. Sent(d) \subseteq Claimed(d)
        BY <1>1, <2>1 DEF Holding, Sent, Claimed, PassRow
      <3> QED BY <2>1, <3>1 DEF Holding, Unpublished, Committed
    <2>3. \A f \in Sent(d)' : deliveries'[f] > 0
      BY <1>2, <1>7, <1>8, <1>9, <2>2
    <2>4. r.sent <= Len(r.batch)
      BY <1>2, <1>4
    <2> QED BY <1>4, <1>5, <1>6, <2>1, <2>3, <2>4 DEF Holding
  <1>12. ASSUME NEW o \in Drain \ {d} PROVE Holding(o)'
    <2>1. Holding(o)
      BY DEF IInv
    <2>2. \A f \in Sent(o) : deliveries'[f] > 0
      <3>1. drain[o] \in PassRow
        BY Held
      <3>2. Sent(o) \subseteq Event
        BY <2>1, <3>1 DEF Holding, Sent, Claimed, Unpublished, Committed, PassRow
      <3> QED BY <1>9, <2>1, <3>2 DEF Holding
    <2> QED BY <1>5, <1>6, <2>1, <2>2 DEF Holding
  <1>13. Exclusive'
    BY <1>6 DEF Exclusive, IInv
  <1>14. Honest'
    BY <1>3, <1>6, <1>9 DEF Honest, IInv
  <1>15. Counted'
    <2> SUFFICES ASSUME NEW f \in Event
                 PROVE  /\ deliveries'[f] <= lost + 1
                        /\ ~published[f] /\ (\A o \in Drain : f \notin Sent(o)')
                             => deliveries'[f] <= lost
      BY <1>3 DEF Counted
    <2>1. /\ deliveries[f] <= lost + 1
          /\ ~published[f] /\ (\A o \in Drain : f \notin Sent(o)) => deliveries[f] <= lost
      BY DEF IInv, Counted
    <2>2. CASE f = e
      BY <1>2, <1>7, <1>8, <2>1, <2>2
    <2>3. CASE f # e
      BY <1>6, <1>7, <1>8, <2>1, <2>3
    <2> QED BY <2>2, <2>3
  <1> QED BY <1>10, <1>11, <1>12, <1>13, <1>14, <1>15 DEF IInv

LEMMA AllSent ==
    ASSUME IInv, NEW d \in Drain, Stamp(d)
    PROVE  /\ Claimed(d) = Sent(d)
           /\ \A e \in Claimed(d) : e \in Event /\ e \in Committed /\ deliveries[e] > 0
  <1>1. Claimed(d) = Sent(d)
    BY DEF Stamp, Claimed, Sent
  <1> QED BY <1>1 DEF IInv, Holding, Unpublished, Committed

LEMMA StampKeeps ==
    ASSUME IInv, NEW d \in Drain, Stamp(d)
    PROVE  IInv'
  <1>1. TypeOK /\ drain \in [Drain -> PassRow]
    BY DEF IInv, TypeOK, PassRow
  <1>2. /\ drain' = [drain EXCEPT ![d] = Off]
        /\ published' = [e \in Event |-> published[e] \/ e \in Claimed(d)]
        /\ UNCHANGED <<writers, deliveries, lost>>
    BY DEF Stamp, Goes
  <1>3. drain'[d] = Off /\ \A o \in Drain \ {d} : drain'[o] = drain[o]
    BY <1>1, <1>2
  <1>4. /\ \A o \in Drain \ {d} : Claimed(o)' = Claimed(o) /\ Sent(o)' = Sent(o)
        /\ Claimed(d)' = {} /\ Sent(d)' = {}
        /\ Committed' = Committed
    BY <1>2, <1>3, OffHoldsNothing DEF Claimed, Sent, Committed, writers
  <1>5. TypeOK'
    <2>1. drain' \in [Drain -> PassRow]
      BY <1>1, <1>2, OffHoldsNothing
    <2>2. published' \in [Event -> BOOLEAN]
      BY <1>1, <1>2 DEF TypeOK
    <2> QED BY <1>1, <1>2, <2>1, <2>2 DEF TypeOK, writers, PassRow
  <1>6. Holding(d)'
    BY <1>3, <1>4, OffHoldsNothing DEF Holding
  <1>7. ASSUME NEW o \in Drain \ {d} PROVE Holding(o)'
    <2>1. Holding(o) /\ Claimed(o) \cap Claimed(d) = {}
      BY DEF IInv, Exclusive
    <2>2. Claimed(o) \subseteq Unpublished'
      BY <1>2, <1>4, <2>1 DEF Holding, Unpublished, Committed
    <2> QED BY <1>2, <1>3, <1>4, <2>1, <2>2 DEF Holding
  <1>8. Exclusive'
    BY <1>4 DEF Exclusive, IInv
  <1>9. Honest'
    BY <1>2, <1>4, AllSent DEF Honest, IInv
  <1>10. Counted'
    <2> SUFFICES ASSUME NEW e \in Event
                 PROVE  /\ deliveries[e] <= lost + 1
                        /\ ~published'[e] /\ (\A o \in Drain : e \notin Sent(o)')
                             => deliveries[e] <= lost
      BY <1>2 DEF Counted
    <2>1. /\ deliveries[e] <= lost + 1
          /\ ~published[e] /\ (\A o \in Drain : e \notin Sent(o)) => deliveries[e] <= lost
      BY DEF IInv, Counted
    <2>2. ~published'[e] => ~published[e] /\ e \notin Sent(d)
      BY <1>2, AllSent
    <2> QED BY <1>4, <2>1, <2>2
  <1> QED BY <1>5, <1>6, <1>7, <1>8, <1>9, <1>10 DEF IInv

-----------------------------------------------------------------------------
LEMMA NextKeeps == IInv /\ [Next]_vars => IInv'
  <1> SUFFICES ASSUME IInv, [Next]_vars PROVE IInv'
    OBVIOUS
  <1>1. ASSUME NEW t \in Txn, TxnNext(t) PROVE IInv'
    BY <1>1, WritersKeep
  <1>2. ASSUME NEW d \in Drain, Pass(d) \/ Fail(d) PROVE IInv'
    BY <1>2, TickKeeps, VisitKeeps, ClaimKeeps, PublishKeeps, StampKeeps, FailKeeps DEF Pass
  <1>3. CASE UNCHANGED vars
    <2>1. UNCHANGED <<clock, began, ended, aborted, published, drain, deliveries, lost>>
      BY <1>3 DEF vars, writers
    <2>2. Committed' = Committed /\ Unpublished' = Unpublished
      BY <2>1 DEF Committed, Unpublished
    <2>3. \A d \in Drain : Claimed(d)' = Claimed(d) /\ Sent(d)' = Sent(d)
      BY <2>1 DEF Claimed, Sent
    <2>4. TypeOK'
      BY <2>1 DEF IInv, TypeOK
    <2>5. \A d \in Drain : Holding(d)'
      BY <2>1, <2>2, <2>3 DEF IInv, Holding
    <2>6. Exclusive' /\ Honest' /\ Counted'
      BY <2>1, <2>2, <2>3 DEF IInv, Exclusive, Honest, Counted
    <2> QED BY <2>4, <2>5, <2>6 DEF IInv
  <1> QED BY <1>1, <1>2, <1>3 DEF Next

(* The inductive invariant holds in every reachable state: rows under way  *)
(* belong to one pass, are committed and unpublished, and what is stamped  *)
(* was delivered (drain_once, claim_unpublished).                          *)
THEOREM Invariance == Spec => []IInv
  <1> QED BY InitIInv, NextKeeps, PTL DEF Spec

(* Every variable keeps its type. *)
THEOREM TypeCorrect == Spec => []TypeOK
  <1>1. IInv => TypeOK
    BY DEF IInv
  <1> QED BY <1>1, Invariance, PTL

(* An event is announced once, and once more for each pass that failed,    *)
(* however many passes overlap (FOR UPDATE SKIP LOCKED).                   *)
THEOREM FewDuplicates == Spec => []AtMostOncePlusLost
  <1>1. IInv => AtMostOncePlusLost
    <2> SUFFICES ASSUME IInv, NEW e \in Event PROVE deliveries[e] <= 1 + lost
      BY DEF AtMostOncePlusLost
    <2>1. deliveries[e] \in Nat /\ lost \in Nat /\ deliveries[e] <= lost + 1
      BY DEF IInv, TypeOK, Counted
    <2> QED BY <2>1
  <1> QED BY <1>1, Invariance, PTL

(* The transactions, the drain and its failures implement EventChannel.    *)
THEOREM Refinement == Spec => ImplementsChannel
  <1>1. Init => Channel!Init
    <2> SUFFICES ASSUME Init PROVE Channel!Init
      OBVIOUS
    <2>1. Committed = {} /\ {e \in Event : published[e]} = {}
      BY OutboxAssumption DEF Init, Committed, OutboxAssumption
    <2> QED BY <2>1 DEF Init, Channel!Init
  <1>2. IInv /\ [Next]_vars => [Channel!Next]_(Channel!vars)
    <2> SUFFICES ASSUME IInv, [Next]_vars PROVE [Channel!Next]_(Channel!vars)
      OBVIOUS
    <2> DEFINE settled == {e \in Event : published[e]}
    <2>1. ASSUME NEW t \in Txn, TxnNext(t) PROVE [Channel!Next]_(Channel!vars)
      <3>1. UNCHANGED <<published, deliveries>>
        BY <2>1 DEF TxnNext, Begin, Commit, Rollback
      <3>2. Committed \subseteq Committed'
        BY <2>1, CommittedGrows DEF IInv
      <3>3. Channel!Announce(Committed')
        BY <3>1, <3>2 DEF Channel!Announce
      <3>4. Committed' \in SUBSET Event
        BY DEF Committed
      <3> QED BY <3>3, <3>4 DEF Channel!Next
    <2>2. ASSUME NEW d \in Drain, Tick(d) \/ Visit(d) \/ Claim(d) \/ Fail(d)
          PROVE  [Channel!Next]_(Channel!vars)
      BY <2>2 DEF Tick, Visit, Claim, Fail, writers, Committed, Channel!vars
    <2>3. ASSUME NEW d \in Drain, Publish(d) PROVE [Channel!Next]_(Channel!vars)
      <3> DEFINE e == drain[d].batch[drain[d].sent + 1]
      <3>1. e \in Event /\ e \in Committed /\ ~published[e]
        BY <2>3, NextRow
      <3>2. deliveries' = [deliveries EXCEPT ![e] = @ + 1]
            /\ UNCHANGED <<published, ended>>
        BY <2>3 DEF Publish, writers
      <3>3. Channel!Deliver(e)
        BY <3>1, <3>2 DEF Channel!Deliver, Committed
      <3> QED BY <3>1, <3>3 DEF Channel!Next
    <2>4. ASSUME NEW d \in Drain, Stamp(d) PROVE [Channel!Next]_(Channel!vars)
      <3>1. PICK E \in SUBSET Event : E = Claimed(d)
        BY <2>4, AllSent
      <3>2. \A e \in E : e \in Committed /\ deliveries[e] > 0
        BY <2>4, <3>1, AllSent
      <3>3. /\ published' = [e \in Event |-> published[e] \/ e \in E]
            /\ UNCHANGED <<ended, deliveries>>
        BY <2>4, <3>1 DEF Stamp, writers
      <3>4. settled' = settled \cup E
        BY <3>1, <3>3
      <3>5. Channel!Settle(E)
        BY <3>2, <3>3, <3>4 DEF Channel!Settle, Committed
      <3> QED BY <3>5 DEF Channel!Next
    <2>5. CASE UNCHANGED vars
      BY <2>5 DEF vars, writers, Committed, Channel!vars
    <2> QED BY <2>1, <2>2, <2>3, <2>4, <2>5 DEF Next, Pass
  <1> QED BY <1>1, <1>2, Invariance, PTL DEF Spec, ImplementsChannel, Channel!Spec
-----------------------------------------------------------------------------
(* The order of announcements.                                             *)

(* now() is the clock of the start, and a commit comes after it. *)
Clocked ==
    \A t \in Txn :
        /\ began[t] <= clock
        /\ ended[t] # 0 => began[t] # 0 /\ began[t] <= ended[t]

Taken(r) == {r.batch[i] : i \in 1..Len(r.batch)}

(* A pass that has a row has, for each row committed before that one's     *)
(* transaction began, announced it, taken it first, met it locked, or has  *)
(* still to visit it; and it took nothing before what it has to visit.     *)
InOrder(r) ==
    /\ r.at = "publishing" => r.left = {}
    /\ \A e, f \in Event : Precedes(e, f) =>
         /\ f \in r.left \cup Taken(r) =>
               e \in r.left \cup r.skipped \cup Taken(r) \/ deliveries[e] > 0
         /\ f \in Taken(r) => e \notin r.left
         /\ \A i, j \in 1..Len(r.batch) : r.batch[i] = e /\ r.batch[j] = f => i < j

OrderInv ==
    /\ IInv
    /\ Clocked
    /\ \A d \in Drain : InOrder(drain[d])

(* A row that a pass is left with is in order after a step that writes no  *)
(* transaction if it was before.                                           *)
LEMMA StillInOrder ==
    ASSUME NEW o \in Drain, NEW r, drain'[o] = r, InOrder(r), UNCHANGED writers,
           \A e \in Event : deliveries[e] > 0 => deliveries'[e] > 0
    PROVE  InOrder(drain[o])'
  <1>1. \A e, f \in Event : Precedes(e, f)' = Precedes(e, f)
    BY DEF Precedes, writers
  <1> QED BY <1>1 DEF InOrder, Taken

(* A step of one pass keeps the order if its new row has it. *)
LEMMA PassKeepsOrder ==
    ASSUME OrderInv, IInv', NEW d \in Drain, NEW r, Goes(d, r),
           UNCHANGED writers,
           \A e \in Event : deliveries[e] > 0 => deliveries'[e] > 0,
           InOrder(r)
    PROVE  OrderInv'
  <1>1. drain \in [Drain -> PassRow]
    BY DEF OrderInv, IInv, TypeOK, PassRow
  <1>2. drain'[d] = r /\ \A o \in Drain \ {d} : drain'[o] = drain[o]
    BY <1>1 DEF Goes
  <1>3. Clocked'
    BY DEF OrderInv, Clocked, writers
  <1>4. ASSUME NEW o \in Drain PROVE InOrder(drain[o])'
    <2>1. InOrder(drain[o])
      BY DEF OrderInv
    <2>2. CASE o = d
      BY <1>2, <2>2, StillInOrder
    <2>3. CASE o # d
      BY <1>2, <2>1, <2>3, StillInOrder
    <2> QED BY <2>2, <2>3
  <1> QED BY <1>3, <1>4 DEF OrderInv

LEMMA OffInOrder == InOrder(Off)
  BY OffHoldsNothing DEF InOrder, Taken

(* The snapshot has every row that is committed and not yet announced. *)
LEMMA TickKeepsOrder ==
    ASSUME OrderInv, IInv', NEW d \in Drain, Tick(d)
    PROVE  OrderInv'
  <1> DEFINE r == [Off EXCEPT !.at = "claiming", !.left = Unpublished]
  <1>1. /\ r.at = "claiming" /\ r.left = Unpublished /\ r.batch = <<>> /\ r.skipped = {}
        /\ Len(r.batch) = 0
    BY DEF Off
  <1>2. Goes(d, r) /\ UNCHANGED <<writers, published, deliveries>>
    BY DEF Tick
  <1> HIDE DEF r
  <1>3. Taken(r) = {}
    BY <1>1 DEF Taken
  <1>4. \A e, f \in Event : Precedes(e, f) => e \in Unpublished \/ deliveries[e] > 0
    BY DEF Precedes, Unpublished, Committed, OrderInv, IInv, Honest
  <1>5. InOrder(r)
    BY <1>1, <1>3, <1>4 DEF InOrder
  <1> QED BY <1>2, <1>5, PassKeepsOrder

(* The oldest of the rows left is taken after what precedes it, and leaves *)
(* nothing behind that precedes it.                                        *)
LEMMA OldestPrecedes ==
    ASSUME Clocked, TypeOK, NEW E \in SUBSET Committed, NEW e \in Oldest(E), NEW g \in E
    PROVE  ~Precedes(g, e)
  <1>1. /\ Writer[e] \in Txn /\ Writer[g] \in Txn /\ ended[Writer[g]] # 0
        /\ began[Writer[e]] <= began[Writer[g]]
    BY OutboxAssumption DEF OutboxAssumption, Oldest, Committed
  <1>2. /\ began[Writer[e]] \in Nat /\ began[Writer[g]] \in Nat /\ ended[Writer[g]] \in Nat
    BY <1>1 DEF TypeOK
  <1>3. began[Writer[g]] <= ended[Writer[g]]
    BY <1>1 DEF Clocked
  <1> QED BY <1>1, <1>2, <1>3 DEF Precedes

LEMMA VisitKeepsOrder ==
    ASSUME OrderInv, IInv', NEW d \in Drain, Visit(d)
    PROVE  OrderInv'
  <1> DEFINE r == drain[d]
             pass(e) == [r EXCEPT !.left = @ \ {e}, !.skipped = @ \cup {e}]
             drop(e) == [r EXCEPT !.left = @ \ {e}]
             take(e) == [r EXCEPT !.left = @ \ {e}, !.batch = Append(@, e)]
  <1>1. /\ IInv /\ Clocked /\ TypeOK /\ InOrder(r) /\ r \in PassRow /\ r.at = "claiming"
        /\ r.left \subseteq Committed
    BY Held DEF OrderInv, IInv, Visit
  <1>2. PICK x \in Oldest(r.left) :
            Goes(d, IF Locked(d, x) THEN pass(x) ELSE IF published[x] THEN drop(x) ELSE take(x))
    BY DEF Visit
  <1>3. x \in r.left /\ x \in Event
    BY <1>1 DEF Oldest, PassRow
  <1>4. UNCHANGED <<writers, published, deliveries>>
    BY DEF Visit
  <1>5. CASE Goes(d, pass(x))
    <2>1. /\ pass(x).at = "claiming" /\ pass(x).left = r.left \ {x}
          /\ pass(x).skipped = r.skipped \cup {x} /\ pass(x).batch = r.batch
      BY <1>1 DEF PassRow
    <2> HIDE DEF pass
    <2>2. InOrder(pass(x))
      BY <1>1, <2>1 DEF InOrder, Taken
    <2> QED BY <1>4, <1>5, <2>2, PassKeepsOrder
  <1>6. CASE published[x] /\ Goes(d, drop(x))
    <2>1. /\ drop(x).at = "claiming" /\ drop(x).left = r.left \ {x}
          /\ drop(x).skipped = r.skipped /\ drop(x).batch = r.batch
      BY <1>1 DEF PassRow
    <2>2. deliveries[x] > 0
      BY <1>1, <1>3, <1>6 DEF IInv, Honest
    <2> HIDE DEF drop
    <2>3. InOrder(drop(x))
      BY <1>1, <2>1, <2>2 DEF InOrder, Taken
    <2> QED BY <1>4, <1>6, <2>3, PassKeepsOrder
  <1>7. CASE Goes(d, take(x))
    <2> DEFINE b == Append(r.batch, x)
    <2>1. /\ take(x).at = "claiming" /\ take(x).left = r.left \ {x}
          /\ take(x).skipped = r.skipped /\ take(x).batch = b
      BY <1>1 DEF PassRow
    <2>2. /\ Len(r.batch) \in Nat /\ Len(b) = Len(r.batch) + 1 /\ b[Len(b)] = x
          /\ \A i \in 1..Len(r.batch) : b[i] = r.batch[i]
      BY <1>1, <1>3 DEF PassRow
    <2> HIDE DEF take, b
    <2>3. \A i \in 1..Len(b) : i \in 1..Len(r.batch) \/ i = Len(b)
      BY <2>2
    <2>4. Taken(take(x)) = Taken(r) \cup {x}
      <3>1. Taken(take(x)) \subseteq Taken(r) \cup {x}
        BY <2>1, <2>2, <2>3 DEF Taken
      <3>2. Len(b) \in 1..Len(b) /\ \A i \in 1..Len(r.batch) : i \in 1..Len(b)
        BY <2>2
      <3>3. Taken(r) \cup {x} \subseteq Taken(take(x))
        BY <2>1, <2>2, <3>2 DEF Taken
      <3> QED BY <3>1, <3>3
    <2>5. \A e \in r.left : ~Precedes(e, x)
      BY <1>1, OldestPrecedes
    <2>6. ASSUME NEW e \in Event, NEW f \in Event, Precedes(e, f)
          PROVE  /\ f \in take(x).left \cup Taken(take(x)) =>
                       \/ e \in take(x).left \cup take(x).skipped \cup Taken(take(x))
                       \/ deliveries[e] > 0
                 /\ f \in Taken(take(x)) => e \notin take(x).left
      BY <1>1, <1>3, <2>1, <2>4, <2>5, <2>6 DEF InOrder
    <2>7. ASSUME NEW i \in 1..Len(b), NEW j \in 1..Len(b), Precedes(b[i], b[j]),
                 b[i] \in Event, b[j] \in Event
          PROVE  i < j
      <3>1. CASE j \in 1..Len(r.batch)
        <4>1. b[j] \in Taken(r)
          BY <2>2, <3>1 DEF Taken
        <4>2. b[i] # x
          BY <1>1, <1>3, <2>7, <4>1 DEF InOrder
        <4>3. i \in 1..Len(r.batch)
          BY <2>2, <2>3, <4>2
        <4> QED BY <1>1, <2>2, <2>7, <3>1, <4>3 DEF InOrder
      <3>2. CASE j = Len(b)
        <4>1. b[i] # x
          BY <1>3, <2>2, <2>5, <2>7, <3>2
        <4> QED BY <2>2, <2>3, <3>2, <4>1
      <3> QED BY <2>3, <3>1, <3>2
    <2>8. InOrder(take(x))
      BY <2>1, <2>6, <2>7 DEF InOrder
    <2> QED BY <1>4, <1>7, <2>8, PassKeepsOrder
  <1> QED BY <1>2, <1>5, <1>6, <1>7

LEMMA ClaimKeepsOrder ==
    ASSUME OrderInv, IInv', NEW d \in Drain, Claim(d)
    PROVE  OrderInv'
  <1> DEFINE r == drain[d]
             go == [r EXCEPT !.at = "publishing", !.left = {}]
  <1>1. InOrder(r) /\ r \in PassRow /\ UNCHANGED <<writers, published, deliveries>>
    BY Held DEF OrderInv, Claim
  <1>2. Goes(d, Off) \/ Goes(d, go)
    BY DEF Claim
  <1>3. go.left = {} /\ go.skipped = r.skipped /\ go.batch = r.batch
    BY <1>1 DEF PassRow
  <1> HIDE DEF go
  <1>4. InOrder(go)
    BY <1>1, <1>3 DEF InOrder, Taken
  <1> QED BY <1>1, <1>2, <1>4, OffInOrder, PassKeepsOrder

LEMMA PublishKeepsOrder ==
    ASSUME OrderInv, IInv', NEW d \in Drain, Publish(d)
    PROVE  OrderInv'
  <1> DEFINE k == drain[d].sent + 1
             x == drain[d].batch[k]
             r == [drain[d] EXCEPT !.sent = k]
  <1>1. IInv /\ InOrder(drain[d]) /\ drain[d] \in PassRow /\ deliveries \in [Event -> Nat]
    BY Held DEF OrderInv, IInv, TypeOK
  <1>2. x \in Event
    BY <1>1, NextRow
  <1>3. Goes(d, r) /\ deliveries' = [deliveries EXCEPT ![x] = @ + 1] /\ UNCHANGED writers
    BY DEF Publish
  <1>4. /\ r.at = drain[d].at /\ r.left = drain[d].left /\ r.skipped = drain[d].skipped
        /\ r.batch = drain[d].batch
    BY <1>1 DEF PassRow
  <1> HIDE DEF r, x
  <1>5. InOrder(r)
    BY <1>1, <1>4 DEF InOrder, Taken
  <1>6. \A e \in Event : deliveries[e] > 0 => deliveries'[e] > 0
    BY <1>1, <1>2, <1>3
  <1> QED BY <1>3, <1>5, <1>6, PassKeepsOrder

(* A transaction that begins or commits now precedes no row that a pass    *)
(* has: the one began, and the other commits, after that row's began.      *)
LEMMA WritersKeepOrder ==
    ASSUME OrderInv, IInv', NEW t \in Txn, TxnNext(t)
    PROVE  OrderInv'
  <1>1. IInv /\ TypeOK /\ Clocked
    BY DEF OrderInv, IInv
  <1>2. UNCHANGED <<published, drain, deliveries>>
    BY DEF TxnNext, Begin, Commit, Rollback
  <1>3. Clocked'
    <2>1. CASE Begin(t)
      BY <1>1, <2>1 DEF Begin, Clocked, TypeOK
    <2>2. CASE Commit(t)
      BY <1>1, <2>2 DEF Commit, InProgress, Clocked, TypeOK
    <2>3. CASE Rollback(t)
      BY <1>1, <2>3 DEF Rollback, Clocked
    <2> QED BY <2>1, <2>2, <2>3 DEF TxnNext
  <1>4. ASSUME NEW e \in Event, NEW f \in Event, f \in Committed, Precedes(e, f)'
        PROVE  Precedes(e, f)
    <2>1. /\ Writer[e] \in Txn /\ Writer[f] \in Txn /\ ended[Writer[f]] # 0
          /\ began[Writer[f]] # 0 /\ began[Writer[f]] <= clock
          /\ began[Writer[f]] \in Nat /\ clock \in Nat
      BY <1>1, <1>4, OutboxAssumption DEF OutboxAssumption, Clocked, TypeOK, Committed
    <2>2. began'[Writer[f]] = began[Writer[f]]
      BY <1>1, <2>1 DEF TxnNext, Begin, Commit, Rollback, TypeOK
    <2>3. ended'[Writer[e]] = ended[Writer[e]] \/ ended'[Writer[e]] = clock
      BY <1>1, <2>1 DEF TxnNext, Begin, Commit, Rollback, TypeOK
    <2> QED BY <1>4, <2>1, <2>2, <2>3 DEF Precedes
  <1>5. ASSUME NEW d \in Drain PROVE InOrder(drain[d])'
    <2>1. InOrder(drain[d])
      BY DEF OrderInv
    <2>2. drain[d].left \subseteq Committed /\ Taken(drain[d]) \subseteq Committed
      BY <1>1, Held DEF Taken, Unpublished
    <2>3. \A i \in 1..Len(drain[d].batch) : drain[d].batch[i] \in Taken(drain[d])
      BY DEF Taken
    <2>4. Taken(drain[d])' = Taken(drain[d])
      BY <1>2 DEF Taken
    <2> QED BY <1>2, <1>4, <2>1, <2>2, <2>3, <2>4 DEF InOrder
  <1> QED BY <1>3, <1>5 DEF OrderInv

LEMMA NextKeepsOrder == OrderInv /\ IInv' /\ [Next]_vars => OrderInv'
  <1> SUFFICES ASSUME OrderInv, IInv', [Next]_vars PROVE OrderInv'
    OBVIOUS
  <1>1. ASSUME NEW t \in Txn, TxnNext(t) PROVE OrderInv'
    BY <1>1, WritersKeepOrder
  <1>2. ASSUME NEW d \in Drain, Stamp(d) \/ Fail(d) PROVE OrderInv'
    <2>1. Goes(d, Off) /\ UNCHANGED <<writers, deliveries>>
      BY <1>2 DEF Stamp, Fail
    <2> QED BY <2>1, OffInOrder, PassKeepsOrder
  <1>3. ASSUME NEW d \in Drain, Pass(d) \/ Fail(d) PROVE OrderInv'
    BY <1>2, <1>3, TickKeepsOrder, VisitKeepsOrder, ClaimKeepsOrder, PublishKeepsOrder DEF Pass
  <1>4. CASE UNCHANGED vars
    <2>1. UNCHANGED <<writers, drain, deliveries>>
      BY <1>4 DEF vars
    <2>2. Clocked'
      BY <2>1 DEF OrderInv, Clocked, writers
    <2>3. ASSUME NEW d \in Drain PROVE InOrder(drain[d])'
      BY <2>1, StillInOrder DEF OrderInv
    <2> QED BY <2>2, <2>3 DEF OrderInv
  <1> QED BY <1>1, <1>3, <1>4 DEF Next

(* What a pass announces next is preceded by nothing it has not met. *)
LEMMA NextIsFirst ==
    ASSUME OrderInv, NEW d \in Drain, Publish(d), NEW e \in Event,
           Precedes(e, drain[d].batch[drain[d].sent + 1]), deliveries[e] = 0
    PROVE  e \in drain[d].skipped
  <1> DEFINE k == drain[d].sent + 1
             f == drain[d].batch[k]
  <1>1. IInv /\ InOrder(drain[d]) /\ Holding(d)
    BY DEF OrderInv, IInv
  <1>2. k \in 1..Len(drain[d].batch) /\ f \in Event
    BY <1>1, NextRow
  <1>3. drain[d].left = {} /\ f \in Taken(drain[d])
    BY <1>1, <1>2 DEF InOrder, Publish, Taken
  <1>4. e \notin Taken(drain[d])
    <2> SUFFICES ASSUME NEW i \in 1..Len(drain[d].batch), drain[d].batch[i] = e PROVE FALSE
      BY DEF Taken
    <2>1. i < k
      BY <1>1, <1>2 DEF InOrder
    <2>2. i \in 1..drain[d].sent
      BY <1>1, <2>1, Held DEF PassRow
    <2>3. e \in Sent(d)
      BY <2>2 DEF Sent
    <2>4. deliveries[e] > 0
      BY <1>1, <2>3 DEF Holding
    <2> QED BY <2>4
  <1> QED BY <1>1, <1>2, <1>3, <1>4 DEF InOrder

(* Consumers see an event before one that was committed before it began    *)
(* only when its pass met the earlier row locked by another pass           *)
(* (ORDER BY created_at, FOR UPDATE SKIP LOCKED, publish_batch's order).   *)
THEOREM OrderIsKept == Spec => OvertakesOnlyLocked
  <1> DEFINE InItsTurn ==
               \A d \in Drain, e, f \in Event :
                  (deliveries'[f] # deliveries[f] /\ drain'[d].sent # drain[d].sent
                     /\ Precedes(e, f) /\ deliveries[e] = 0)
                  => e \in drain[d].skipped
  <1>1. Init => OrderInv
    <2> SUFFICES ASSUME Init PROVE OrderInv
      OBVIOUS
    <2>1. Clocked
      BY DEF Init, Clocked
    <2>2. \A d \in Drain : InOrder(drain[d])
      BY OffInOrder DEF Init
    <2> QED BY <2>1, <2>2, InitIInv DEF OrderInv
  <1>2. OrderInv /\ [Next]_vars => OrderInv'
    BY NextKeeps, NextKeepsOrder DEF OrderInv
  <1>3. OrderInv /\ [Next]_vars => [InItsTurn]_vars
    <2> SUFFICES ASSUME OrderInv, Next, NEW d \in Drain, NEW e \in Event, NEW f \in Event,
                        deliveries'[f] # deliveries[f], drain'[d].sent # drain[d].sent,
                        Precedes(e, f), deliveries[e] = 0
                 PROVE  e \in drain[d].skipped
      OBVIOUS
    <2>1. PICK o \in Drain : Publish(o)
      BY DEF Next, TxnNext, Begin, Commit, Rollback, Pass, Tick, Visit, Claim, Stamp, Fail
    <2>2. /\ drain \in [Drain -> PassRow] /\ deliveries \in [Event -> Nat]
          /\ drain[o].batch[drain[o].sent + 1] \in Event
      BY <2>1, NextRow DEF OrderInv, IInv, TypeOK, PassRow
    <2>3. o = d
      BY <2>1, <2>2 DEF Publish, Goes
    <2>4. f = drain[o].batch[drain[o].sent + 1]
      BY <2>1, <2>2 DEF Publish
    <2> QED BY <2>1, <2>3, <2>4, NextIsFirst
  <1> QED BY <1>1, <1>2, <1>3, PTL DEF Spec, OvertakesOnlyLocked
=============================================================================
