------------------------------- MODULE Outbox -------------------------------
(***************************************************************************)
(* The transactional outbox: transactions that write events with their     *)
(* other rows (OutboxRepository.enqueue) and the drain that publishes what *)
(* committed (workers/outbox.py, scheduled every second by beat).          *)
(*                                                                         *)
(* created_at is now(), the start of the writing transaction; within one   *)
(* transaction the ids decide, and two ids minted in one millisecond are   *)
(* in either order.  The claim reads its rows in one statement and then    *)
(* locks them one by one, skipping those another drain has locked and      *)
(* those that no longer are unpublished.  Redis drops what nobody hears:   *)
(* a delivery is a message on the channel.                                 *)
(***************************************************************************)
EXTENDS Naturals, Sequences, FiniteSets

CONSTANTS Event,       \* rows of outbox_event
          Txn,         \* the transactions that write them
          Writer,      \* event -> the transaction that writes it
          Drain,       \* passes of the drain that may overlap
          Batch,       \* rows per pass
          MaxLost      \* bound: passes that fail

ASSUME OutboxAssumption ==
    /\ Writer \in [Event -> Txn]
    /\ Batch \in Nat \ {0}
    /\ MaxLost \in Nat

VARIABLES clock,       \* transactions begun so far
          began,       \* transaction -> its now(); 0 before it starts
          ended,       \* transaction -> the clock when it committed; 0 before
          aborted,     \* transactions that rolled back
          published,   \* published_at IS NOT NULL
          drain,       \* what each pass is doing
          deliveries,  \* event -> messages on the channel
          lost         \* passes that failed so far

writers == <<clock, began, ended, aborted>>
vars == <<writers, published, drain, deliveries, lost>>

Committed == {e \in Event : ended[Writer[e]] # 0}
Unpublished == {e \in Committed : ~published[e]}

Off == [at |-> "off", left |-> {}, skipped |-> {}, batch |-> <<>>, sent |-> 0]
Claimed(d) == {drain[d].batch[i] : i \in 1..Len(drain[d].batch)}
Sent(d) == {drain[d].batch[i] : i \in 1..drain[d].sent}

Init ==
    /\ clock = 0
    /\ began = [t \in Txn |-> 0]
    /\ ended = [t \in Txn |-> 0]
    /\ aborted = {}
    /\ published = [e \in Event |-> FALSE]
    /\ drain = [d \in Drain |-> Off]
    /\ deliveries = [e \in Event |-> 0]
    /\ lost = 0

-----------------------------------------------------------------------------
(* A use case that enqueues events: they exist for others when it commits. *)

Begin(t) ==
    /\ began[t] = 0
    /\ clock' = clock + 1
    /\ began' = [began EXCEPT ![t] = clock + 1]
    /\ UNCHANGED <<ended, aborted, published, drain, deliveries, lost>>

InProgress(t) == began[t] # 0 /\ ended[t] = 0 /\ t \notin aborted

Commit(t) ==
    /\ InProgress(t)
    /\ ended' = [ended EXCEPT ![t] = clock]
    /\ UNCHANGED <<clock, began, aborted, published, drain, deliveries, lost>>

Rollback(t) ==
    /\ InProgress(t)
    /\ aborted' = aborted \cup {t}
    /\ UNCHANGED <<clock, began, ended, published, drain, deliveries, lost>>

-----------------------------------------------------------------------------
(* drain_once.                                                             *)

Goes(d, r) == drain' = [drain EXCEPT ![d] = r]

(* Beat's tick: the claim's snapshot. *)
Tick(d) ==
    /\ drain[d].at = "off"
    /\ Goes(d, [Off EXCEPT !.at = "claiming", !.left = Unpublished])
    /\ UNCHANGED <<writers, published, deliveries, lost>>

(* Mutant: the rows come in no order.                                      *)
OldestOfAny(E) == E

(* ORDER BY created_at, id. *)
Oldest(E) == {e \in E : \A f \in E : began[Writer[e]] <= began[Writer[f]]}

Locked(d, e) == \E o \in Drain \ {d} : e \in Claimed(o)

(* Mutant: the claim takes no row locks.                                   *)
VisitUnlocked(d) ==
    LET r == drain[d] IN
    /\ r.at = "claiming" /\ Len(r.batch) < Batch
    /\ \E e \in Oldest(r.left) :
          Goes(d, IF published[e] THEN [r EXCEPT !.left = @ \ {e}]
                  ELSE [r EXCEPT !.left = @ \ {e}, !.batch = Append(@, e)])
    /\ UNCHANGED <<writers, published, deliveries, lost>>

(* FOR UPDATE SKIP LOCKED on the next row, and its WHERE clause again. *)
Visit(d) ==
    LET r == drain[d] IN
    /\ r.at = "claiming" /\ Len(r.batch) < Batch
    /\ \E e \in Oldest(r.left) :
          Goes(d, IF Locked(d, e) THEN [r EXCEPT !.left = @ \ {e}, !.skipped = @ \cup {e}]
                  ELSE IF published[e] THEN [r EXCEPT !.left = @ \ {e}]
                  ELSE [r EXCEPT !.left = @ \ {e}, !.batch = Append(@, e)])
    /\ UNCHANGED <<writers, published, deliveries, lost>>

(* Mutant: a pass waits for a full batch.                                  *)
ClaimFull(d) ==
    LET r == drain[d] IN
    /\ r.at = "claiming"
    /\ r.left = {} \/ Len(r.batch) = Batch
    /\ Goes(d, IF Len(r.batch) < Batch THEN Off
               ELSE [r EXCEPT !.at = "publishing", !.left = {}])
    /\ UNCHANGED <<writers, published, deliveries, lost>>

(* LIMIT is reached or the snapshot is used up; nothing to do ends it.     *)
Claim(d) ==
    LET r == drain[d] IN
    /\ r.at = "claiming"
    /\ r.left = {} \/ Len(r.batch) = Batch
    /\ Goes(d, IF r.batch = <<>> THEN Off ELSE [r EXCEPT !.at = "publishing", !.left = {}])
    /\ UNCHANGED <<writers, published, deliveries, lost>>

(* publish_batch: the pipeline's next command reaches Redis. *)
Publish(d) ==
    LET r == drain[d] IN
    /\ r.at = "publishing" /\ r.sent < Len(r.batch)
    /\ deliveries' = [deliveries EXCEPT ![r.batch[r.sent + 1]] = @ + 1]
    /\ Goes(d, [r EXCEPT !.sent = @ + 1])
    /\ UNCHANGED <<writers, published, lost>>

(* Mutant: the batch is stamped without waiting for the pipeline.          *)
StampEarly(d) ==
    LET r == drain[d] IN
    /\ r.at = "publishing"
    /\ published' = [e \in Event |-> published[e] \/ e \in Claimed(d)]
    /\ Goes(d, Off)
    /\ UNCHANGED <<writers, deliveries, lost>>

(* mark_published and the commit, which gives the locks back. *)
Stamp(d) ==
    LET r == drain[d] IN
    /\ r.at = "publishing" /\ r.sent = Len(r.batch)
    /\ published' = [e \in Event |-> published[e] \/ e \in Claimed(d)]
    /\ Goes(d, Off)
    /\ UNCHANGED <<writers, deliveries, lost>>

(* Redis refuses, the worker is killed, or the commit fails: a rollback.   *)
Fail(d) ==
    /\ drain[d].at # "off"
    /\ lost < MaxLost
    /\ lost' = lost + 1
    /\ Goes(d, Off)
    /\ UNCHANGED <<writers, published, deliveries>>

-----------------------------------------------------------------------------
TxnNext(t) == Begin(t) \/ Commit(t) \/ Rollback(t)
Pass(d) == Tick(d) \/ Visit(d) \/ Claim(d) \/ Publish(d) \/ Stamp(d)

Next ==
    \/ \E t \in Txn : TxnNext(t)
    \/ \E d \in Drain : Pass(d) \/ Fail(d)

(* Beat ticks every second and the worker on the events queue goes on; a   *)
(* writing transaction need not end.                                       *)
Spec == Init /\ [][Next]_vars /\ \A d \in Drain : WF_vars(Pass(d))

-----------------------------------------------------------------------------
(* Properties.                                                             *)

TypeOK ==
    /\ clock \in Nat
    /\ began \in [Txn -> Nat]
    /\ ended \in [Txn -> Nat]
    /\ aborted \subseteq Txn
    /\ published \in [Event -> BOOLEAN]
    /\ drain \in [Drain -> [at : {"off", "claiming", "publishing"}, left : SUBSET Event,
                            skipped : SUBSET Event, batch : Seq(Event), sent : Nat]]
    /\ deliveries \in [Event -> Nat]
    /\ lost \in Nat

(* The drain keeps the promise of EventChannel: nothing of a transaction   *)
(* that is open or rolled back gets out, nothing is stamped that was not   *)
(* published, nothing is published after its stamp ("publish-then-stamp",  *)
(* drain_once), with any number of overlapping passes and failures.        *)
Channel == INSTANCE EventChannel WITH
    announced <- Committed, settled <- {e \in Event : published[e]}
ImplementsChannel == Channel!Spec

(* Only a failed pass may announce an event twice: overlapping passes that *)
(* succeed never do (claim_unpublished's SKIP LOCKED).                     *)
AtMostOncePlusLost == \A e \in Event : deliveries[e] <= 1 + lost

(* e was committed before the transaction that wrote f began. *)
Precedes(e, f) == ended[Writer[e]] # 0 /\ ended[Writer[e]] < began[Writer[f]]

(* "Consumers see events in the order they happened" (claim_unpublished),  *)
(* as far as that is so: an event is announced before one that was         *)
(* committed before it was begun only if its pass found the earlier one    *)
(* locked by another pass.                                                 *)
OvertakesOnlyLocked ==
    [][\A d \in Drain, e, f \in Event :
          (deliveries'[f] # deliveries[f] /\ drain'[d].sent # drain[d].sent
             /\ Precedes(e, f) /\ deliveries[e] = 0)
          => e \in drain[d].skipped]_vars

(* Every committed event is stamped in the end: no row is starved by newer *)
(* ones, skipped for ever or left locked by a pass that died (beat's tick, *)
(* drain_once).                                                            *)
BacklogDrains == \A e \in Event : e \in Committed ~> published[e]
=============================================================================
