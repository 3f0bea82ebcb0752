---------------------------- MODULE EventBackbone ----------------------------
(***************************************************************************)
(* The event backbone: facts appended to the transactional outbox by the   *)
(* API and the worker, the relays that drain the outbox to RabbitMQ, the   *)
(* work queue with its retry tiers and dead-letter queue, and the live     *)
(* analytics consumer that applies each event to the read model.           *)
(*                                                                         *)
(* A fact is its event id.  Sequence numbers, delivery stamps, attempts    *)
(* and message copies are kept; payloads are not (the projections they     *)
(* feed are in Projections.tla, the rebuild from history in Replay.tla).   *)
(*                                                                         *)
(* Bounds: MaxSequence limits how often a rolled-back transaction may burn *)
(* a sequence number, MaxCrashes the process crashes, MaxRefusals the      *)
(* publishes the broker refuses, MaxFaults the handler failures per event. *)
(***************************************************************************)
EXTENDS Naturals, Sequences, FiniteSets

CONSTANTS
    Events,             \* ids of the facts the business may record
    Relays,             \* relay processes draining the outbox
    Causes,             \* Causes[e]: the facts whose commit precedes e's transaction
    Unparsable,         \* rows the relay's contract cannot parse
    Unreadable,         \* messages the consumer's contract cannot parse
    BatchSize,          \* EVENT_RELAY_BATCH_SIZE
    MaxPublishAttempts, \* MAX_PUBLISH_ATTEMPTS
    RetryTiers,         \* Len(RETRY_DELAYS_MS)
    Prefetch,           \* ANALYTICS_PREFETCH
    MaxSequence, MaxCrashes, MaxRefusals, MaxFaults

ASSUME EventsAssumption ==
    /\ Causes \in [Events -> SUBSET Events]
    /\ Unparsable \subseteq Events
    /\ Unreadable \subseteq Events

ASSUME LimitsAssumption ==
    /\ BatchSize \in Nat \ {0}
    /\ MaxPublishAttempts \in Nat \ {0}
    /\ RetryTiers \in Nat
    /\ Prefetch \in Nat \ {0}

ASSUME BoundsAssumption ==
    /\ MaxSequence \in Nat
    /\ MaxCrashes \in Nat
    /\ MaxRefusals \in Nat
    /\ MaxFaults \in Nat

VARIABLES
    \* domain_events in PostgreSQL
    row,            \* row[e]: none, inserted by an open transaction, or committed
    seqOf,          \* seqOf[e]: the bigserial drawn at insert, 0 before
    nextSequence,   \* next value of domain_events_sequence_seq
    publishedAt,    \* published_at is not null
    failedAt,       \* failed_at is not null: quarantined
    attempts,       \* publish_attempts
    \* the relays: one open claim transaction each
    claimed,        \* rows this relay's transaction has locked
    pending,        \* claimed rows its loop has not reached yet
    confirmed,      \* publishedIds
    failures,       \* failures
    \* RabbitMQ
    bound,          \* the analytics queue is declared and bound to the exchange
    queue,          \* ready messages of the work queue
    delivered,      \* delivered and unacknowledged, in delivery order
    retry,          \* retry[t]: the queue of tier t
    dlq,            \* events with a copy in the dead-letter queue
    discarded,      \* events the exchange accepted while nothing was bound
    \* the analytics consumer and its database
    settling,       \* what the consumer has done with the oldest delivery
    processed,      \* processed_events
    projected,      \* projected[e]: how often e moved the projections
    lastSequence,   \* projection_state.last_sequence
    faults,         \* faults[e]: handler failures of deliveries of e
    \* spent bounds
    crashes, refusals

outbox == <<row, seqOf, nextSequence, publishedAt, failedAt, attempts>>
relayVars == <<claimed, pending, confirmed, failures>>
brokerVars == <<bound, queue, delivered, retry, dlq, discarded>>
consumerVars == <<settling, processed, projected, lastSequence, faults>>
vars == <<outbox, relayVars, brokerVars, consumerVars, crashes, refusals>>

Tiers == 1..RetryTiers

\* A message on the wire: the event and its x-attempt header.
Messages == [event : Events, attempt : 0..RetryTiers]

Init ==
    /\ row = [e \in Events |-> "none"]
    /\ seqOf = [e \in Events |-> 0]
    /\ nextSequence = 1
    /\ publishedAt = [e \in Events |-> FALSE]
    /\ failedAt = [e \in Events |-> FALSE]
    /\ attempts = [e \in Events |-> 0]
    /\ claimed = [r \in Relays |-> {}]
    /\ pending = [r \in Relays |-> {}]
    /\ confirmed = [r \in Relays |-> {}]
    /\ failures = [r \in Relays |-> {}]
    /\ bound = FALSE
    /\ queue = <<>>
    /\ delivered = <<>>
    /\ retry = [t \in Tiers |-> <<>>]
    /\ dlq = {}
    /\ discarded = {}
    /\ settling = "idle"
    /\ processed = {}
    /\ projected = [e \in Events |-> 0]
    /\ lastSequence = 0
    /\ faults = [e \in Events |-> 0]
    /\ crashes = 0
    /\ refusals = 0

-----------------------------------------------------------------------------
(* The publishers: one business transaction per fact. *)

\* The insert draws the sequence number; the row is not yet visible to others.
AppendDomainEvent(e) ==
    /\ row[e] = "none"
    /\ \A c \in Causes[e] : row[c] = "committed"
    /\ nextSequence <= MaxSequence
    /\ row' = [row EXCEPT ![e] = "open"]
    /\ seqOf' = [seqOf EXCEPT ![e] = nextSequence]
    /\ nextSequence' = nextSequence + 1
    /\ UNCHANGED <<publishedAt, failedAt, attempts, relayVars, brokerVars,
                   consumerVars, crashes, refusals>>

CommitEvent(e) ==
    /\ row[e] = "open"
    /\ row' = [row EXCEPT ![e] = "committed"]
    /\ UNCHANGED <<seqOf, nextSequence, publishedAt, failedAt, attempts, relayVars,
                   brokerVars, consumerVars, crashes, refusals>>

\* The row disappears with the business change; the sequence number is not returned.
RollbackEvent(e) ==
    /\ row[e] = "open"
    /\ row' = [row EXCEPT ![e] = "none"]
    /\ seqOf' = [seqOf EXCEPT ![e] = 0]
    /\ UNCHANGED <<nextSequence, publishedAt, failedAt, attempts, relayVars,
                   brokerVars, consumerVars, crashes, refusals>>

-----------------------------------------------------------------------------
(* The relay: one drain is one transaction around the publishes. *)

\* Mutant: a plain select, which takes no row locks.
LockedByNobody == {}

Locked == UNION {claimed[r] : r \in Relays}

\* Mutant: the claim also reads rows whose transaction is still open.
RecordedDirty(e) == row[e] # "none"

Recorded(e) == row[e] = "committed"

\* Rows the claim query returns: deliverable and not locked by another relay.
Deliverable == {e \in Events : Recorded(e) /\ ~publishedAt[e] /\ ~failedAt[e]} \ Locked

\* order by sequence asc limit BatchSize
IsOldestBatch(batch, rows) ==
    /\ batch \subseteq rows
    /\ Cardinality(batch) <= BatchSize
    /\ Cardinality(batch) < BatchSize => batch = rows
    /\ \A b \in batch, e \in rows \ batch : seqOf[b] < seqOf[e]

ClaimUnpublishedEvents(r) ==
    /\ claimed[r] = {}
    /\ \E batch \in SUBSET Deliverable :
          /\ batch # {}
          /\ IsOldestBatch(batch, Deliverable)
          /\ claimed' = [claimed EXCEPT ![r] = batch]
          /\ pending' = [pending EXCEPT ![r] = batch]
    /\ UNCHANGED <<outbox, confirmed, failures, brokerVars, consumerVars, crashes, refusals>>

IsNextOf(e, rows) == e \in rows /\ \A f \in rows \ {e} : seqOf[e] < seqOf[f]

\* The topic exchange routes to the bound work queue, or drops the message.
Route(e) ==
    IF bound THEN /\ queue' = Append(queue, [event |-> e, attempt |-> 0])
                  /\ UNCHANGED discarded
             ELSE /\ discarded' = discarded \union {e}
                  /\ UNCHANGED queue

\* Mutant: the row is skipped and its failed attempt is not recorded.
SkipSilently(r) ==
    /\ \E e \in pending[r] \intersect Unparsable :
          /\ IsNextOf(e, pending[r])
          /\ pending' = [pending EXCEPT ![r] = @ \ {e}]
    /\ UNCHANGED <<outbox, claimed, confirmed, failures, brokerVars, consumerVars, crashes,
                   refusals>>

SkipUnparsable(r) ==
    /\ \E e \in pending[r] \intersect Unparsable :
          /\ IsNextOf(e, pending[r])
          /\ pending' = [pending EXCEPT ![r] = @ \ {e}]
          /\ failures' = [failures EXCEPT ![r] = @ \union {e}]
    /\ UNCHANGED <<outbox, claimed, confirmed, brokerVars, consumerVars, crashes, refusals>>

PublishConfirmed(r) ==
    /\ \E e \in pending[r] \ Unparsable :
          /\ IsNextOf(e, pending[r])
          /\ Route(e)
          /\ pending' = [pending EXCEPT ![r] = @ \ {e}]
          /\ confirmed' = [confirmed EXCEPT ![r] = @ \union {e}]
    /\ UNCHANGED <<outbox, claimed, failures, bound, delivered, retry, dlq, consumerVars,
                   crashes, refusals>>

\* Mutant: the loop skips the refused row and carries on with the batch.
LeftSkippingAhead(rows, e) == rows \ {e}

\* What the loop still has to publish after e was refused: it breaks.
LeftAfterRefusal(rows, e) == {}

\* The confirm callback carries an error.  Either the broker never took the message, or it
\* did and the confirm was lost with the connection.
PublishRefused(r) ==
    /\ refusals < MaxRefusals
    /\ refusals' = refusals + 1
    /\ \E e \in pending[r] \ Unparsable :
          /\ IsNextOf(e, pending[r])
          /\ \/ Route(e)
             \/ UNCHANGED <<queue, discarded>>
          /\ failures' = [failures EXCEPT ![r] = @ \union {e}]
          /\ pending' = [pending EXCEPT ![r] = LeftAfterRefusal(@, e)]
    /\ UNCHANGED <<outbox, claimed, confirmed, bound, delivered, retry, dlq, consumerVars,
                   crashes>>

Exhausted(nextAttempt) == nextAttempt >= MaxPublishAttempts

\* Stamp what the broker confirmed, count the failures, commit and release the locks.
FinishDrain(r) ==
    /\ claimed[r] # {}
    /\ pending[r] = {}
    /\ publishedAt' = [e \in Events |-> publishedAt[e] \/ e \in confirmed[r]]
    /\ attempts' = [e \in Events |->
                      IF e \in failures[r] THEN attempts[e] + 1 ELSE attempts[e]]
    /\ failedAt' = [e \in Events |->
                      IF e \in failures[r] THEN Exhausted(attempts[e] + 1)
                                           ELSE failedAt[e]]
    /\ claimed' = [claimed EXCEPT ![r] = {}]
    /\ confirmed' = [confirmed EXCEPT ![r] = {}]
    /\ failures' = [failures EXCEPT ![r] = {}]
    /\ UNCHANGED <<row, seqOf, nextSequence, pending, brokerVars, consumerVars, crashes,
                   refusals>>

\* The process dies inside the claim transaction: PostgreSQL rolls it back, the broker
\* keeps what it already took.
CrashRelay(r) ==
    /\ crashes < MaxCrashes
    /\ crashes' = crashes + 1
    /\ claimed[r] # {}
    /\ claimed' = [claimed EXCEPT ![r] = {}]
    /\ pending' = [pending EXCEPT ![r] = {}]
    /\ confirmed' = [confirmed EXCEPT ![r] = {}]
    /\ failures' = [failures EXCEPT ![r] = {}]
    /\ UNCHANGED <<outbox, brokerVars, consumerVars, refusals>>

-----------------------------------------------------------------------------
(* The broker. *)

\* The consumer asserts the queues and their bindings when it first starts.
BindQueue ==
    /\ ~bound
    /\ bound' = TRUE
    /\ UNCHANGED <<outbox, relayVars, queue, delivered, retry, dlq, discarded,
                   consumerVars, crashes, refusals>>

Deliver ==
    /\ bound
    /\ queue # <<>>
    /\ Len(delivered) < Prefetch
    /\ delivered' = Append(delivered, Head(queue))
    /\ queue' = Tail(queue)
    /\ UNCHANGED <<outbox, relayVars, bound, retry, dlq, discarded, consumerVars,
                   crashes, refusals>>

\* x-message-ttl ran out: the message dead-letters to the tail of the work queue.
ExpireRetry(t) ==
    /\ retry[t] # <<>>
    /\ queue' = Append(queue, Head(retry[t]))
    /\ retry' = [retry EXCEPT ![t] = Tail(@)]
    /\ UNCHANGED <<outbox, relayVars, bound, delivered, dlq, discarded, consumerVars,
                   crashes, refusals>>

-----------------------------------------------------------------------------
(* The live consumer: deliveries are settled one at a time, oldest first. *)

Settled == Head(delivered)

\* Mutant: the watermark follows the last event applied.
WatermarkLatest(e) == seqOf[e]

\* greatest(projection_state.last_sequence, excluded.last_sequence)
WatermarkAfter(e) == IF seqOf[e] > lastSequence THEN seqOf[e] ELSE lastSequence

\* Mutant: project without claiming the event id first.
ApplyUnclaimed(e) ==
    /\ processed' = processed \union {e}
    /\ projected' = [projected EXCEPT ![e] = @ + 1]
    /\ lastSequence' = WatermarkAfter(e)

\* AnalyticsStore.apply: claim the event id, project, advance the watermark, commit.
Apply(e) ==
    \/ /\ e \in processed
       /\ UNCHANGED <<processed, projected, lastSequence>>
    \/ /\ e \notin processed
       /\ processed' = processed \union {e}
       /\ projected' = [projected EXCEPT ![e] = @ + 1]
       /\ lastSequence' = WatermarkAfter(e)

HandleEvent ==
    /\ settling = "idle"
    /\ delivered # <<>>
    /\ Settled.event \notin Unreadable
    /\ Apply(Settled.event)
    /\ settling' = "handled"
    /\ UNCHANGED <<outbox, relayVars, brokerVars, faults, crashes, refusals>>

\* The handler throws: the transaction rolled back, or it committed and the answer was lost.
HandleFails ==
    /\ settling = "idle"
    /\ delivered # <<>>
    /\ Settled.event \notin Unreadable
    /\ faults[Settled.event] < MaxFaults
    /\ faults' = [faults EXCEPT ![Settled.event] = @ + 1]
    /\ \/ Apply(Settled.event)
       \/ UNCHANGED <<processed, projected, lastSequence>>
    /\ settling' = "failed"
    /\ UNCHANGED <<outbox, relayVars, brokerVars, crashes, refusals>>

\* parseDomainEvent rejects the body: nack without requeue.
DeadLetterUnreadable ==
    /\ settling = "idle"
    /\ delivered # <<>>
    /\ Settled.event \in Unreadable
    /\ dlq' = dlq \union {Settled.event}
    /\ delivered' = Tail(delivered)
    /\ UNCHANGED <<outbox, relayVars, bound, queue, retry, discarded, consumerVars,
                   crashes, refusals>>

\* Mutants: one attempt too few, one too many.
SpentEarly(message) == message.attempt + 1 >= RetryTiers
SpentLate(message) == message.attempt > RetryTiers

\* RETRY_DELAYS_MS[attempt] is undefined.
Spent(message) == message.attempt >= RetryTiers

\* Mutant: the header is counted twice.
RetryCopySkippingTier(message) == [message EXCEPT !.attempt = @ + 2]

RetryCopy(message) == [message EXCEPT !.attempt = @ + 1]

\* Every attempt is spent: nack without requeue.
GiveUp ==
    /\ settling = "failed"
    /\ Spent(Settled)
    /\ dlq' = dlq \union {Settled.event}
    /\ delivered' = Tail(delivered)
    /\ settling' = "idle"
    /\ UNCHANGED <<outbox, relayVars, bound, queue, retry, discarded, processed, projected,
                   lastSequence, faults, crashes, refusals>>

\* The broker accepted the retry copy; the original is still unacknowledged.
SendRetryCopy ==
    /\ settling = "failed"
    /\ ~Spent(Settled)
    /\ retry' = [retry EXCEPT ![Settled.attempt + 1] =
                   Append(@, RetryCopy(Settled))]
    /\ settling' = "copied"
    /\ UNCHANGED <<outbox, relayVars, bound, queue, delivered, dlq, discarded, processed,
                   projected, lastSequence, faults, crashes, refusals>>

\* The retry copy was refused: nack with requeue, behind what is already prefetched.
RequeueOriginal ==
    /\ settling = "failed"
    /\ ~Spent(Settled)
    /\ refusals < MaxRefusals
    /\ refusals' = refusals + 1
    /\ queue' = <<Settled>> \o queue
    /\ delivered' = Tail(delivered)
    /\ settling' = "idle"
    /\ UNCHANGED <<outbox, relayVars, bound, retry, dlq, discarded, processed, projected,
                   lastSequence, faults, crashes>>

Acknowledge ==
    /\ settling \in {"handled", "copied"}
    /\ delivered' = Tail(delivered)
    /\ settling' = "idle"
    /\ UNCHANGED <<outbox, relayVars, bound, queue, retry, dlq, discarded, processed,
                   projected, lastSequence, faults, crashes, refusals>>

\* The process dies: everything unacknowledged returns to the head of the queue, in order.
CrashConsumer ==
    /\ crashes < MaxCrashes
    /\ crashes' = crashes + 1
    /\ delivered # <<>>
    /\ queue' = delivered \o queue
    /\ delivered' = <<>>
    /\ settling' = "idle"
    /\ UNCHANGED <<outbox, relayVars, bound, retry, dlq, discarded, processed, projected,
                   lastSequence, faults, refusals>>

-----------------------------------------------------------------------------
EndTransaction(e) == CommitEvent(e) \/ RollbackEvent(e)
Publisher(e) == AppendDomainEvent(e) \/ EndTransaction(e)

PublishNext(r) == SkipUnparsable(r) \/ PublishConfirmed(r) \/ PublishRefused(r)
Relay(r) == ClaimUnpublishedEvents(r) \/ PublishNext(r) \/ FinishDrain(r) \/ CrashRelay(r)

Broker == BindQueue \/ Deliver \/ \E t \in Tiers : ExpireRetry(t)

SettleDelivery ==
    \/ HandleEvent \/ HandleFails \/ DeadLetterUnreadable
    \/ GiveUp \/ SendRetryCopy \/ RequeueOriginal \/ Acknowledge
Consumer == SettleDelivery \/ CrashConsumer

Next ==
    \/ \E e \in Events : Publisher(e)
    \/ \E r \in Relays : Relay(r)
    \/ Broker
    \/ Consumer

Spec == Init /\ [][Next]_vars

(***************************************************************************)
(* Transactions end; each relay polls on an interval (startEventRelay);    *)
(* the broker delivers and expires; the consumer settles its deliveries.   *)
(* Nothing is assumed about crashes, refusals or handler failures, which   *)
(* are limited by the bounds alone.                                        *)
(***************************************************************************)
Fairness ==
    /\ \A e \in Events : WF_vars(EndTransaction(e))
    /\ \A r \in Relays : /\ WF_vars(ClaimUnpublishedEvents(r))
                         /\ WF_vars(PublishNext(r))
                         /\ WF_vars(FinishDrain(r))
    /\ WF_vars(BindQueue)
    /\ WF_vars(Deliver)
    /\ \A t \in Tiers : WF_vars(ExpireRetry(t))
    /\ WF_vars(SettleDelivery)

FairSpec == Spec /\ Fairness

-----------------------------------------------------------------------------
(* Properties. *)

\* Every variable has the shape of the table, buffer or queue it stands for.
TypeOK ==
    /\ row \in [Events -> {"none", "open", "committed"}]
    /\ seqOf \in [Events -> Nat]
    /\ nextSequence \in Nat
    /\ publishedAt \in [Events -> BOOLEAN]
    /\ failedAt \in [Events -> BOOLEAN]
    /\ attempts \in [Events -> Nat]
    /\ claimed \in [Relays -> SUBSET Events]
    /\ pending \in [Relays -> SUBSET Events]
    /\ confirmed \in [Relays -> SUBSET Events]
    /\ failures \in [Relays -> SUBSET Events]
    /\ bound \in BOOLEAN
    /\ queue \in Seq(Messages)
    /\ delivered \in Seq(Messages)
    /\ retry \in [Tiers -> Seq(Messages)]
    /\ dlq \subseteq Events
    /\ discarded \subseteq Events
    /\ settling \in {"idle", "handled", "failed", "copied"}
    /\ processed \subseteq Events
    /\ projected \in [Events -> Nat]
    /\ lastSequence \in Nat
    /\ faults \in [Events -> Nat]
    /\ crashes \in Nat
    /\ refusals \in Nat

Contents(messages) == {messages[i] : i \in 1..Len(messages)}

\* Every copy of a message the broker holds, the dead-letter queue apart.
Copies == Contents(queue) \union Contents(delivered)
            \union UNION {Contents(retry[t]) : t \in Tiers}

\* What became of an event the broker accepted: projected, set aside, dropped for want of
\* a binding, or still on its way.
Accounted(e) ==
    \/ e \in processed \union dlq \union discarded
    \/ \E m \in Copies : m.event = e

\* The consumer is settling something it was delivered.
DeliveryInProgress == settling # "idle" => delivered # <<>>

\* A stamped event is never lost: no crash, refusal, retry or acknowledgement leaves
\* published_at set on an event that is neither projected nor anywhere in the broker
\* (relay.ts: the stamp is truthful; consumer.ts: acknowledge last).
NoStampedEventLost == \A e \in Events : publishedAt[e] => Accounted(e)

\* However often an event is delivered it moves the projections once, exactly when its
\* id is in processed_events (AnalyticsStore.apply).
AppliedOnce ==
    \A e \in Events : projected[e] = IF e \in processed THEN 1 ELSE 0

\* Only committed facts are announced: a rolled-back transaction is never on the wire,
\* in the read model or in the dead-letter queue.
OnlyCommittedAnnounced ==
    \A e \in Events : Accounted(e) => row[e] = "committed"

\* Relays partition the backlog: no row is claimed by two of them (FOR UPDATE SKIP LOCKED).
ClaimsDisjoint ==
    \A r, s \in Relays : r # s => claimed[r] \intersect claimed[s] = {}

\* Delivery ends one way: no row is both stamped as published and quarantined.
StampedOrQuarantined == \A e \in Events : ~(publishedAt[e] /\ failedAt[e])

\* A readable event is dead-lettered only after the first delivery and every retry tier
\* have failed (retryOrDeadLetter).
DeadLetteredWhenSpent ==
    \A e \in dlq \ Unreadable : faults[e] > RetryTiers

\* The watermark is the highest sequence applied, never dragged back by a late event.
WatermarkIsHighest ==
    /\ \A e \in processed : seqOf[e] <= lastSequence
    /\ processed = {} => lastSequence = 0
    /\ processed # {} => \E e \in processed : seqOf[e] = lastSequence

-----------------------------------------------------------------------------
(* The inductive invariant behind the safety properties. *)

\* A drain sorts the rows it locked: still to try, confirmed or failed; while they are
\* locked nobody else stamps or quarantines them, and what was confirmed is accounted for.
DrainsConsistent ==
    \A r \in Relays :
        /\ pending[r] \union confirmed[r] \union failures[r] \subseteq claimed[r]
        /\ pending[r] \intersect confirmed[r] = {}
        /\ pending[r] \intersect failures[r] = {}
        /\ confirmed[r] \intersect failures[r] = {}
        /\ \A e \in claimed[r] : row[e] = "committed" /\ ~publishedAt[e] /\ ~failedAt[e]
        /\ \A e \in confirmed[r] : Accounted(e)

\* Copies other than the delivery being settled.
OtherCopies == Contents(queue) \union Contents(Tail(delivered))
                 \union UNION {Contents(retry[t]) : t \in Tiers}

\* The consumer acknowledges only what is accounted for without the original: an applied
\* event, or one whose retry copy the broker holds.
SettlingConsistent ==
    /\ settling = "handled" => Settled.event \in processed
    /\ settling = "copied" => \/ Settled.event \in processed \union dlq \union discarded
                              \/ \E m \in OtherCopies : m.event = Settled.event

\* The header never claims more attempts than the handler has failed.
AttemptsCounted ==
    /\ \A m \in Copies : m.attempt <= faults[m.event]
    /\ settling = "failed" => Settled.attempt < faults[Settled.event]

IInv ==
    /\ TypeOK
    /\ DeliveryInProgress
    /\ DrainsConsistent
    /\ ClaimsDisjoint
    /\ SettlingConsistent
    /\ AttemptsCounted
    /\ NoStampedEventLost
    /\ AppliedOnce
    /\ OnlyCommittedAnnounced
    /\ StampedOrQuarantined
    /\ DeadLetteredWhenSpent
    /\ WatermarkIsHighest

-----------------------------------------------------------------------------
(* Properties of particular deployments, and what they promise together. *)

\* Causes of e whose delivery never failed: neither the relay gave up on them nor a handler
\* sent them to a retry queue.
Undisturbed(e) == {c \in Causes[e] : ~failedAt[c] /\ faults[c] = 0}

\* A fact never overtakes its causes: a decision is not applied while the creation of its
\* case is still recorded, unsettled and was never set back by a failure (relay.ts: a refusal
\* stops the batch; consumer.ts: deliveries are settled one at a time).  Holds in an
\* OrderedDeployment.
CausesAppliedFirst ==
    \A e \in processed : Undisturbed(e) \subseteq processed \union dlq \union discarded

\* The deployments CausesAppliedFirst is about: one relay, and causes its contract can parse.
\* An unparsable row is skipped (its failure is recorded) and the rest of the batch published.
OrderedDeployment ==
    /\ \A r, s \in Relays : r = s
    /\ \A e \in Events : Causes[e] \intersect Unparsable = {}

\* The promise of FactDelivery, kept by the outbox, the broker and the consumer together.
Delivery == INSTANCE FactDelivery WITH
    recorded <- {e \in Events : row[e] = "committed"},
    moved <- projected,
    setAside <- dlq \union discarded \union {e \in Events : failedAt[e]}

\* Every step of the backbone is one the abstract delivery allows: nothing is unrecorded,
\* projected unrecorded, or projected twice.
ImplementsDelivery == Delivery!SafeSpec

\* Every recorded fact is settled in the end: projected, dead-lettered, quarantined, or
\* dropped while nothing was bound; no row or message is passed over forever.
EveryFactSettles == Delivery!Liveness
=============================================================================
