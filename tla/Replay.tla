------------------------------- MODULE Replay -------------------------------
(***************************************************************************)
(* Rebuilding the read model from the outbox.  The replay command sends a  *)
(* control message and then history, page by page, to a queue of its own;  *)
(* one process runs two consumers, live and replay, over one database,     *)
(* each settling one delivery at a time.  Their transactions interleave    *)
(* under READ COMMITTED: an apply reads in one statement what it uses in a *)
(* later one, and the reset deletes one table per statement.               *)
(*                                                                         *)
(* Delivery itself (relays, claims, prefetch, confirms lost on the way) is *)
(* the subject of EventBackbone and appears here as Announce; the head of  *)
(* a queue is the delivery being settled, and retry holds the messages     *)
(* waiting in any retry tier.                                              *)
(*                                                                         *)
(* Bounds: MaxReplays runs of the command, MaxCrashes of the consumer      *)
(* process, MaxFaults failures of a handler, MaxRefusals refused publishes *)
(* of the replay, MaxDiscards facts published while nothing was bound.     *)
(***************************************************************************)
EXTENDS Projections, SequencesExt

CONSTANTS
    Unparsable,     \* rows the current contract cannot read
    BatchSize,      \* page size of the replay
    RetryTiers,     \* Len(RETRY_DELAYS_MS)
    Overlap,        \* replays run while cases are being worked on
    Control,        \* the replay.started message
    MaxReplays, MaxCrashes, MaxFaults, MaxRefusals, MaxDiscards

ASSUME ReplayAssumption ==
    /\ Unparsable \subseteq Facts
    /\ BatchSize \in Nat \ {0}
    /\ RetryTiers \in Nat
    /\ Overlap \in BOOLEAN
    /\ Control \notin Facts \union {NoFact}

ASSUME ReplayBounds ==
    /\ {MaxReplays, MaxCrashes, MaxFaults, MaxRefusals, MaxDiscards} \subseteq Nat

VARIABLES
    \* the outbox
    row,            \* row[f]: none, inserted by an open transaction, or committed
    seqOf,          \* the sequence drawn at insert, 0 before
    announced,      \* facts the relay has published
    \* the broker
    queue,          \* queue[c]: the work queue of consumer c, its head being settled
    retry,          \* retry[c]: messages waiting in the retry queues of c
    dead,           \* dead[c]: what c dead-lettered
    discarded,      \* facts published to an exchange without bindings
    \* the replay command
    replay,         \* off, paging, published or aborted
    cursor,         \* the sequence it has reached
    page,           \* rows read and not yet published
    sent,           \* facts this run has published or skipped
    \* the analytics process and its database
    db,             \* what is committed
    tx,             \* tx[c]: the settling of the head of queue[c] and its open transaction
    deleted,        \* rows deleted by the open reset
    \* spent bounds
    replays, crashes, faults, refusals

log == <<row, seqOf, announced>>
command == <<replay, cursor, page, sent, replays, refusals>>
broker == <<queue, retry, dead, discarded>>
analytics == <<db, tx, deleted, crashes, faults>>
vars == <<log, command, broker, analytics>>

Consumers == {"live", "replay"}

Message(body) == [body |-> body, attempt |-> 0]

\* The deletes of AnalyticsStore.reset, in order.
Tables == <<"throughput", "cycleTime", "dimensions", "findings", "effectiveness",
            "processed", "state">>

\* The rows each table holds, by key.
Rows(model) ==
    [throughput |-> {k \in ThroughputKeys :
                        model.throughput[k].created + model.throughput[k].decided > 0},
     cycleTime |-> {c \in Cases : model.cycleTime[c] # NoFact},
     dimensions |-> model.dimensions,
     findings |-> model.findings,
     effectiveness |-> {k \in RuleKeys : model.effectiveness[k].raised > 0},
     processed |-> model.processed,
     state |-> IF model.lastSequence > 0 THEN {"analytics"} ELSE {}]

NoRows == Rows(EmptyReadModel)

\* The model without the rows of one table each.
Without(model, rows) ==
    [throughput |-> [k \in ThroughputKeys |->
        IF k \in rows.throughput THEN EmptyReadModel.throughput[k] ELSE model.throughput[k]],
     cycleTime |-> [c \in Cases |-> IF c \in rows.cycleTime THEN NoFact ELSE model.cycleTime[c]],
     dimensions |-> model.dimensions \ rows.dimensions,
     findings |-> model.findings \ rows.findings,
     effectiveness |-> [k \in RuleKeys |->
        IF k \in rows.effectiveness THEN EmptyReadModel.effectiveness[k]
                                    ELSE model.effectiveness[k]],
     processed |-> model.processed \ rows.processed,
     lastSequence |-> IF rows.state = {} THEN model.lastSequence ELSE 0]

Idle == [phase |-> "idle", pack |-> "unknown", first |-> FALSE, wiped |-> 0]
In(phase) == [Idle EXCEPT !.phase = phase]

Init ==
    /\ row = [f \in Facts |-> "none"]
    /\ seqOf = [f \in Facts |-> 0]
    /\ announced = {}
    /\ queue = [c \in Consumers |-> <<>>]
    /\ retry = [c \in Consumers |-> <<>>]
    /\ dead = [c \in Consumers |-> {}]
    /\ discarded = {}
    /\ replay = "off"
    /\ cursor = 0
    /\ page = {}
    /\ sent = {}
    /\ db = EmptyReadModel
    /\ tx = [c \in Consumers |-> Idle]
    /\ deleted = NoRows
    /\ replays = 0
    /\ crashes = 0
    /\ faults = 0
    /\ refusals = 0

-----------------------------------------------------------------------------
(* The outbox and its relay. *)

Committed == {f \in Facts : row[f] = "committed"}
Settled(c) == queue[c] = <<>> /\ retry[c] = <<>> /\ tx[c] = Idle

\* Without Overlap an operator replays while no case is worked on.
NoReplayRunning == replay # "paging" /\ Settled("replay")
NoLiveTraffic == /\ \A f \in Facts : row[f] # "open"
                 /\ Committed \ Unparsable \subseteq announced
                 /\ Settled("live")

\* A case is created first, and its row is locked by the transaction that records a fact.
MayRecord(f) ==
    /\ \A g \in OfCase(Facts, CaseOf[f]) : row[g] # "open"
    /\ KindOf[f] # "created" =>
          \A g \in OfKind(OfCase(Facts, CaseOf[f]), "created") : row[g] = "committed"

NextSequence == Cardinality({f \in Facts : seqOf[f] > 0}) + 1

AppendDomainEvent(f) ==
    /\ row[f] = "none"
    /\ MayRecord(f)
    /\ Overlap \/ NoReplayRunning
    /\ row' = [row EXCEPT ![f] = "open"]
    /\ seqOf' = [seqOf EXCEPT ![f] = NextSequence]
    /\ UNCHANGED <<announced, command, broker, analytics>>

CommitEvent(f) ==
    /\ row[f] = "open"
    /\ row' = [row EXCEPT ![f] = "committed"]
    /\ UNCHANGED <<seqOf, announced, command, broker, analytics>>

\* The relay publishes the oldest row it has not published, to whatever is bound.
Announce(f) ==
    LET waiting == Committed \ (announced \union Unparsable)
    IN  /\ f \in waiting
        /\ f = Earliest(waiting, seqOf)
        /\ announced' = announced \union {f}
        /\ \/ /\ queue' = [queue EXCEPT !["live"] = Append(@, Message(f))]
              /\ UNCHANGED discarded
           \/ /\ Cardinality(discarded) < MaxDiscards
              /\ discarded' = discarded \union {f}
              /\ UNCHANGED queue
        /\ UNCHANGED <<row, seqOf, command, retry, dead, analytics>>

-----------------------------------------------------------------------------
(* The replay command. *)

StartReplay ==
    /\ replays < MaxReplays
    /\ replay # "paging"
    /\ Overlap \/ NoLiveTraffic
    /\ replays' = replays + 1
    /\ replay' = "paging"
    /\ cursor' = 0
    /\ page' = {}
    /\ sent' = {}
    /\ queue' = [queue EXCEPT !["replay"] = Append(@, Message(Control))]
    /\ UNCHANGED <<log, retry, dead, discarded, analytics, refusals>>

\* Mutant: the first row after the cursor is taken for the last one published.
BeyondPlusOne == {f \in Committed : seqOf[f] > cursor + 1}

\* where sequence > cursor
Beyond == {f \in Committed : seqOf[f] > cursor}

\* order by sequence asc limit BatchSize
IsPage(rows) ==
    /\ rows \subseteq Beyond
    /\ Cardinality(rows) <= BatchSize
    /\ Cardinality(rows) < BatchSize => rows = Beyond
    /\ \A f \in rows, g \in Beyond \ rows : seqOf[f] < seqOf[g]

ReadPage ==
    /\ replay = "paging"
    /\ page = {}
    /\ Beyond # {}
    /\ page' \in {rows \in SUBSET Beyond : IsPage(rows)}
    /\ UNCHANGED <<log, broker, replay, cursor, sent, analytics, replays, refusals>>

FinishReplay ==
    /\ replay = "paging"
    /\ page = {}
    /\ Beyond = {}
    /\ replay' = "published"
    /\ UNCHANGED <<log, broker, cursor, page, sent, analytics, replays, refusals>>

\* Publish the next row of the page; one that does not parse is skipped.
PublishRow ==
    /\ page # {}
    /\ LET f == Earliest(page, seqOf)
       IN  /\ cursor' = seqOf[f]
           /\ page' = page \ {f}
           /\ sent' = sent \union {f}
           /\ IF f \in Unparsable
              THEN UNCHANGED queue
              ELSE queue' = [queue EXCEPT !["replay"] = Append(@, Message(f))]
    /\ UNCHANGED <<log, retry, dead, discarded, replay, analytics, replays, refusals>>

\* A refused publish stops the run.
PublishRefused ==
    /\ page \ Unparsable # {}
    /\ refusals < MaxRefusals
    /\ refusals' = refusals + 1
    /\ replay' = "aborted"
    /\ cursor' = 0
    /\ page' = {}
    /\ sent' = {}
    /\ UNCHANGED <<log, broker, analytics, replays>>

-----------------------------------------------------------------------------
(* The consumers: onMessage, one delivery at a time. *)

Other(c) == IF c = "live" THEN "replay" ELSE "live"
Delivery(c) == Head(queue[c]).body

\* c is about to settle, or is settling, a fact.
HandlesFact(c) == queue[c] # <<>> /\ Delivery(c) # Control

HoldsClaim(c) == tx[c].phase \in {"claimed", "attributed", "ready"}

\* Inserting f waits for a transaction that has inserted or deleted the same row.
ClaimBlocked(c, f) ==
    \/ HoldsClaim(Other(c)) /\ Delivery(Other(c)) = f
    \/ f \in deleted.processed

\* Mutant: project without asking whether the id is recorded.
NeverDuplicate(f) == FALSE

Duplicate(f) == f \in db.processed

\* insert into processed_events ... on conflict do nothing
Claim(c) ==
    /\ HandlesFact(c)
    /\ tx[c] = Idle
    /\ ~ClaimBlocked(c, Delivery(c))
    /\ tx' = [tx EXCEPT ![c] = In(IF Duplicate(Delivery(c)) THEN "handled" ELSE "claimed")]
    /\ UNCHANGED <<log, command, broker, db, deleted, crashes, faults>>

ReadDimension(c) ==
    /\ tx[c].phase = "claimed"
    /\ KindOf[Delivery(c)] = "decided"
    /\ tx' = [tx EXCEPT ![c] = [In("attributed") EXCEPT
                !.pack = IF CaseOf[Delivery(c)] \in db.dimensions THEN "known" ELSE "unknown"]]
    /\ UNCHANGED <<log, command, broker, db, deleted, crashes, faults>>

ReadCycleTime(c) ==
    /\ tx[c].phase = "attributed"
    /\ tx' = [tx EXCEPT ![c].phase = "ready",
                        ![c].first = db.cycleTime[CaseOf[Delivery(c)]] = NoFact]
    /\ UNCHANGED <<log, command, broker, db, deleted, crashes, faults>>

ReadyToWrite(c) ==
    IF KindOf[Delivery(c)] = "decided" THEN tx[c].phase = "ready" ELSE tx[c].phase = "claimed"

\* The rows project writes, by table.
Written(c) ==
    LET f == Delivery(c)
        counts == KindOf[f] = "decided" /\ tx[c].first
    IN  [throughput |-> CASE KindOf[f] = "created" -> {<<DayOf[f], "known">>}
                          [] counts -> {<<DayOf[f], tx[c].pack>>}
                          [] OTHER -> {},
         cycleTime |-> IF KindOf[f] = "decided" THEN {CaseOf[f]} ELSE {},
         dimensions |-> IF KindOf[f] = "created" THEN {CaseOf[f]} ELSE {},
         findings |-> IF KindOf[f] = "finding" THEN Conflicting(FindingKeys, f) ELSE {},
         effectiveness |-> CASE KindOf[f] = "finding" -> {RuleKey(f)}
                             [] counts -> RulesOfCase(db, CaseOf[f])
                             [] OTHER -> {},
         processed |-> {},
         state |-> {"analytics"}]

\* A write waits for the reset that has deleted its row.
WriteBlocked(c) == \E table \in DOMAIN deleted : deleted[table] \intersect Written(c)[table] # {}

\* Write the projections and the watermark, and commit.
CommitApply(c) ==
    /\ HandlesFact(c)
    /\ ReadyToWrite(c)
    /\ ~WriteBlocked(c)
    /\ db' = RecordProcessed(Project(db, Delivery(c), tx[c].pack, tx[c].first),
                             Delivery(c), seqOf[Delivery(c)])
    /\ tx' = [tx EXCEPT ![c] = In("handled")]
    /\ UNCHANGED <<log, command, broker, deleted, crashes, faults>>

-----------------------------------------------------------------------------
(* The reset: one transaction, one delete per table. *)

BeginReset ==
    /\ queue["replay"] # <<>>
    /\ Delivery("replay") = Control
    /\ tx["replay"] = Idle
    /\ tx' = [tx EXCEPT !["replay"] = In("resetting")]
    /\ UNCHANGED <<log, command, broker, db, deleted, crashes, faults>>

DeleteTable ==
    /\ tx["replay"].phase = "resetting"
    /\ tx["replay"].wiped < Len(Tables)
    /\ LET next == tx["replay"].wiped + 1
       IN  /\ tx' = [tx EXCEPT !["replay"].wiped = next]
           /\ deleted' = [deleted EXCEPT ![Tables[next]] = Rows(db)[Tables[next]]]
    /\ UNCHANGED <<log, command, broker, db, crashes, faults>>

\* Mutant: the projections go, the processed ids stay.
KeepIds(rows) == [rows EXCEPT !.processed = {}]

Forgotten(rows) == rows

CommitReset ==
    /\ tx["replay"].phase = "resetting"
    /\ tx["replay"].wiped = Len(Tables)
    /\ db' = Without(db, Forgotten(deleted))
    /\ deleted' = NoRows
    /\ tx' = [tx EXCEPT !["replay"] = In("handled")]
    /\ UNCHANGED <<log, command, broker, crashes, faults>>

-----------------------------------------------------------------------------
(* Settling. *)

\* The database refuses or aborts the transaction: a lock cycle, a lost connection.
TransactionFails(c) ==
    /\ HoldsClaim(c) \/ tx[c].phase = "resetting"
    /\ faults < MaxFaults
    /\ faults' = faults + 1
    /\ tx' = [tx EXCEPT ![c] = In("failed")]
    /\ deleted' = IF tx[c].phase = "resetting" THEN NoRows ELSE deleted
    /\ UNCHANGED <<log, command, broker, db, crashes>>

Done(c) == tx[c].phase \in {"handled", "copied"}

Spent(message) == message.attempt >= RetryTiers

\* Mutant: the header is counted twice.
RetryCopySkippingTier(message) == [message EXCEPT !.attempt = @ + 2]

RetryCopy(message) == [message EXCEPT !.attempt = @ + 1]

\* retryOrDeadLetter: to a retry queue behind everything that follows, or set aside.
SendRetryCopy(c) ==
    /\ tx[c].phase = "failed"
    /\ ~Spent(Head(queue[c]))
    /\ retry' = [retry EXCEPT ![c] = Append(@, RetryCopy(Head(queue[c])))]
    /\ tx' = [tx EXCEPT ![c] = In("copied")]
    /\ UNCHANGED <<log, command, queue, dead, discarded, db, deleted, crashes, faults>>

GiveUp(c) ==
    /\ tx[c].phase = "failed"
    /\ Spent(Head(queue[c]))
    /\ dead' = [dead EXCEPT ![c] = @ \union {Delivery(c)}]
    /\ queue' = [queue EXCEPT ![c] = Tail(@)]
    /\ tx' = [tx EXCEPT ![c] = Idle]
    /\ UNCHANGED <<log, command, retry, discarded, db, deleted, crashes, faults>>

Acknowledge(c) ==
    /\ Done(c)
    /\ queue' = [queue EXCEPT ![c] = Tail(@)]
    /\ tx' = [tx EXCEPT ![c] = Idle]
    /\ UNCHANGED <<log, command, retry, dead, discarded, db, deleted, crashes, faults>>

ExpireRetry(c) ==
    /\ \E i \in 1..Len(retry[c]) :
          /\ queue' = [queue EXCEPT ![c] = Append(@, retry[c][i])]
          /\ retry' = [retry EXCEPT ![c] = RemoveAt(@, i)]
    /\ UNCHANGED <<log, command, dead, discarded, analytics>>

\* The process dies: both transactions roll back, both deliveries return to their queues.
Crash ==
    /\ crashes < MaxCrashes
    /\ crashes' = crashes + 1
    /\ \E c \in Consumers : tx[c] # Idle
    /\ tx' = [c \in Consumers |-> Idle]
    /\ deleted' = NoRows
    /\ UNCHANGED <<log, command, broker, db, faults>>

-----------------------------------------------------------------------------
Publishing(f) == CommitEvent(f) \/ Announce(f)
Paging == ReadPage \/ FinishReplay \/ PublishRow \/ PublishRefused

Resetting == BeginReset \/ DeleteTable \/ CommitReset
Consume(c) ==
    \/ Claim(c) \/ ReadDimension(c) \/ ReadCycleTime(c) \/ CommitApply(c)
    \/ TransactionFails(c) \/ SendRetryCopy(c) \/ GiveUp(c) \/ Acknowledge(c)

Next ==
    \/ \E f \in Facts : AppendDomainEvent(f) \/ Publishing(f)
    \/ StartReplay \/ Paging
    \/ Resetting
    \/ \E c \in Consumers : Consume(c) \/ ExpireRetry(c)
    \/ Crash

Spec == Init /\ [][Next]_vars

(***************************************************************************)
(* Transactions commit, the relay publishes, a started command runs to its *)
(* end, and both consumers settle what the broker delivers.  Nothing is    *)
(* assumed of new facts, new replays or faults.                            *)
(***************************************************************************)
Fairness ==
    /\ \A f \in Facts : WF_vars(Publishing(f))
    /\ WF_vars(Paging)
    /\ WF_vars(Resetting)
    /\ \A c \in Consumers : WF_vars(Consume(c)) /\ WF_vars(ExpireRetry(c))

FairSpec == Spec /\ Fairness

-----------------------------------------------------------------------------
(* Properties. *)

\* Every variable has the shape of the table, queue or cursor it stands for.
TypeOK ==
    /\ row \in [Facts -> {"none", "open", "committed"}]
    /\ seqOf \in [Facts -> 0..Cardinality(Facts)]
    /\ announced \subseteq Facts
    /\ \A c \in Consumers :
          /\ queue[c] \in Seq([body : Facts \union {Control}, attempt : 0..RetryTiers])
          /\ retry[c] \in Seq([body : Facts \union {Control}, attempt : 1..RetryTiers])
          /\ dead[c] \subseteq Facts \union {Control}
          /\ tx[c].phase \in {"idle", "claimed", "attributed", "ready", "resetting",
                              "handled", "failed", "copied"}
          /\ tx[c].phase # "idle" => queue[c] # <<>>
          /\ tx[c].phase # "resetting" => tx[c].wiped = 0
    /\ discarded \subseteq announced
    /\ replay \in {"off", "paging", "published", "aborted"}
    /\ cursor \in 0..Cardinality(Facts)
    /\ page \subseteq Facts
    /\ sent \subseteq Facts
    /\ db.throughput \in [ThroughputKeys -> [created : Nat, decided : Nat]]
    /\ db.cycleTime \in [Cases -> Facts \union {NoFact}]
    /\ db.dimensions \subseteq Cases
    /\ db.findings \subseteq FindingKeys
    /\ db.effectiveness \in [RuleKeys -> [raised : Nat, concluded : Nat]]
    /\ db.processed \subseteq Facts
    /\ tx["replay"].phase # "resetting" => deleted = NoRows

\* The read model is a function of the facts it has processed, as if it had counted them in
\* the order they happened, whatever was redelivered, reset or replayed in between
\* (AnalyticsStore.apply, project).  Holds while no handler fails and replays do not
\* overlap live traffic.
ReadModelIsDerived == db = Derived(db.processed, seqOf)

\* The sum of a counter over its rows, as the number of marks tallied in all of them.
Marks(counter) == UNION {{k} \X (1..counter[k]) : k \in DOMAIN counter}
Tally(counter) == Cardinality(Marks(counter))

Created == Tally([k \in ThroughputKeys |-> db.throughput[k].created])
Decided == Tally([k \in ThroughputKeys |-> db.throughput[k].decided])
Raised == Tally([k \in RuleKeys |-> db.effectiveness[k].raised])

\* The counters count each processed fact once, failed and retried deliveries included
\* ("Applies one event exactly once, no matter how many times it is delivered").
CountedOnce ==
    /\ Created = Cardinality(OfKind(db.processed, "created"))
    /\ Raised = Cardinality(OfKind(db.processed, "finding"))

\* However many decisions a case receives, and in whatever order, it is counted as decided
\* once ("One consumer owns every row").
DecidedOncePerCase == Decided = Cardinality({c \in Cases : db.cycleTime[c] # NoFact})

\* A rule is never followed by more decisions than it fired.
ConcludedWithinRaised ==
    \A k \in RuleKeys : db.effectiveness[k].concluded <= db.effectiveness[k].raised

\* The counters of the read model count facts, never deliveries, whatever fails between the
\* statements of a transaction, its commit and the acknowledgement.
CountersAreSound == TypeOK /\ CountedOnce /\ DecidedOncePerCase /\ ConcludedWithinRaised

ReplayDrained == replay = "published" /\ \A c \in Consumers : Settled(c)

History == {f \in Committed \ Unparsable : seqOf[f] <= cursor}

\* When a replay has run to its end and its stream is drained, the read model holds exactly
\* what history says, facts the live path lost included: the reset came before the history,
\* and nothing stale survived it.
RebuiltFromHistory ==
    ReplayDrained =>
        /\ History \subseteq db.processed
        /\ db = Derived(db.processed, seqOf)

\* A fact that was delivered is not forgotten by a rebuild: live facts recorded while a
\* replay runs are still projected when both streams are drained.
NoDeliveredFactForgotten ==
    ReplayDrained => announced \ discarded \subseteq db.processed \union dead["live"]

\* A replay that ran to its end passed over no row: everything recorded up to its cursor
\* was published or skipped ("Paged by sequence ... cannot skip or repeat rows").
PagesSkipNothing ==
    replay = "published" => {f \in Committed : seqOf[f] <= cursor} \subseteq sent

\* A rebuild is exact: nothing of history is passed over, nothing live is forgotten, and the
\* read model is what history says.
RebuildIsExact == RebuiltFromHistory /\ PagesSkipNothing /\ NoDeliveredFactForgotten

\* A replay that is not refused ends, and every fact it found is projected again.
RebuildCompletes ==
    \A f \in Facts :
        (replay = "published" /\ f \in History) ~> (f \in db.processed \/ f \in dead["replay"])
=============================================================================
