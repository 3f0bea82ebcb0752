------------------------------ MODULE CaseJobs ------------------------------
(***************************************************************************)
(* The processing of one case: requests of the case API                    *)
(* (apps/api/src/production-cases.service.ts), the BullMQ record of each   *)
(* job (packages/providers/src/adapters/infrastructure.ts), the workers    *)
(* that take it (apps/worker/src/production-runtime.ts), the checkpoints   *)
(* of the workflow and the rows of the case store.  Every await of a       *)
(* handler that others can slip through is a step of its own.  A reviewer's *)
(* change of the case is one step: the store saves it only if the version  *)
(* is the one that was read (saveCase).                                    *)
(***************************************************************************)
EXTENDS CaseWorkflow, FiniteSets, TLC

CONSTANTS
    Keys,           \* idempotency keys, each with its job id and checkpoint key
    Intake,         \* the key intake or create processed the case with
    Reprocess,      \* the keys of reprocess requests, one per active pack version
    Clients,        \* concurrent API requests
    Workers,
    Nobody,         \* no worker holds the record
    MaxAttempts,    \* attempts of a BullMQ record
    MaxEdits,       \* bounds: changes by reviewers,
    MaxRequests,    \*   requests about jobs,
    MaxFaults       \*   processes that die, locks a living worker loses, calls that fail

ASSUME JobsAssumption ==
    /\ Intake \in Keys
    /\ Reprocess \subseteq Keys \ {Intake}
    /\ Nobody \notin Workers
    /\ MaxAttempts \in Nat \ {0}
    /\ {MaxEdits, MaxRequests, MaxFaults} \subseteq Nat

\* The case has been created and its first processing requested.
VARIABLES
    case,           \* the cases row with its review projection
    jobs,           \* the jobs rows
    checkpoint,     \* the workflow_checkpoints rows; revision 0 stands for no row
    records,        \* the BullMQ records
    notices,        \* keys whose failed event has a handler yet to run
    api,            \* the request each client waits for
    worker,         \* what each worker does
    used            \* how much of each bound is spent

\* The tables, as far as the handlers tell their rows apart: the review projection is kept
\* with its case, and a job nobody created has status "none".
CaseRow == [version : Nat \ {0},
            status : {"processing", "needs_review", "approved", "rejected", "request_information"},
            facts : {"none", "extracted", "corrected"},
            findings : Findings \union {"resolved"},
            applied : SUBSET Keys]
JobRow == [status : {"none", "queued", "processing", "needs_review", "completed", "failed",
                     "cancelled"},
           queueId : BOOLEAN]
CheckpointRow == [revision : Nat, state : RunState]
QueueRecord == [state : {"absent", "removed", "waiting", "active", "failed"},
                owner : Workers \union {Nobody}, made : Nat, stalled : BOOLEAN]

\* A worker with a record in its hands, and one inside the job: the case as it read it, whether
\* it has changed that copy, and the run as it left it.
AtRecord == [step : {"claimed", "done", "thrown"}, key : Keys]
InJob == [step : {"ready", "run", "ran", "error"}, key : Keys, read : CaseRow,
          changed : BOOLEAN, revision : Nat, state : RunState]

store == <<case, jobs, checkpoint>>
vars == <<case, jobs, checkpoint, records, notices, api, worker, used>>

Absent == [state |-> "absent", owner |-> Nobody, made |-> 0, stalled |-> FALSE]
Removed == [Absent EXCEPT !.state = "removed"]  \* by a cancelled request
NoRequest == [step |-> "idle"]
NoWork == [step |-> "idle"]

Init ==
    /\ case = [version |-> 1, status |-> "processing", facts |-> "none", findings |-> "none", applied |-> {}]
    /\ jobs = [k \in Keys |-> IF k = Intake THEN [status |-> "queued", queueId |-> TRUE]
                                              ELSE [status |-> "none", queueId |-> FALSE]]
    /\ checkpoint = [k \in Keys |-> [revision |-> 0, state |-> DefaultState]]
    /\ records = [k \in Keys |-> IF k = Intake THEN [Absent EXCEPT !.state = "waiting"]
                                                 ELSE Absent]
    /\ notices = {}
    /\ api = [c \in Clients |-> NoRequest]
    /\ worker = [w \in Workers |-> NoWork]
    /\ used = [edits |-> 0, requests |-> 0, faults |-> 0]

Spend(bound, limit) == used[bound] < limit /\ used' = [used EXCEPT ![bound] = @ + 1]

SetStatus(k, status) == jobs' = [jobs EXCEPT ![k].status = status]
Answer(c) == api' = [api EXCEPT ![c] = NoRequest]
Goto(c, step) == api' = [api EXCEPT ![c].step = step]

-----------------------------------------------------------------------------
(* process and reprocess *)

\* A row of the same key is left as it is, and returned.
CreateJob(k) == IF jobs[k].status = "none" THEN SetStatus(k, "queued") ELSE UNCHANGED jobs

\* A reprocess that finds its job under way, or ended, returns it.
AlreadyReprocessed(k) == k \in Reprocess /\ (jobs'[k].status # "queued" \/ jobs[k].queueId)

\* The case is read and the job's row created.
Submit(c, k) ==
    /\ api[c].step = "idle"
    /\ Spend("requests", MaxRequests)
    /\ CreateJob(k)
    /\ IF AlreadyReprocessed(k)
       THEN UNCHANGED api
       ELSE api' = [api EXCEPT ![c] = [step |-> "created", key |-> k, version |-> case.version]]
    /\ UNCHANGED <<case, checkpoint, records, notices, worker>>

\* BullMqQueueProvider.enqueue: a record that still exists is a duplicate.
Enqueue(c) ==
    LET k == api[c].key
        new == records[k].state \in {"absent", "removed"}
    IN  /\ api[c].step = "created"
        /\ records' = IF new THEN [records EXCEPT ![k] = [Absent EXCEPT !.state = "waiting"]]
                             ELSE records
        /\ Goto(c, IF new THEN "enqueued" ELSE "duplicate")
        /\ UNCHANGED <<store, notices, worker, used>>

EnqueueFails(c) ==
    /\ api[c].step = "created"
    /\ Spend("faults", MaxFaults)
    /\ SetStatus(api[c].key, "failed")
    /\ Answer(c)
    /\ UNCHANGED <<case, checkpoint, records, notices, worker>>

\* The row says queued whatever became of the job since.
Announce(c) ==
    /\ api[c].step \in {"enqueued", "duplicate"}
    /\ jobs' = [jobs EXCEPT ![api[c].key] = [status |-> "queued", queueId |-> TRUE]]
    /\ IF api[c].step = "duplicate" THEN Answer(c) ELSE Goto(c, "touch")
    /\ UNCHANGED <<case, checkpoint, records, notices, worker, used>>

\* The audit entry of a new request, saved under the version read at its start.
Touch(c) ==
    /\ api[c].step = "touch"
    /\ case' = IF case.version = api[c].version THEN [case EXCEPT !.version = @ + 1] ELSE case
    /\ Answer(c)
    /\ UNCHANGED <<jobs, checkpoint, records, notices, worker, used>>

-----------------------------------------------------------------------------
(* cancel and retry *)

\* Both read the job's row first and refuse a status they do not serve.
Ask(c, k, status, step) ==
    /\ api[c].step = "idle"
    /\ jobs[k].status = status
    /\ Spend("requests", MaxRequests)
    /\ api' = [api EXCEPT ![c] = [step |-> step, key |-> k]]
    /\ UNCHANGED <<store, records, notices, worker>>

AskCancel(c, k) == Ask(c, k, "queued", "cancel")
AskRetry(c, k) == Ask(c, k, "failed", "retry")

RequestCancel(c) ==
    /\ api[c].step = "cancel"
    /\ SetStatus(api[c].key, "queued")
    /\ Goto(c, "remove")
    /\ UNCHANGED <<case, checkpoint, records, notices, worker, used>>

\* A record a worker holds, or that is gone, is not removed: the request is refused.
RemoveRecord(c) ==
    LET k == api[c].key IN
    /\ api[c].step = "remove"
    /\ IF records[k].state \in {"waiting", "failed"}
       THEN records' = [records EXCEPT ![k] = Removed] /\ Goto(c, "removed")
       ELSE UNCHANGED records /\ Answer(c)
    /\ UNCHANGED <<store, notices, worker, used>>

RecordCancelled(c) ==
    /\ api[c].step = "removed"
    /\ SetStatus(api[c].key, "cancelled")
    /\ Answer(c)
    /\ UNCHANGED <<case, checkpoint, records, notices, worker, used>>

RetryRecord(c) ==
    LET k == api[c].key IN
    /\ api[c].step = "retry"
    /\ IF records[k].state = "failed"
       THEN records' = [records EXCEPT ![k].state = "waiting"] /\ Goto(c, "rescheduled")
       ELSE UNCHANGED records /\ Answer(c)
    /\ UNCHANGED <<store, notices, worker, used>>

RecordRetry(c) ==
    /\ api[c].step = "rescheduled"
    /\ SetStatus(api[c].key, "queued")
    /\ Answer(c)
    /\ UNCHANGED <<case, checkpoint, records, notices, worker, used>>

ApiDies(c) ==
    /\ api[c].step # "idle"
    /\ Spend("faults", MaxFaults)
    /\ Answer(c)
    /\ UNCHANGED <<store, records, notices, worker>>

-----------------------------------------------------------------------------
(* Changes by people.  Each handler saves what it read only if nothing was saved since. *)

Save(change) ==
    /\ Spend("edits", MaxEdits)
    /\ case' = [change EXCEPT !.version = case.version + 1]
    /\ UNCHANGED <<jobs, checkpoint, records, notices, api, worker>>

CorrectFact ==
    case.facts # "none" /\ Save([case EXCEPT !.facts = "corrected"])

ResolveFinding ==
    case.findings = "material" /\ Save([case EXCEPT !.findings = "resolved"])

\* re-evaluate; the process request it ends with is Submit.
ReEvaluate == Save([case EXCEPT !.status = "needs_review"])

DecidedStatus == [approve |-> "approved", reject |-> "rejected",
                  request_information |-> "request_information"]

\* Mutant: the approval does not look at the findings.
DecideAnyway(outcome) == Save([case EXCEPT !.status = DecidedStatus[outcome]])

\* An approval is refused while a material finding is open.
Decide(outcome) ==
    /\ outcome = "approve" => case.findings # "material"
    /\ Save([case EXCEPT !.status = DecidedStatus[outcome]])

UploadDocument == Save(case)

-----------------------------------------------------------------------------
(* The worker *)

Step(w, step) == worker' = [worker EXCEPT ![w].step = step]

\* The work on a record is over, done or thrown; what it held in memory is gone.
Leave(w, step) == worker' = [worker EXCEPT ![w] = [step |-> step, key |-> worker[w].key]]

\* A free worker takes a waiting record and locks it.
Claim(w, k) ==
    /\ worker[w].step = "idle"
    /\ records[k].state = "waiting"
    /\ records' = [records EXCEPT ![k].state = "active", ![k].owner = w]
    /\ worker' = [worker EXCEPT ![w] = [step |-> "claimed", key |-> k]]
    /\ UNCHANGED <<store, notices, api, used>>

\* The claim of the job's row and the read of the case it is about.
Start(w) ==
    /\ worker[w].step = "claimed"
    /\ SetStatus(worker[w].key, "processing")
    /\ worker' = [worker EXCEPT ![w] = [step |-> "ready", key |-> worker[w].key, read |-> case,
                                        changed |-> FALSE, revision |-> 0, state |-> DefaultState]]
    /\ UNCHANGED <<case, checkpoint, records, notices, api, used>>

\* Mutant: a finished checkpoint is taken for a finished job.
SkipFinished(w) ==
    LET found == checkpoint[worker[w].key] IN
    /\ worker[w].step = "ready"
    /\ IF found.state.status = "running"
       THEN worker' = [worker EXCEPT ![w].revision = found.revision, ![w].state = found.state,
                                     ![w].step = "run"]
       ELSE Leave(w, "done")
    /\ UNCHANGED <<store, records, notices, api, used>>

\* run: a checkpoint that is no longer running is the result of the run as it stands.
LoadCheckpoint(w) ==
    LET found == checkpoint[worker[w].key] IN
    /\ worker[w].step = "ready"
    /\ worker' = [worker EXCEPT
            ![w].revision = found.revision,
            ![w].state = found.state,
            ![w].step = IF found.state.status = "running" THEN "run" ELSE "ran"]
    /\ UNCHANGED <<store, records, notices, api, used>>

\* Mutant: the checkpoint is saved over whatever is there.
CurrentAnyway(w) == TRUE

\* The checkpoint still has the revision the worker holds.
Current(w) == checkpoint[worker[w].key].revision = worker[w].revision

\* extract, classify and retrieve write the job's row as they begin.
ReportsProgress(s) == s.phase \in {"validate", "extract", "reconcile"}

\* One node and the checkpoint of what it left, saved over the revision that was read.
RunNode(w) ==
    LET k == worker[w].key
    IN  /\ worker[w].step = "run"
        /\ \E s \in NodeResults(worker[w].state) :
              IF Current(w)
              THEN /\ checkpoint' = [checkpoint EXCEPT
                            ![k] = [revision |-> worker[w].revision + 1, state |-> s]]
                   /\ worker' = [worker EXCEPT
                            ![w].revision = @ + 1, ![w].state = s,
                            ![w].step = IF s.status = "running" THEN "run" ELSE "ran"]
              ELSE UNCHANGED checkpoint /\ Step(w, "error")
        /\ IF ReportsProgress(worker[w].state)
           THEN SetStatus(k, "processing")
           ELSE UNCHANGED jobs
        /\ UNCHANGED <<case, records, notices, api, used>>

\* What a run that did not fail makes of the case the worker read.
Outcome(w) ==
    LET k == worker[w].key
        s == worker[w].state
    IN  [worker[w].read EXCEPT !.version = @ + 1, !.status = "needs_review", !.facts = "extracted",
                 !.findings = s.findings, !.applied = @ \union {k}]

\* Mutant: the save does not compare versions.
UnchangedAnyway(w) == TRUE

Unchanged(w) == case.version = worker[w].read.version

\* Mutant: the job's row is written although the case was not.
SaveApart(w) ==
    LET s == worker[w].state IN
    /\ worker[w].step = "ran"
    /\ IF s.status # "failed"
       THEN /\ case' = IF Unchanged(w) THEN Outcome(w) ELSE case
            /\ SetStatus(worker[w].key, s.status)
            /\ Leave(w, "done")
       ELSE UNCHANGED <<case, jobs>> /\ Step(w, "error")
    /\ UNCHANGED <<checkpoint, records, notices, api, used>>

\* saveWithJobUpdate: the case and the job's row in one transaction, or neither.
Persist(item, k, status) == case' = item /\ SetStatus(k, status)

SaveOutcome(w) ==
    LET s == worker[w].state IN
    /\ worker[w].step = "ran"
    /\ IF s.status # "failed" /\ Unchanged(w)
       THEN Persist(Outcome(w), worker[w].key, s.status) /\ Leave(w, "done")
       ELSE UNCHANGED <<case, jobs>> /\ Step(w, "error")
    /\ UNCHANGED <<checkpoint, records, notices, api, used>>

\* The catch block writes over the version the worker read too: after a conflict it
\* conflicts again, and the job's row keeps its status.  What the try block had made of
\* the case in memory when its save failed is saved here with the failure.
SaveFailure(w) ==
    /\ worker[w].step = "error"
    /\ IF Unchanged(w)
       THEN Persist(IF worker[w].changed
                    THEN Outcome(w)
                    ELSE [worker[w].read EXCEPT !.version = @ + 1, !.status = "needs_review"],
                    worker[w].key, "failed")
       ELSE UNCHANGED <<case, jobs>>
    /\ Leave(w, "thrown")
    /\ UNCHANGED <<checkpoint, records, notices, api, used>>

\* A call fails: before the try nothing is recorded, inside it the catch block follows.
Outage(w) ==
    /\ Spend("faults", MaxFaults)
    /\ \/ worker[w].step \in {"claimed", "error"} /\ Leave(w, "thrown")
       \/ worker[w].step \in {"ready", "run"} /\ Step(w, "error")
       \/ /\ worker[w].step = "ran"
          /\ worker[w].state.status # "failed"
          /\ worker' = [worker EXCEPT ![w].step = "error", ![w].changed = TRUE]
    /\ UNCHANGED <<store, records, notices, api>>

-----------------------------------------------------------------------------
(* BullMQ.  Only the holder of the lock moves a record. *)

Holds(w) == records[worker[w].key].state = "active" /\ records[worker[w].key].owner = w

Finish(w) ==
    /\ worker[w].step = "done"
    /\ records' = IF Holds(w) THEN [records EXCEPT ![worker[w].key] = Absent] ELSE records
    /\ worker' = [worker EXCEPT ![w] = NoWork]
    /\ UNCHANGED <<store, notices, api, used>>

\* Mutant: two attempts too many.
ExhaustedLate(made) == made > MaxAttempts + 1

\* The failed event of an attempt that is not the last has a handler, and it runs later.
Exhausted(made) == made >= MaxAttempts

FailAttempt(w) ==
    LET k == worker[w].key
        made == records[k].made + 1
    IN  /\ worker[w].step = "thrown"
        /\ IF Holds(w)
           THEN /\ records' = [records EXCEPT ![k] =
                        [@ EXCEPT !.state = IF Exhausted(made) THEN "failed" ELSE "waiting",
                                  !.owner = Nobody, !.made = made]]
                /\ notices' = IF Exhausted(made) THEN notices ELSE notices \union {k}
           ELSE UNCHANGED <<records, notices>>
        /\ worker' = [worker EXCEPT ![w] = NoWork]
        /\ UNCHANGED <<store, api, used>>

NoteRetry(k) ==
    /\ k \in notices
    /\ notices' = notices \ {k}
    /\ SetStatus(k, "queued")
    /\ UNCHANGED <<case, checkpoint, records, api, worker, used>>

WorkerDies(w) ==
    /\ worker[w].step # "idle"
    /\ Spend("faults", MaxFaults)
    /\ worker' = [worker EXCEPT ![w] = NoWork]
    /\ UNCHANGED <<store, records, notices, api>>

\* A record whose lock ran out goes back to the queue once; a second time it fails.
Requeue(k) ==
    /\ records' = [records EXCEPT ![k] =
            [@ EXCEPT !.state = IF @ = "active" /\ records[k].stalled THEN "failed" ELSE "waiting",
                      !.owner = Nobody, !.stalled = TRUE]]
    /\ notices' = IF records[k].stalled /\ ~Exhausted(records[k].made)
                  THEN notices \union {k} ELSE notices
    /\ UNCHANGED <<store, api, worker>>

Executing(w, k) == worker[w].step # "idle" /\ worker[w].key = k

\* Mutant: the record of a worker that died is not looked for.
RecoverNothing(k) == FALSE

RecoverStalled(k) ==
    /\ records[k].state = "active"
    /\ ~Executing(records[k].owner, k)
    /\ Requeue(k)
    /\ UNCHANGED used

LoseLock(k) ==
    /\ records[k].state = "active"
    /\ Executing(records[k].owner, k)
    /\ Spend("faults", MaxFaults)
    /\ Requeue(k)

Request(c) ==
    \/ Enqueue(c) \/ EnqueueFails(c) \/ Announce(c) \/ Touch(c)
    \/ RequestCancel(c) \/ RemoveRecord(c) \/ RecordCancelled(c)
    \/ RetryRecord(c) \/ RecordRetry(c)

Work(w) ==
    \/ Start(w) \/ LoadCheckpoint(w) \/ RunNode(w)
    \/ SaveOutcome(w) \/ SaveFailure(w) \/ Finish(w) \/ FailAttempt(w)

Next ==
    \/ \E c \in Clients, k \in Keys : Submit(c, k) \/ AskCancel(c, k) \/ AskRetry(c, k)
    \/ \E c \in Clients : Request(c) \/ ApiDies(c)
    \/ CorrectFact \/ ResolveFinding \/ ReEvaluate \/ UploadDocument
    \/ \E outcome \in DOMAIN DecidedStatus : Decide(outcome)
    \/ \E w \in Workers, k \in Keys : Claim(w, k)
    \/ \E w \in Workers : Work(w) \/ Outage(w) \/ WorkerDies(w)
    \/ \E k \in Keys : NoteRetry(k) \/ RecoverStalled(k) \/ LoseLock(k)

Spec == Init /\ [][Next]_vars

\* Handlers run to their end, a running worker takes what waits, BullMQ looks for stalled
\* records.  Nothing is assumed of people, new requests or faults.
Fairness ==
    /\ \A c \in Clients : WF_vars(Request(c))
    /\ \A w \in Workers : WF_vars(Work(w))
    /\ WF_vars(\E w \in Workers, k \in Keys : Claim(w, k))
    /\ \A k \in Keys : WF_vars(NoteRetry(k)) /\ WF_vars(RecoverStalled(k))

FairSpec == Spec /\ Fairness

-----------------------------------------------------------------------------
(* Properties. *)

\* Every variable has the shape of the row, record or local state it stands for.
TypeOK ==
    /\ case \in CaseRow
    /\ jobs \in [Keys -> JobRow]
    /\ checkpoint \in [Keys -> CheckpointRow]
    /\ records \in [Keys -> QueueRecord]
    /\ \A k \in Keys : (records[k].state = "active") <=> (records[k].owner # Nobody)
    /\ notices \subseteq Keys
    /\ worker \in [Workers -> AtRecord \union InJob \union {NoWork}]

\* No case stands approved over an open material finding, although workers raise findings
\* while people decide (decide, saveWithJobUpdate).
ApprovedOnResolved == case.status = "approved" => case.findings # "material"

\* Case, job row, checkpoint and queue record fit each other, and an approved case stays
\* resolved.
CasesAreSound == TypeOK /\ ApprovedOnResolved

\* The outcome a job's row reports is the outcome its workflow reached, and it was saved with
\* the case ("saveWithJobUpdate": one transaction).
OutcomeIsReal ==
    \A k \in Keys : jobs[k].status \in {"needs_review", "completed"} =>
        k \in case.applied /\ checkpoint[k].state.status = jobs[k].status

\* A worker replaces the case only if it is still the case it read: nothing a reviewer saved
\* while the documents were processed is lost.
OverwritesOnlyWhatItRead ==
    [][\A w \in Workers :
        (worker[w].step \in {"ran", "error"} /\ case' # case /\ worker'[w].step # worker[w].step)
            => case = worker[w].read]_vars

\* Two workers with the same job never undo each other's progress: a finished run is final,
\* and a checkpoint only moves on along the graph.
CheckpointsMoveOn ==
    [][\A k \in Keys : checkpoint'[k] # checkpoint[k] =>
        /\ checkpoint[k].state.status = "running"
        /\ checkpoint'[k].revision = checkpoint[k].revision + 1
        /\ Rank[checkpoint'[k].state.phase] > Rank[checkpoint[k].state.phase]]_vars

\* A record in the queue is taken until its work is done, its attempts are spent, or it is
\* cancelled: no stalled worker or lost update strands it.
RecordsDrain ==
    \A k \in Keys : (records[k].state \in {"waiting", "active"})
        ~> (records[k].state \notin {"waiting", "active"})

\* The result of a run that ended without failing reaches the case, whatever conflicts its
\* first saves meet, unless the attempts are spent or the job is cancelled.
ResultsReachTheCase ==
    \A k \in Keys : (checkpoint[k].state.status \in {"needs_review", "completed"})
        ~> (k \in case.applied \/ records[k].state \in {"removed", "failed"})

\* No record is tried for ever: only a retry a person asked for adds an attempt.
AttemptsBounded == \A k \in Keys : records[k].made <= MaxAttempts + used.requests

\* Work that was accepted is settled, within its attempts, and its result is not lost on the
\* way to the case.
JobsSettle == []AttemptsBounded /\ RecordsDrain /\ ResultsReachTheCase
=============================================================================
