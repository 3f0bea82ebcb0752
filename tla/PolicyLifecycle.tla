--------------------------- MODULE PolicyLifecycle ---------------------------
(***************************************************************************)
(* The life of uploaded policies: the policy API                           *)
(* (apps/api/src/policies/policies.service.ts), the policy jobs of the     *)
(* worker (processPolicyJob and fileUnfiledPolicy in                       *)
(* apps/worker/src/production-runtime.ts) and the rows of                  *)
(* packages/persistence/src/policy-store.ts.  One proposal stands for the  *)
(* proposals of a policy; a draft is the content one run of the model gave *)
(* it.  A status is written only over the version that was read; content   *)
(* and proposals are written without a version check.                      *)
(***************************************************************************)
EXTENDS Naturals, FiniteSets, TLC

CONSTANTS
    Policies,
    Rivals,         \* policies that are approved before the behaviour begins
    Regenerated,    \* policies the administrator may regenerate
    Workers, Nobody,
    MaxAttempts,    \* attempts of a BullMQ record
    MaxDrafts,      \* bounds: proposal sets the model generates,
    MaxRequests,    \*   requests of the administrator,
    MaxFaults       \*   processes that die, locks lost, calls that fail

ASSUME PolicyAssumption ==
    /\ Rivals \union Regenerated \subseteq Policies
    /\ Nobody \notin Workers
    /\ MaxAttempts \in Nat \ {0}
    /\ {MaxDrafts, MaxRequests, MaxFaults} \subseteq Nat

\* The jobs of a policy: of its upload, of a regeneration, of a collection decision that
\* found no paused job.
Jobs == Policies \X {"upload", "reprocess", "decision"}
Of(j) == j[1]

\* A BullMQ record has the id of its job, or that id and the collection it was filed into.
Records == Jobs \X {"first", "filed"}

VARIABLES
    object,         \* policies whose source file is in object storage
    policy,         \* policy_documents
    proposal,       \* policy_rule_proposals
    rules,          \* policy_rules
    approved,       \* <<policy, draft>> a person approved
    jobs,           \* jobs rows
    records,        \* BullMQ records
    notices,        \* failed events whose handler has yet to run
    api,            \* the administrator's request
    worker,
    used            \* how much of each bound is spent

\* The tables, as far as the handlers tell their rows apart; no row has status "none".  Only
\* a policy that nobody has reviewed may be without a collection.
Unfiled == {"none", "uploaded", "processing", "awaiting_collection", "failed"}
Filings == {"no", "decided", "classified"}
PolicyRow ==
    [status : Unfiled, version : Nat, filed : Filings] \union
    [status : {"under_review", "approved", "active"}, version : Nat, filed : Filings \ {"no"}]
ProposalRow ==
    [status : {"none", "proposed", "invalid", "approved", "rejected", "activated"},
     draft : 0..MaxDrafts]
RuleRow == [status : {"none", "active", "superseded"}, draft : 0..MaxDrafts]
JobRow == [status : {"none", "queued", "processing", "paused", "completed", "failed", "cancelled"},
           queued : BOOLEAN]
QueueRecord == [state : {"absent", "removed", "waiting", "active", "failed"},
                owner : Workers \union {Nobody}, made : 0..MaxAttempts + MaxRequests,
                stalled : BOOLEAN]

\* What a request holds between its awaits: an upload, a job on its way into the queue with
\* the status to put back, a decided collection; and what a worker holds of its job.
Uploading == [step : {"put", "create", "job"}, job : Policies \X {"upload"},
              filed : {"no", "decided"}]
Queueing == [step : {"claim", "enqueue", "announce"}, job : Jobs, record : Records,
             before : Unfiled \union {"under_review", "approved"}, version : Nat]
Resuming == [step : {"resume"}, job : Jobs, version : Nat]
InJob == [step : {"claimed", "started", "taken", "filed", "pause", "chunked", "proposed",
                  "reviewable", "done", "error", "thrown"},
          record : Records, version : Nat, filed : Filings]

rows == <<policy, proposal, rules, approved>>
vars == <<object, policy, proposal, rules, approved, jobs, records, notices, api, worker, used>>

Absent == [state |-> "absent", owner |-> Nobody, made |-> 0, stalled |-> FALSE]
Removed == [Absent EXCEPT !.state = "removed"]  \* with the job that was cancelled
NoRequest == [step |-> "idle"]
NoWork == [step |-> "idle"]

\* Drafts of rivals are numbered from zero down: every rival was approved with draft 0.
Init ==
    /\ object = Rivals
    /\ policy = [p \in Policies |->
            IF p \in Rivals THEN [status |-> "approved", version |-> 1, filed |-> "decided"]
                            ELSE [status |-> "none", version |-> 0, filed |-> "no"]]
    /\ proposal = [p \in Policies |->
            [status |-> IF p \in Rivals THEN "approved" ELSE "none", draft |-> 0]]
    /\ rules = [p \in Policies |-> [status |-> "none", draft |-> 0]]
    /\ approved = Rivals \X {0}
    /\ jobs = [j \in Jobs |-> [status |-> "none", queued |-> FALSE]]
    /\ records = [r \in Records |-> Absent]
    /\ notices = {}
    /\ api = NoRequest
    /\ worker = [w \in Workers |-> NoWork]
    /\ used = [drafts |-> 0, requests |-> 0, faults |-> 0]

Spend(bound, limit) == used[bound] < limit /\ used' = [used EXCEPT ![bound] = @ + 1]

SetJob(j, status) == jobs' = [jobs EXCEPT ![j].status = status]
Goto(step) == api' = [api EXCEPT !.step = step]
Answer == api' = NoRequest

\* Mutant: the version is not compared.
CurrentAnyway(p, version) == TRUE

Current(p, version) == policy[p].version = version

\* updateStatus: over the version that was read, which becomes the next one.
UpdateStatus(p, status) ==
    policy' = [policy EXCEPT ![p].status = status, ![p].version = @ + 1]

File(p, status, filed) ==
    policy' = [policy EXCEPT ![p] = [status |-> status, version |-> @.version + 1, filed |-> filed]]

-----------------------------------------------------------------------------
(* Uploading.  A retried upload has the same ids; it stops where it finds the policy. *)

\* The collection of an upload is named by the administrator, or left to classification.
Upload(p, filed) ==
    /\ api.step = "idle"
    /\ Spend("requests", MaxRequests)
    /\ policy[p].status = "none"
    /\ api' = [step |-> "put", job |-> <<p, "upload">>, filed |-> filed]
    /\ UNCHANGED <<object, rows, jobs, records, notices, worker>>

\* The source is stored under a key that must not exist; otherwise the request is refused.
PutObject ==
    LET p == Of(api.job) IN
    /\ api.step = "put"
    /\ object' = object \union {p}
    /\ IF p \in object THEN Answer ELSE Goto("create")
    /\ UNCHANGED <<rows, jobs, records, notices, worker, used>>

CreatePolicy ==
    LET p == Of(api.job) IN
    /\ api.step = "create"
    /\ policy' = [policy EXCEPT ![p] = [status |-> "uploaded", version |-> 1, filed |-> api.filed]]
    /\ Goto("job")
    /\ UNCHANGED <<object, proposal, rules, approved, jobs, records, notices, worker, used>>

CreateJob ==
    /\ api.step = "job"
    /\ jobs' = [jobs EXCEPT ![api.job] = [status |-> "queued", queued |-> FALSE]]
    /\ api' = [step |-> "enqueue", job |-> api.job, record |-> <<api.job, "first">>,
               before |-> "none", version |-> policy[Of(api.job)].version]
    /\ UNCHANGED <<object, rows, records, notices, worker, used>>

-----------------------------------------------------------------------------
(* Regenerating a policy *)

Regenerable(p) ==
    /\ p \in Regenerated
    /\ policy[p].status \notin {"none", "processing", "active", "superseded", "revoked"}
    /\ proposal[p].status \notin {"approved", "activated"}

Reprocess(p) ==
    LET j == <<p, "reprocess">> IN
    /\ api.step = "idle"
    /\ Spend("requests", MaxRequests)
    /\ Regenerable(p)
    /\ jobs[j].status \in {"none", "queued"} /\ ~jobs[j].queued
    /\ SetJob(j, "queued")
    /\ api' = [step |-> "claim", job |-> j, record |-> <<j, "first">>,
               before |-> policy[p].status, version |-> policy[p].version]
    /\ UNCHANGED <<object, rows, records, notices, worker>>

\* The policy is processing before its job is in the queue.
ClaimForReprocess ==
    LET p == Of(api.job) IN
    /\ api.step = "claim"
    /\ IF Current(p, api.version)
       THEN /\ UpdateStatus(p, "processing")
            /\ api' = [api EXCEPT !.step = "enqueue", !.version = @ + 1]
       ELSE UNCHANGED policy /\ Answer
    /\ UNCHANGED <<object, proposal, rules, approved, jobs, records, notices, worker, used>>

\* A record that still exists, waiting or failed, is a duplicate.
Enqueue ==
    /\ api.step = "enqueue"
    /\ records' = IF records[api.record].state \in {"absent", "removed"}
                  THEN [records EXCEPT ![api.record].state = "waiting"] ELSE records
    /\ Goto("announce")
    /\ UNCHANGED <<object, rows, jobs, notices, worker, used>>

Announce ==
    /\ api.step = "announce"
    /\ jobs' = [jobs EXCEPT ![api.job] = [status |-> "queued", queued |-> TRUE]]
    /\ Answer
    /\ UNCHANGED <<object, rows, records, notices, worker, used>>

\* An upload has no status to put back, a regeneration puts the old one back, a decision
\* leaves the policy failed; where the version has moved on the handler throws before it
\* fails the job.
EnqueueFails ==
    LET p == Of(api.job)
        restores == api.before # "none"
        conflict == restores /\ ~Current(p, api.version)
    IN  /\ api.step = "enqueue"
        /\ Spend("faults", MaxFaults)
        /\ IF restores /\ ~conflict THEN UpdateStatus(p, api.before) ELSE UNCHANGED policy
        /\ IF conflict THEN UNCHANGED jobs ELSE SetJob(api.job, "failed")
        /\ Answer
        /\ UNCHANGED <<object, proposal, rules, approved, records, notices, worker>>

-----------------------------------------------------------------------------
(* Settling the collection *)

\* decideCollection up to fileCollection, which asks for the status and the version read.
DecideCollection(p) ==
    /\ api.step = "idle"
    /\ Spend("requests", MaxRequests)
    /\ policy[p].status = "awaiting_collection"
    /\ File(p, "processing", "decided")
    /\ api' = [step |-> "resume", job |-> <<p, "upload">>, version |-> policy[p].version + 1]
    /\ UNCHANGED <<object, proposal, rules, approved, jobs, records, notices, worker>>

Paused(p) == {j \in Jobs : Of(j) = p /\ jobs[j].status = "paused"}

\* resumePolicyJob: the job that paused, or a new one.
ResumePolicyJob ==
    LET p == Of(api.job) IN
    /\ api.step = "resume"
    /\ \E j \in IF Paused(p) # {} THEN Paused(p) ELSE {<<p, "decision">>} :
          /\ api' = [step |-> "enqueue", job |-> j, record |-> <<j, "filed">>,
                     before |-> "failed", version |-> api.version]
          /\ jobs' = IF jobs[j].status = "none" THEN [jobs EXCEPT ![j].status = "queued"] ELSE jobs
    /\ UNCHANGED <<object, rows, records, notices, worker, used>>

ApiDies ==
    /\ api.step # "idle"
    /\ Spend("faults", MaxFaults)
    /\ Answer
    /\ UNCHANGED <<object, rows, jobs, records, notices, worker>>

-----------------------------------------------------------------------------
(* Reviewing and activating, one transaction each *)

Reviewed(p, status) ==
    /\ proposal' = [proposal EXCEPT ![p].status = status]
    /\ policy' = IF status = "approved" /\ policy[p].status = "under_review"
                 THEN [policy EXCEPT ![p].status = "approved", ![p].version = @ + 1]
                 ELSE policy

\* An invalid proposal can only be rejected.
ReviewProposal(p, status) ==
    /\ api.step = "idle"
    /\ Spend("requests", MaxRequests)
    /\ proposal[p].status = "proposed" \/ (proposal[p].status = "invalid" /\ status = "rejected")
    /\ Reviewed(p, status)
    /\ approved' = IF status = "approved" THEN approved \union {<<p, proposal[p].draft>>}
                                          ELSE approved
    /\ UNCHANGED <<object, rules, jobs, records, notices, api, worker>>

\* Every other policy of the pack loses its rules; the rule rows keep what was approved.  An
\* active policy is superseded by one of its title only, and titles differ here.
Activated(p) ==
    [q \in Policies |->
        IF q = p THEN [status |-> "active", draft |-> proposal[p].draft]
        ELSE IF rules[q].status = "active" THEN [rules[q] EXCEPT !.status = "superseded"]
        ELSE rules[q]]

\* A policy that already has rule rows cannot insert them again.
Activate(p) ==
    /\ api.step = "idle"
    /\ Spend("requests", MaxRequests)
    /\ policy[p].status = "approved"
    /\ proposal[p].status = "approved"
    /\ policy[p].filed # "no"
    /\ rules[p].status = "none"
    /\ rules' = Activated(p)
    /\ proposal' = [proposal EXCEPT ![p].status = "activated"]
    /\ UpdateStatus(p, "active")
    /\ UNCHANGED <<object, approved, jobs, records, notices, api, worker>>

-----------------------------------------------------------------------------
(* Cancelling and retrying a job (the case API serves every job; CaseJobs has the steps) *)

CancelJob(r) ==
    /\ api.step = "idle"
    /\ Spend("requests", MaxRequests)
    /\ jobs[r[1]].status = "queued"
    /\ records[r].state = "waiting"
    /\ records' = [records EXCEPT ![r] = Removed]
    /\ SetJob(r[1], "cancelled")
    /\ UNCHANGED <<object, rows, notices, api, worker>>

\* Whether the policy still wants this job is not asked.
RetryJob(r) ==
    /\ api.step = "idle"
    /\ Spend("requests", MaxRequests)
    /\ jobs[r[1]].status = "failed"
    /\ records[r].state = "failed"
    /\ records' = [records EXCEPT ![r].state = "waiting"]
    /\ SetJob(r[1], "queued")
    /\ UNCHANGED <<object, rows, notices, api, worker>>

-----------------------------------------------------------------------------
(* The worker.  Every provider call may end the attempt. *)

At(w, step) == worker[w].step = step
Key(w) == Of(worker[w].record[1])
Step(w, step) == worker' = [worker EXCEPT ![w].step = step]
Hold(w, step) == worker' = [worker EXCEPT ![w].step = step, ![w].version = policy[Key(w)].version + 1]
Take(w) == worker' = [worker EXCEPT ![w].step = "taken", ![w].version = policy[Key(w)].version + 1,
                                    ![w].filed = policy[Key(w)].filed]
Job(w) == worker[w].record[1]

Claim(w, r) ==
    /\ At(w, "idle")
    /\ records[r].state = "waiting"
    /\ records' = [records EXCEPT ![r].state = "active", ![r].owner = w]
    /\ worker' = [worker EXCEPT ![w] = [step |-> "claimed", record |-> r, version |-> 0, filed |-> "no"]]
    /\ UNCHANGED <<object, rows, jobs, notices, api, used>>

Start(w) ==
    /\ At(w, "claimed")
    /\ SetJob(Job(w), "processing")
    /\ worker' = [worker EXCEPT ![w].step = "started", ![w].version = policy[Key(w)].version]
    /\ UNCHANGED <<object, rows, records, notices, api, used>>

\* Whatever its status was: the policy is processing, or the version has moved on.
TakePolicy(w) ==
    /\ At(w, "started")
    /\ IF Current(Key(w), worker[w].version)
       THEN UpdateStatus(Key(w), "processing") /\ Take(w)
       ELSE UNCHANGED policy /\ Step(w, "error")
    /\ UNCHANGED <<object, proposal, rules, approved, jobs, records, notices, api, used>>

\* The text is read.  A policy without a collection is classified: filed, or left to a person.
FileUnfiledPolicy(w) ==
    LET p == Key(w) IN
    /\ At(w, "taken")
    /\ IF worker[w].filed # "no"
       THEN UNCHANGED policy /\ Step(w, "filed")
       ELSE IF ~Current(p, worker[w].version)
       THEN UNCHANGED policy /\ Step(w, "error")
       ELSE \/ File(p, "processing", "classified") /\ Hold(w, "filed")
            \/ UpdateStatus(p, "awaiting_collection") /\ Hold(w, "pause")
    /\ UNCHANGED <<object, proposal, rules, approved, jobs, records, notices, api, used>>

PauseJob(w) ==
    /\ At(w, "pause")
    /\ SetJob(Job(w), "paused")
    /\ Step(w, "done")
    /\ UNCHANGED <<object, rows, records, notices, api, used>>

\* A proposal that a rule refers to cannot be deleted.
Replaceable(p) == rules[p].status = "none"

\* replaceExtractedContent deletes the proposals with the chunks they cite.
ReplaceExtractedContent(w) ==
    LET p == Key(w) IN
    /\ At(w, "filed")
    /\ IF Replaceable(p)
       THEN /\ proposal' = [proposal EXCEPT ![p].status = "none"]
            /\ policy' = [policy EXCEPT ![p].version = @ + 1]
            /\ Step(w, "chunked")
       ELSE UNCHANGED <<proposal, policy>> /\ Step(w, "error")
    /\ UNCHANGED <<object, rules, approved, jobs, records, notices, api, used>>

\* Mutant: an upsert that keeps the status of the row it replaces.
UpsertKeeping(p, status) ==
    [status |-> IF proposal[p].status = "none" THEN status ELSE proposal[p].status,
     draft |-> used.drafts + 1]

\* on conflict (id) do update set status = excluded.status, ...
Upsert(p, status) == [status |-> status, draft |-> used.drafts + 1]

\* generatePolicyProposals and saveProposal; the model may find nothing to propose.
SaveProposals(w) ==
    LET p == Key(w) IN
    /\ At(w, "chunked")
    /\ \/ /\ Spend("drafts", MaxDrafts)
          /\ \E status \in {"proposed", "invalid"} :
                proposal' = [proposal EXCEPT ![p] = Upsert(p, status)]
       \/ UNCHANGED <<proposal, used>>
    /\ Step(w, "proposed")
    /\ UNCHANGED <<object, policy, rules, approved, jobs, records, notices, api>>

\* The version is read again, so the status is written over whatever came between.
OpenReview(w) ==
    /\ At(w, "proposed")
    /\ UpdateStatus(Key(w), "under_review")
    /\ Step(w, "reviewable")
    /\ UNCHANGED <<object, proposal, rules, approved, jobs, records, notices, api, used>>

CompleteJob(w) ==
    /\ At(w, "reviewable")
    /\ SetJob(Job(w), "completed")
    /\ Step(w, "done")
    /\ UNCHANGED <<object, rows, records, notices, api, used>>

\* A call of a provider or of the database fails.
CallFails(w) ==
    /\ worker[w].step \in {"started", "taken", "filed", "chunked", "proposed", "reviewable", "pause"}
    /\ Spend("faults", MaxFaults)
    /\ Step(w, "error")
    /\ UNCHANGED <<object, rows, jobs, records, notices, api>>

\* The catch block fails the policy unless it is governed, and then the job.
FailPolicy(w) ==
    /\ At(w, "error")
    /\ IF policy[Key(w)].status \in {"active", "superseded", "revoked"}
       THEN UNCHANGED policy
       ELSE UpdateStatus(Key(w), "failed")
    /\ SetJob(Job(w), "failed")
    /\ Step(w, "thrown")
    /\ UNCHANGED <<object, proposal, rules, approved, records, notices, api, used>>

-----------------------------------------------------------------------------
(* BullMQ *)

Exhausted(made) == made >= MaxAttempts
Holds(w) == records[worker[w].record].state = "active" /\ records[worker[w].record].owner = w
Leave(w) == worker' = [worker EXCEPT ![w] = NoWork]

Finish(w) ==
    /\ At(w, "done")
    /\ records' = IF Holds(w) THEN [records EXCEPT ![worker[w].record] = Absent] ELSE records
    /\ Leave(w)
    /\ UNCHANGED <<object, rows, jobs, notices, api, used>>

FailAttempt(w) ==
    LET r == worker[w].record
        made == records[r].made + 1
    IN  /\ At(w, "thrown")
        /\ IF Holds(w)
           THEN /\ records' = [records EXCEPT ![r] =
                        [@ EXCEPT !.state = IF Exhausted(made) THEN "failed" ELSE "waiting",
                                  !.owner = Nobody, !.made = made]]
                /\ notices' = IF Exhausted(made) THEN notices ELSE notices \union {r[1]}
           ELSE UNCHANGED <<records, notices>>
        /\ Leave(w)
        /\ UNCHANGED <<object, rows, jobs, api, used>>

NoteRetry(j) ==
    /\ j \in notices
    /\ notices' = notices \ {j}
    /\ SetJob(j, "queued")
    /\ UNCHANGED <<object, rows, records, api, worker, used>>

WorkerDies(w) ==
    /\ ~At(w, "idle")
    /\ Spend("faults", MaxFaults)
    /\ Leave(w)
    /\ UNCHANGED <<object, rows, jobs, records, notices, api>>

Executing(w, r) == ~At(w, "idle") /\ worker[w].record = r

\* The lock of a dead worker runs out, or, once, that of a worker that is too slow; a second
\* time the record fails, and its failed event is the one of an attempt that is not the last.
Requeue(r) ==
    /\ records[r].state = "active"
    /\ records' = [records EXCEPT ![r] =
            [@ EXCEPT !.state = IF records[r].stalled THEN "failed" ELSE "waiting",
                      !.owner = Nobody, !.stalled = TRUE]]
    /\ notices' = IF records[r].stalled /\ ~Exhausted(records[r].made)
                  THEN notices \union {r[1]} ELSE notices
    /\ UNCHANGED <<object, rows, jobs, api, worker>>

\* Mutant: nobody looks for stalled records.
RecoverNothing(r) == FALSE

RecoverStalled(r) ==
    records[r].state = "active" /\ ~Executing(records[r].owner, r) /\ Requeue(r) /\ UNCHANGED used

LoseLock(r) ==
    /\ records[r].state = "active" /\ Executing(records[r].owner, r)
    /\ Requeue(r)
    /\ Spend("faults", MaxFaults)

-----------------------------------------------------------------------------
Request ==
    \/ PutObject \/ CreatePolicy \/ CreateJob \/ ClaimForReprocess \/ Enqueue \/ Announce
    \/ EnqueueFails \/ ResumePolicyJob

Work(w) ==
    \/ Start(w) \/ TakePolicy(w) \/ FileUnfiledPolicy(w) \/ PauseJob(w)
    \/ ReplaceExtractedContent(w) \/ SaveProposals(w) \/ OpenReview(w) \/ CompleteJob(w)
    \/ FailPolicy(w) \/ Finish(w) \/ FailAttempt(w)

Next ==
    \/ \E p \in Policies :
          \/ \E filed \in {"no", "decided"} : Upload(p, filed)
          \/ Reprocess(p) \/ DecideCollection(p) \/ Activate(p)
          \/ \E status \in {"approved", "rejected"} : ReviewProposal(p, status)
    \/ Request \/ ApiDies
    \/ \E r \in Records : CancelJob(r) \/ RetryJob(r) \/ RecoverStalled(r) \/ LoseLock(r)
    \/ \E w \in Workers, r \in Records : Claim(w, r)
    \/ \E w \in Workers : Work(w) \/ CallFails(w) \/ WorkerDies(w)
    \/ \E j \in Jobs : NoteRetry(j)

Spec == Init /\ [][Next]_vars

\* Handlers run to their end, a running worker takes what waits, BullMQ looks for stalled
\* records.  Nothing is assumed of the administrator or of faults.
Fairness ==
    /\ WF_vars(Request)
    /\ \A w \in Workers : WF_vars(Work(w))
    /\ WF_vars(\E w \in Workers, r \in Records : Claim(w, r))
    /\ \A r \in Records : WF_vars(RecoverStalled(r))
    /\ \A j \in Jobs : WF_vars(NoteRetry(j))

FairSpec == Spec /\ Fairness

-----------------------------------------------------------------------------
(* Properties. *)

\* Every variable has the shape of the row, record or local state it stands for.
TypeOK ==
    /\ object \subseteq Policies
    /\ policy \in [Policies -> PolicyRow]
    /\ proposal \in [Policies -> ProposalRow]
    /\ rules \in [Policies -> RuleRow]
    /\ approved \subseteq Policies \X (0..MaxDrafts)
    /\ jobs \in [Jobs -> JobRow] /\ notices \subseteq Jobs
    /\ records \in [Records -> QueueRecord]
    /\ \A r \in Records : (records[r].state = "active") <=> (records[r].owner # Nobody)
    /\ api \in Uploading \union Queueing \union Resuming \union {NoRequest}
    /\ worker \in [Workers -> InJob \union {NoWork}]

\* Rules are enforced as a person approved them: no second worker or retried attempt puts
\* other content under an approval between the review and the activation.
RulesWereApproved ==
    \A p \in Policies : rules[p].status = "active" => <<p, rules[p].draft>> \in approved

\* The administrator's choice of a collection is final, and so is a classification: no
\* worker that read the policy before it files it elsewhere.
FiledOnce ==
    [][\A p \in Policies : policy[p].status # "none" /\ policy[p].filed # "no"
            => policy'[p].filed = policy[p].filed]_vars

\* A policy waits for a person only while nobody has filed it, and no write runs into the
\* check that says so (policy_documents_awaiting_unfiled_check of migration 0008).
WaitsUnfiled == \A p \in Policies : policy[p].status = "awaiting_collection" => policy[p].filed = "no"

\* A policy that a worker has taken is settled: it reaches a person or fails, whatever its
\* attempts meet, unless its record was removed by a cancellation or failed by BullMQ for
\* two lost locks, which no handler tells the policy of.
TakenIsSettled ==
    \A w \in Workers, p \in Policies :
        (At(w, "taken") /\ Key(w) = p)
            ~> \/ policy[p].status # "processing"
               \/ \E r \in Records :
                     /\ Of(r[1]) = p
                     /\ records[r].state = "removed" \/ (records[r].state = "failed" /\ records[r].stalled)

\* Policy, proposals, rules and jobs fit each other, whoever of the worker and the
\* administrators moved first.
PoliciesAreSound == TypeOK /\ RulesWereApproved /\ WaitsUnfiled
=============================================================================
