---------------------------- MODULE PolicyProofs ----------------------------
(***************************************************************************)
(* Proofs about PolicyLifecycle for any number of policies, workers,       *)
(* attempts, drafts, requests and faults, and about PolicyStages for any   *)
(* document, collections, model answers, drafts, candidates and pack.      *)
(***************************************************************************)
EXTENDS PolicyLifecycle, PolicyStages, ListLemmas, TLAPS

\* Each part speaks of few variables; together they are the inductive invariant.  The rows:
RowsOK ==
    /\ policy \in [Policies -> PolicyRow]
    /\ proposal \in [Policies -> ProposalRow]
    /\ rules \in [Policies -> RuleRow]
    /\ approved \subseteq Policies \X (0..MaxDrafts)
    /\ WaitsUnfiled
    /\ RulesWereApproved
    /\ \A p \in Policies : proposal[p].status = "approved" => <<p, proposal[p].draft>> \in approved

\* An attempt beyond the allowed ones was asked for by a person.
AttemptsOK(r) ==
    LET last == MaxAttempts + used.requests IN
    /\ records[r].made <= last
    /\ records[r].state \in {"waiting", "active"} => records[r].made < last
    /\ records[r].state \in {"absent", "removed"} => records[r].made = 0

QueueOK ==
    /\ jobs \in [Jobs -> JobRow]
    /\ notices \subseteq Jobs
    /\ used \in [drafts : 0..MaxDrafts, requests : 0..MaxRequests, faults : 0..MaxFaults]
    /\ records \in [Records -> QueueRecord]
    /\ \A r \in Records :
          /\ (records[r].state = "active") <=> (records[r].owner # Nobody)
          /\ AttemptsOK(r)

Subject(r) == Of(r[1])
Exists(p) == policy[p].status # "none"

\* Nothing is queued for a policy that has no row.
RecordsOK ==
    \A r \in Records : records[r].state \notin {"absent", "removed"} => Exists(Subject(r))

\* Past the filing, the policy has a collection; before it, the worker knows whether it has.
WorkerOK(w) ==
    LET row == policy[Key(w)] IN
    worker[w].step # "idle" =>
        /\ Exists(Key(w))
        /\ worker[w].step \in {"filed", "chunked", "proposed", "reviewable"} => row.filed # "no"
        /\ worker[w].step = "taken" =>
              /\ worker[w].version <= row.version
              /\ worker[w].version = row.version => worker[w].filed = row.filed
              /\ worker[w].filed # "no" => row.filed # "no"

WorkersOK ==
    /\ worker \in [Workers -> InJob \union {NoWork}]
    /\ \A w \in Workers : WorkerOK(w)

\* The status a request may put back fits the policy as long as its version is the one read.
RequestFits ==
    LET row == policy[Of(api.job)] IN
    /\ api.step \in {"put", "create"} => ~Exists(Of(api.job))
    /\ api.step \in {"job", "claim", "enqueue", "announce", "resume"} => Exists(Of(api.job))
    /\ api.step \in {"claim", "enqueue", "announce"} =>
          /\ Subject(api.record) = Of(api.job)
          /\ api.version <= row.version
          /\ api.before \in {"under_review", "approved"} => row.filed # "no"
          /\ api.before = "awaiting_collection" /\ api.version = row.version => row.filed = "no"
    /\ api.step = "resume" => api.version <= row.version

RequestOK ==
    /\ api \in Uploading \union Queueing \union Resuming \union {NoRequest}
    /\ RequestFits

IInv == object \subseteq Policies /\ RowsOK /\ QueueOK /\ RecordsOK /\ WorkersOK /\ RequestOK

LEMMA SubjectsTyped ==
    /\ \A j \in Jobs : Of(j) \in Policies
    /\ \A r \in Records : r[1] \in Jobs /\ Subject(r) \in Policies
    /\ \A j \in Jobs : /\ <<j, "first">> \in Records /\ <<j, "filed">> \in Records
                       /\ Subject(<<j, "first">>) = Of(j) /\ Subject(<<j, "filed">>) = Of(j)
    /\ \A p \in Policies : \A k \in {"upload", "reprocess", "decision"} :
          <<p, k>> \in Jobs /\ Of(<<p, k>>) = p
BY DEF Jobs, Records, Of, Subject

LEMMA IInvSound == ASSUME IInv PROVE PoliciesAreSound
BY DEF IInv, RowsOK, QueueOK, WorkersOK, RequestOK, PoliciesAreSound, TypeOK, QueueRecord

-----------------------------------------------------------------------------
(* Policies. *)

\* What every step but the creation of a policy does to the policies.
PolicyMoves ==
    \A p \in Policies :
        /\ Exists(p)' <=> Exists(p)
        /\ policy[p].version \in Nat /\ policy'[p].version \in Nat
        /\ policy[p].version <= policy'[p].version
        /\ policy[p].filed # "no" => policy'[p].filed = policy[p].filed
        /\ policy'[p].version = policy[p].version => policy'[p].filed = policy[p].filed

PolicyRowsOK == policy \in [Policies -> PolicyRow] /\ WaitsUnfiled

LEMMA PoliciesRest == ASSUME RowsOK, UNCHANGED policy PROVE PolicyMoves /\ PolicyRowsOK'
BY DEF RowsOK, PolicyMoves, PolicyRowsOK, PolicyRow, Exists, WaitsUnfiled

\* A row is replaced by its next version.
LEMMA NextRow ==
    ASSUME RowsOK, NEW p \in Policies, Exists(p), NEW x \in PolicyRow,
           x.status # "none", x.version = policy[p].version + 1,
           policy[p].filed # "no" => x.filed = policy[p].filed,
           x.status = "awaiting_collection" => x.filed = "no",
           policy' = [policy EXCEPT ![p] = x]
    PROVE  PolicyMoves /\ PolicyRowsOK' /\ policy'[p] = x
<1>1. \A q \in Policies : policy[q] \in PolicyRow /\ policy[q].version \in Nat
  BY DEF RowsOK, PolicyRow
<1>2. x.version \in Nat
  BY <1>1
<1>3. policy'[p] = x /\ \A q \in Policies : q # p => policy'[q] = policy[q]
  BY DEF RowsOK
<1>4. PolicyMoves
  <2>1. ASSUME NEW q \in Policies, q # p PROVE policy'[q] = policy[q] /\ policy[q].version \in Nat
    BY <1>1, <1>3, <2>1
  <2>2. policy[p].version \in Nat /\ policy'[p].version = policy[p].version + 1
    BY <1>1, <1>3
  <2> QED  BY <1>3, <2>1, <2>2 DEF PolicyMoves, Exists
<1>5. PolicyRowsOK'
  BY <1>1, <1>3 DEF RowsOK, PolicyRowsOK, WaitsUnfiled
<1> QED  BY <1>3, <1>4, <1>5

Reviewable == {"under_review", "approved", "active"}

LEMMA StatusUpdated ==
    ASSUME RowsOK, NEW p \in Policies, Exists(p),
           NEW status \in (Unfiled \ {"none"}) \union Reviewable,
           status \in Reviewable => policy[p].filed # "no",
           status = "awaiting_collection" => policy[p].filed = "no",
           UpdateStatus(p, status)
    PROVE  /\ PolicyMoves /\ PolicyRowsOK'
           /\ policy'[p].version = policy[p].version + 1
           /\ policy'[p].filed = policy[p].filed
<1> DEFINE x == [policy[p] EXCEPT !.status = status, !.version = @ + 1]
<1>1. policy[p] \in PolicyRow
  BY DEF RowsOK
<1>2. policy[p].version \in Nat /\ policy[p].filed \in Filings
  BY <1>1 DEF PolicyRow
<1>3. x.status = status /\ x.version = policy[p].version + 1 /\ x.filed = policy[p].filed
          /\ x.status # "none"
  BY <1>1 DEF PolicyRow, Unfiled, Reviewable
<1>4. x \in PolicyRow
  <2> DEFINE Rows == [status : Unfiled \union Reviewable, version : Nat, filed : Filings]
  <2>1. policy[p] \in Rows
    BY <1>1 DEF PolicyRow, Reviewable
  <2>2. x \in Rows
    <3>1. policy[p].version + 1 \in Nat
      BY <1>2
    <3> QED  BY <2>1, <3>1
  <2>3. \A y \in Rows : (y.status \in Reviewable => y.filed # "no") => y \in PolicyRow
    BY DEF PolicyRow, Reviewable
  <2>4. x.status \in Reviewable => x.filed # "no"
    BY <1>3
  <2> HIDE DEF x
  <2> QED  BY <2>2, <2>3, <2>4
<1>5. policy' = [policy EXCEPT ![p] = x]
  BY DEF UpdateStatus, RowsOK
<1> HIDE DEF x
<1> QED  BY <1>3, <1>4, <1>5, NextRow

LEMMA PolicyFiled ==
    ASSUME RowsOK, NEW p \in Policies, Exists(p), policy[p].filed = "no",
           NEW filed \in Filings, File(p, "processing", filed)
    PROVE  /\ PolicyMoves /\ PolicyRowsOK'
           /\ policy'[p].version = policy[p].version + 1
           /\ policy'[p].filed = filed
<1> DEFINE x == [status |-> "processing", version |-> policy[p].version + 1, filed |-> filed]
<1>1. policy[p].version \in Nat
  BY DEF RowsOK, PolicyRow
<1>2. x \in PolicyRow
  BY <1>1 DEF PolicyRow, Unfiled
<1>3. policy' = [policy EXCEPT ![p] = x]
  BY DEF File, RowsOK
<1>4. x.status = "processing" /\ x.version = policy[p].version + 1 /\ x.filed = filed
  OBVIOUS
<1> HIDE DEF x
<1> QED  BY <1>2, <1>3, <1>4, NextRow

LEMMA VersionBumped ==
    ASSUME RowsOK, NEW p \in Policies, Exists(p), policy' = [policy EXCEPT ![p].version = @ + 1]
    PROVE  PolicyMoves /\ PolicyRowsOK' /\ policy'[p].filed = policy[p].filed
<1> DEFINE x == [policy[p] EXCEPT !.version = @ + 1]
<1>1. policy[p] \in PolicyRow
  BY DEF RowsOK
<1>2. /\ x \in PolicyRow /\ x.status = policy[p].status /\ x.filed = policy[p].filed
      /\ x.version = policy[p].version + 1
  BY <1>1 DEF PolicyRow
<1>3. policy' = [policy EXCEPT ![p] = x]
  BY DEF RowsOK
<1>4. x.status # "none" /\ (x.status = "awaiting_collection" => x.filed = "no")
  BY <1>2 DEF Exists, RowsOK, WaitsUnfiled
<1> HIDE DEF x
<1> QED  BY <1>2, <1>3, <1>4, NextRow
-----------------------------------------------------------------------------
(* The queue. *)

\* The bounds are kept, and requests are only added.
UsedMoves ==
    /\ used' \in [drafts : 0..MaxDrafts, requests : 0..MaxRequests, faults : 0..MaxFaults]
    /\ used.requests \in Nat /\ used'.requests \in Nat
    /\ used.requests <= used'.requests

LEMMA BoundsTyped == MaxAttempts \in Nat \ {0} /\ MaxDrafts \in Nat /\ MaxRequests \in Nat /\ MaxFaults \in Nat
BY PolicyAssumption DEF PolicyAssumption

LEMMA UsedRests == ASSUME QueueOK, UNCHANGED used PROVE UsedMoves
BY BoundsTyped DEF QueueOK, UsedMoves

LEMMA Spent ==
    ASSUME QueueOK, \/ Spend("drafts", MaxDrafts) \/ Spend("requests", MaxRequests)
                    \/ Spend("faults", MaxFaults)
    PROVE  UsedMoves
BY BoundsTyped DEF QueueOK, UsedMoves, Spend

LEMMA JobSet ==
    ASSUME QueueOK, NEW j,
           NEW status \in {"queued", "processing", "paused", "completed", "failed", "cancelled"},
           SetJob(j, status)
    PROVE  jobs' \in [Jobs -> JobRow]
BY DEF QueueOK, SetJob, JobRow

LEMMA RecordsRest ==
    ASSUME QueueOK, UsedMoves, UNCHANGED records, jobs' \in [Jobs -> JobRow], notices' \subseteq Jobs
    PROVE  QueueOK'
<1>1. \A r \in Records : records[r].made \in Nat
  BY BoundsTyped DEF QueueOK, QueueRecord
<1> QED  BY <1>1, BoundsTyped DEF QueueOK, UsedMoves, AttemptsOK

\* One record changes, within its attempts.
LEMMA RecordMoves ==
    ASSUME QueueOK, UsedMoves, jobs' \in [Jobs -> JobRow], notices' \subseteq Jobs,
           NEW r \in Records, NEW x, records' = [records EXCEPT ![r] = x],
           x.state \in {"absent", "removed", "waiting", "active", "failed"},
           x \in [state : {"absent", "removed", "waiting", "active", "failed"},
                  owner : Workers \union {Nobody}, made : Nat, stalled : BOOLEAN],
           (x.state = "active") <=> (x.owner # Nobody),
           x.made <= MaxAttempts + used'.requests,
           x.state \in {"waiting", "active"} => x.made < MaxAttempts + used'.requests,
           x.state \in {"absent", "removed"} => x.made = 0
    PROVE  QueueOK'
<1>1. x \in QueueRecord
  <2>1. used'.requests <= MaxRequests /\ used'.requests \in Nat
    BY BoundsTyped DEF UsedMoves
  <2>2. x.made \in 0..MaxAttempts + MaxRequests
    BY <2>1, BoundsTyped
  <2> QED  BY <2>2 DEF QueueRecord
<1>2. records' \in [Records -> QueueRecord] /\ records'[r] = x
        /\ \A q \in Records : q # r => records'[q] = records[q]
  BY <1>1 DEF QueueOK
<1>3. ASSUME NEW q \in Records
      PROVE  ((records'[q].state = "active") <=> (records'[q].owner # Nobody)) /\ AttemptsOK(q)'
  <2>1. CASE q = r
    BY <1>2, <2>1 DEF AttemptsOK
  <2>2. CASE q # r
    <3>1. records[q].made \in Nat
      BY BoundsTyped DEF QueueOK, QueueRecord
    <3> QED  BY <1>2, <2>2, <3>1, BoundsTyped DEF QueueOK, AttemptsOK, UsedMoves
  <2> QED  BY <2>1, <2>2
<1> QED  BY <1>2, <1>3 DEF QueueOK, UsedMoves

-----------------------------------------------------------------------------
(* Who keeps what while the policies move. *)

LEMMA RecordsKept == ASSUME RecordsOK, PolicyMoves, UNCHANGED records PROVE RecordsOK'
BY SubjectsTyped DEF RecordsOK, PolicyMoves

LEMMA RecordKept ==
    ASSUME RecordsOK, PolicyMoves, QueueOK, NEW r \in Records, NEW x,
           records' = [records EXCEPT ![r] = x],
           x.state \notin {"absent", "removed"} => Exists(Subject(r))
    PROVE  RecordsOK'
<1>1. records'[r] = x /\ \A q \in Records : q # r => records'[q] = records[q]
  BY DEF QueueOK
<1> QED  BY <1>1, SubjectsTyped DEF RecordsOK, PolicyMoves

LEMMA WorkerKey ==
    ASSUME WorkersOK, NEW w \in Workers, worker[w].step # "idle"
    PROVE  /\ worker[w] \in InJob /\ worker[w].record \in Records
           /\ Job(w) \in Jobs /\ Key(w) \in Policies /\ Key(w) = Subject(worker[w].record)
           /\ Exists(Key(w))
<1>1. worker[w] \in InJob
  BY DEF WorkersOK, NoWork
<1> QED  BY <1>1, SubjectsTyped DEF WorkersOK, WorkerOK, InJob, Job, Key, Subject

\* A worker that does nothing keeps what it knows.
LEMMA WorkerKept ==
    ASSUME WorkersOK, PolicyMoves, NEW w \in Workers, worker'[w] = worker[w]
    PROVE  WorkerOK(w)'
<1>1. CASE worker[w].step = "idle"
  BY <1>1 DEF WorkerOK
<1>2. CASE worker[w].step # "idle"
  <2>1. Key(w) \in Policies /\ worker[w].version \in Nat /\ Key(w)' = Key(w)
    BY <1>2, WorkerKey DEF InJob, Key
  <2>2. WorkerOK(w)
    BY DEF WorkersOK
  <2> QED  BY <1>2, <2>1, <2>2 DEF WorkerOK, PolicyMoves
<1> QED  BY <1>1, <1>2

LEMMA WorkersRest == ASSUME WorkersOK, PolicyMoves, UNCHANGED worker PROVE WorkersOK'
BY WorkerKept DEF WorkersOK

LEMMA WorkerMoves ==
    ASSUME WorkersOK, PolicyMoves, NEW w \in Workers, NEW x \in InJob \union {NoWork},
           worker' = [worker EXCEPT ![w] = x], WorkerOK(w)'
    PROVE  WorkersOK'
<1>1. \A v \in Workers : v # w => worker'[v] = worker[v]
  BY DEF WorkersOK
<1> QED  BY <1>1, WorkerKept DEF WorkersOK

LEMMA RequestForm ==
    ASSUME RequestOK
    PROVE  /\ api.step \in {"put", "create", "job"} => api \in Uploading
           /\ api.step \in {"claim", "enqueue", "announce"} => api \in Queueing
           /\ api.step = "resume" => api \in Resuming
           /\ api.step \in {"put", "create", "job", "claim", "enqueue", "announce", "resume", "idle"}
BY DEF RequestOK, Uploading, Queueing, Resuming, NoRequest

LEMMA RequestJob ==
    ASSUME RequestOK, api.step # "idle"
    PROVE  api.job \in Jobs /\ Of(api.job) \in Policies
BY RequestForm, SubjectsTyped DEF Uploading, Queueing, Resuming, Jobs

LEMMA RequestRests == ASSUME RequestOK, PolicyMoves, UNCHANGED api PROVE RequestOK'
<1>1. CASE api.step = "idle"
  BY <1>1 DEF RequestOK, RequestFits
<1>2. CASE api.step # "idle"
  <2>1. Of(api.job) \in Policies
    BY <1>2, RequestJob
  <2>2. api.step \in {"claim", "enqueue", "announce", "resume"} => api.version \in Nat
    BY RequestForm DEF Queueing, Resuming
  <2> QED  BY <2>1, <2>2 DEF RequestOK, RequestFits, PolicyMoves
<1> QED  BY <1>1, <1>2

LEMMA Answered == ASSUME Answer PROVE RequestOK'
BY DEF Answer, NoRequest, RequestOK, RequestFits

\* A job on its way into the queue.
LEMMA Queued ==
    ASSUME NEW p \in Policies, api' \in Queueing, Of(api'.job) = p, Subject(api'.record) = p,
           policy'[p].status # "none", api'.version <= policy'[p].version,
           api'.before \in {"under_review", "approved"} => policy'[p].filed # "no",
           api'.before = "awaiting_collection" /\ api'.version = policy'[p].version
               => policy'[p].filed = "no"
    PROVE  RequestOK'
<1>1. api'.step \in {"claim", "enqueue", "announce"}
  BY DEF Queueing
<1>2. policy'[Of(api'.job)] = policy'[p]
  OBVIOUS
<1> QED  BY <1>1, <1>2 DEF RequestOK, RequestFits, Exists
-----------------------------------------------------------------------------
(* Requests. *)

LEMMA RowsKept ==
    ASSUME RowsOK, PolicyRowsOK', UNCHANGED <<proposal, rules, approved>>
    PROVE  RowsOK'
BY DEF RowsOK, PolicyRowsOK, RulesWereApproved

LEMMA JobsRest == ASSUME QueueOK, UNCHANGED jobs PROVE jobs' \in [Jobs -> JobRow]
BY DEF QueueOK

\* A request that leaves the queue's records and the policies alone.
LEMMA RequestKeepsIInv ==
    ASSUME IInv, UNCHANGED <<rows, records, notices, worker>>, object' \subseteq Policies,
           UsedMoves, jobs' \in [Jobs -> JobRow], RequestOK'
    PROVE  IInv'
<1>1. PolicyMoves /\ PolicyRowsOK'
  BY PoliciesRest DEF IInv, rows
<1>2. notices' \subseteq Jobs
  BY DEF IInv, QueueOK
<1> QED  BY <1>1, <1>2, RowsKept, RecordsRest, RecordsKept, WorkersRest DEF IInv, rows

\* A request that moves a policy.
LEMMA PolicyRequestKeepsIInv ==
    ASSUME IInv, PolicyMoves, PolicyRowsOK',
           UNCHANGED <<object, proposal, rules, approved, records, notices, worker>>,
           UsedMoves, jobs' \in [Jobs -> JobRow], RequestOK'
    PROVE  IInv'
<1>1. notices' \subseteq Jobs
  BY DEF IInv, QueueOK
<1> QED  BY <1>1, RowsKept, RecordsRest, RecordsKept, WorkersRest DEF IInv

LEMMA UploadKeepsIInv ==
    ASSUME IInv, NEW p \in Policies, NEW filed \in {"no", "decided"}, Upload(p, filed)
    PROVE  IInv'
<1>1. api' \in Uploading /\ api'.step = "put" /\ Of(api'.job) = p
  BY SubjectsTyped DEF Upload, Uploading
<1>2. RequestOK'
  BY <1>1 DEF Upload, rows, RequestOK, RequestFits, Exists
<1> QED  BY <1>2, Spent, JobsRest, RequestKeepsIInv DEF Upload, IInv

LEMMA PutKeepsIInv == ASSUME IInv, PutObject PROVE IInv'
<1>1. api \in Uploading /\ api.step = "put" /\ Of(api.job) \in Policies /\ RequestFits
  BY RequestForm, RequestJob DEF IInv, PutObject, RequestOK
<1>2. RequestOK'
  <2>1. CASE Answer
    BY <2>1, Answered
  <2>2. CASE Goto("create")
    <3>1. api' \in Uploading /\ api'.step = "create" /\ api'.job = api.job
      BY <1>1, <2>2 DEF Goto, Uploading
    <3> QED  BY <1>1, <3>1 DEF PutObject, rows, RequestOK, RequestFits, Exists
  <2> QED  BY <2>1, <2>2 DEF PutObject
<1>3. object' \subseteq Policies
  BY <1>1 DEF PutObject, IInv
<1> QED  BY <1>2, <1>3, UsedRests, JobsRest, RequestKeepsIInv DEF PutObject, IInv

\* Nothing is queued, held or asked for a policy before it has a row.
LEMMA CreateKeepsIInv == ASSUME IInv, CreatePolicy PROVE IInv'
<1> DEFINE p == Of(api.job)
           x == [status |-> "uploaded", version |-> 1, filed |-> api.filed]
<1>1. api \in Uploading /\ api.step = "create" /\ p \in Policies /\ ~Exists(p)
  BY RequestForm, RequestJob DEF IInv, CreatePolicy, RequestOK, RequestFits
<1>2. x \in PolicyRow
  BY <1>1 DEF Uploading, PolicyRow, Unfiled, Filings
<1>3. policy' = [policy EXCEPT ![p] = x]
  BY DEF CreatePolicy
<1>4. policy'[p] = x /\ \A q \in Policies : q # p => policy'[q] = policy[q]
  BY <1>1, <1>3 DEF IInv, RowsOK
<1>5. PolicyRowsOK'
  BY <1>2, <1>3, <1>4 DEF IInv, RowsOK, PolicyRowsOK, WaitsUnfiled
<1>6. RecordsOK'
  BY <1>1, <1>4, SubjectsTyped DEF CreatePolicy, IInv, RecordsOK, Exists
<1>7. WorkersOK'
  <2>1. ASSUME NEW w \in Workers, worker[w].step # "idle"
        PROVE  WorkerOK(w)'
    <3>1. Key(w) \in Policies /\ Exists(Key(w)) /\ WorkerOK(w)
      BY <2>1, WorkerKey DEF IInv, WorkersOK
    <3>2. policy'[Key(w)] = policy[Key(w)] /\ Key(w)' = Key(w)
      BY <1>1, <1>4, <3>1 DEF CreatePolicy, Key
    <3> QED  BY <2>1, <3>1, <3>2 DEF CreatePolicy, WorkerOK, Exists
  <2>2. ASSUME NEW w \in Workers, worker[w].step = "idle"
        PROVE  WorkerOK(w)'
    BY <2>2 DEF CreatePolicy, WorkerOK
  <2> QED  BY <2>1, <2>2 DEF CreatePolicy, IInv, WorkersOK
<1>8. RequestOK'
  <2>1. api' \in Uploading /\ api'.step = "job" /\ api'.job = api.job
    BY <1>1 DEF CreatePolicy, Goto, Uploading
  <2> QED  BY <1>4, <2>1 DEF RequestOK, RequestFits, Exists
<1>9. QueueOK'
  BY UsedRests, JobsRest, RecordsRest DEF CreatePolicy, IInv, QueueOK
<1>10. RowsOK'
  BY <1>5, RowsKept DEF CreatePolicy, IInv
<1> QED  BY <1>6, <1>7, <1>8, <1>9, <1>10 DEF CreatePolicy, IInv

LEMMA CreateJobKeepsIInv == ASSUME IInv, CreateJob PROVE IInv'
<1>1. api.step = "job" /\ api.job \in Jobs /\ Of(api.job) \in Policies /\ Exists(Of(api.job))
  BY RequestJob DEF IInv, CreateJob, RequestOK, RequestFits
<1>2. policy[Of(api.job)].version \in Nat
  BY <1>1 DEF IInv, RowsOK, PolicyRow
<1>3. api' = [step |-> "enqueue", job |-> api.job, record |-> <<api.job, "first">>,
              before |-> "none", version |-> policy[Of(api.job)].version]
  BY DEF CreateJob
<1>4. api' \in Queueing
  BY <1>1, <1>2, <1>3, SubjectsTyped DEF Queueing, Unfiled
<1>5. RequestOK'
  <2>1. /\ api'.job = api.job /\ api'.record = <<api.job, "first">> /\ api'.before = "none"
        /\ api'.version = policy[Of(api.job)].version
    BY <1>3
  <2>2. policy' = policy
    BY DEF CreateJob, rows
  <2>3. PICK p \in Policies : p = Of(api.job)
    BY <1>1
  <2>4. Subject(api'.record) = p
    BY <1>1, <2>1, <2>3, SubjectsTyped
  <2>5. policy'[p].status # "none" /\ api'.version = policy'[p].version /\ policy'[p].version \in Nat
    BY <1>1, <1>2, <2>1, <2>2, <2>3 DEF Exists
  <2>6. api'.version <= policy'[p].version
    BY <2>5
  <2> QED  BY <1>4, <2>1, <2>3, <2>4, <2>5, <2>6, Queued
<1>6. jobs' \in [Jobs -> JobRow]
  BY DEF CreateJob, IInv, QueueOK, JobRow
<1> QED  BY <1>5, <1>6, UsedRests, RequestKeepsIInv DEF CreateJob, IInv

LEMMA ReprocessKeepsIInv ==
    ASSUME IInv, NEW p \in Policies, Reprocess(p)
    PROVE  IInv'
<1> DEFINE j == <<p, "reprocess">>
<1>1. policy[p] \in PolicyRow /\ Exists(p) /\ policy[p].status \notin {"processing", "active"}
  BY DEF Reprocess, Regenerable, IInv, RowsOK, Exists
<1>2. /\ policy[p].version \in Nat
      /\ policy[p].status \in Unfiled \union {"under_review", "approved"}
      /\ policy[p].status \in {"under_review", "approved"} => policy[p].filed # "no"
      /\ policy[p].status = "awaiting_collection" => policy[p].filed = "no"
  BY <1>1 DEF PolicyRow, Unfiled, IInv, RowsOK, WaitsUnfiled
<1>3. api' = [step |-> "claim", job |-> j, record |-> <<j, "first">>,
              before |-> policy[p].status, version |-> policy[p].version]
  BY DEF Reprocess
<1>4. j \in Jobs /\ Of(j) = p /\ <<j, "first">> \in Records /\ Subject(<<j, "first">>) = p
  BY SubjectsTyped
<1>5. api' \in Queueing
  BY <1>2, <1>3, <1>4 DEF Queueing
<1>6. RequestOK'
  BY <1>1, <1>2, <1>3, <1>4, <1>5 DEF Reprocess, rows, RequestOK, RequestFits, Exists
<1> QED  BY <1>6, Spent, JobSet, RequestKeepsIInv DEF Reprocess, IInv

LEMMA ClaimRequestKeepsIInv == ASSUME IInv, ClaimForReprocess PROVE IInv'
<1>0. PICK p \in Policies : p = Of(api.job)
  BY RequestJob DEF IInv, ClaimForReprocess
<1>1. api \in Queueing /\ api.step = "claim" /\ Exists(p) /\ RequestFits
  BY <1>0, RequestForm DEF IInv, ClaimForReprocess, RequestOK, RequestFits
<1>2. CASE Current(p, api.version)
  <2>1. UpdateStatus(p, "processing") /\ api' = [api EXCEPT !.step = "enqueue", !.version = @ + 1]
    BY <1>0, <1>2 DEF ClaimForReprocess
  <2>2. PolicyMoves /\ PolicyRowsOK' /\ policy'[p].version = policy[p].version + 1
          /\ policy'[p].filed = policy[p].filed
    BY <1>1, <2>1, StatusUpdated DEF IInv, Unfiled, Reviewable
  <2>3. api.version \in Nat /\ api.version + 1 \in Nat
    BY <1>1 DEF Queueing
  <2>4. /\ api' \in Queueing /\ api'.step = "enqueue" /\ api'.job = api.job
        /\ api'.record = api.record /\ api'.before = api.before /\ api'.version = api.version + 1
    BY <1>1, <2>1, <2>3 DEF Queueing
  <2>5. policy'[p].status # "none"
    BY <1>1, <2>2 DEF PolicyMoves, Exists
  <2>6. /\ Subject(api.record) = p
        /\ api.before \in {"under_review", "approved"} => policy[p].filed # "no"
        /\ api.before = "awaiting_collection" => policy[p].filed = "no"
    BY <1>0, <1>1, <1>2 DEF RequestFits, Current
  <2>7. RequestOK'
    BY <1>0, <1>2, <2>2, <2>3, <2>4, <2>5, <2>6, Queued DEF Current
  <2> QED
    BY <2>2, <2>7, UsedRests, JobsRest, PolicyRequestKeepsIInv DEF ClaimForReprocess, IInv
<1>3. CASE ~Current(p, api.version)
  <2>1. UNCHANGED policy /\ Answer
    BY <1>0, <1>3 DEF ClaimForReprocess
  <2> QED
    BY <2>1, Answered, PoliciesRest, UsedRests, JobsRest, PolicyRequestKeepsIInv
    DEF ClaimForReprocess, IInv
<1> QED  BY <1>2, <1>3

LEMMA EnqueueKeepsIInv == ASSUME IInv, Enqueue PROVE IInv'
<1>0. PICK p \in Policies : p = Of(api.job)
  BY RequestJob DEF IInv, Enqueue
<1>1. api \in Queueing /\ Exists(p) /\ api.record \in Records /\ Subject(api.record) = p
  BY <1>0, RequestForm DEF IInv, Enqueue, RequestOK, RequestFits, Queueing
<1>2. PolicyMoves /\ PolicyRowsOK' /\ policy' = policy
  BY PoliciesRest DEF IInv, Enqueue, rows
<1>3. RequestOK'
  <2>1. /\ api' \in Queueing /\ api'.job = api.job /\ api'.record = api.record
        /\ api'.before = api.before /\ api'.version = api.version
    BY <1>1 DEF Enqueue, Goto, Queueing
  <2>2. /\ api.version <= policy[p].version
        /\ api.before \in {"under_review", "approved"} => policy[p].filed # "no"
        /\ api.before = "awaiting_collection" /\ api.version = policy[p].version
               => policy[p].filed = "no"
    BY <1>0 DEF Enqueue, IInv, RequestOK, RequestFits
  <2> QED  BY <1>0, <1>1, <1>2, <2>1, <2>2, Queued DEF Exists
<1>4. UsedMoves /\ jobs' \in [Jobs -> JobRow] /\ notices' \subseteq Jobs
  BY UsedRests, JobsRest DEF Enqueue, IInv, QueueOK
<1>5. QueueOK' /\ RecordsOK'
  <2>1. CASE records' = records
    BY <1>2, <1>4, <2>1, RecordsRest, RecordsKept DEF IInv
  <2>2. CASE /\ records[api.record].state \in {"absent", "removed"}
             /\ records' = [records EXCEPT ![api.record].state = "waiting"]
    <3>1. PICK r \in Records : r = api.record
      BY <1>1
    <3> DEFINE x == [records[r] EXCEPT !.state = "waiting"]
    <3>2. /\ records[r] \in QueueRecord /\ records[r].made = 0
          /\ records[r].owner = Nobody
      BY <2>2, <3>1 DEF IInv, QueueOK, AttemptsOK
    <3>3. /\ x.state = "waiting" /\ x.owner = Nobody /\ x.made = 0
          /\ x \in [state : {"absent", "removed", "waiting", "active", "failed"},
                    owner : Workers \union {Nobody}, made : Nat, stalled : BOOLEAN]
      <4>1. records[r] \in [state : {"absent", "removed", "waiting", "active", "failed"},
                    owner : Workers \union {Nobody}, made : Nat, stalled : BOOLEAN]
        BY <3>2 DEF QueueRecord
      <4> QED  BY <3>2, <4>1
    <3>4. records' = [records EXCEPT ![r] = x]
      BY <2>2, <3>1
    <3>5. used'.requests \in Nat
      BY <1>4 DEF UsedMoves
    <3>6. x.made < MaxAttempts + used'.requests /\ x.made <= MaxAttempts + used'.requests
      BY <3>3, <3>5, BoundsTyped
    <3>7. Exists(Subject(r))
      BY <1>1, <3>1
    <3> HIDE DEF x
    <3>8. QueueOK'
      BY <1>4, <3>3, <3>4, <3>6, RecordMoves DEF IInv
    <3>9. RecordsOK'
      BY <1>2, <3>4, <3>7, RecordKept DEF IInv
    <3> QED  BY <3>8, <3>9
  <2> QED  BY <2>1, <2>2 DEF Enqueue
<1> QED  BY <1>2, <1>3, <1>5, RowsKept, WorkersRest DEF Enqueue, IInv, rows

LEMMA AnnounceKeepsIInv == ASSUME IInv, Announce PROVE IInv'
<1>1. jobs' \in [Jobs -> JobRow]
  BY DEF Announce, IInv, QueueOK, JobRow
<1> QED  BY <1>1, Answered, UsedRests, RequestKeepsIInv DEF Announce, IInv

LEMMA EnqueueFailsKeepsIInv == ASSUME IInv, EnqueueFails PROVE IInv'
<1>0. PICK p \in Policies : p = Of(api.job)
  BY RequestJob DEF IInv, EnqueueFails
<1>1. api \in Queueing /\ Exists(p) /\ RequestFits /\ RequestOK'
  BY <1>0, RequestForm, Answered DEF IInv, EnqueueFails, RequestOK, RequestFits
<1>2. UsedMoves /\ jobs' \in [Jobs -> JobRow]
  BY Spent, JobsRest, JobSet DEF EnqueueFails, IInv
<1>3. PolicyMoves /\ PolicyRowsOK'
  <2>1. CASE UNCHANGED policy
    BY <2>1, PoliciesRest DEF IInv
  <2>2. CASE api.before # "none" /\ Current(p, api.version) /\ UpdateStatus(p, api.before)
    <3>1. /\ api.before \in (Unfiled \ {"none"}) \union Reviewable
          /\ api.before \in Reviewable => policy[p].filed # "no"
          /\ api.before = "awaiting_collection" => policy[p].filed = "no"
      BY <1>0, <1>1, <2>2 DEF EnqueueFails, RequestFits, Queueing, Reviewable, Current, Unfiled
    <3> QED  BY <1>1, <2>2, <3>1, StatusUpdated DEF IInv
  <2> QED  BY <1>0, <2>1, <2>2 DEF EnqueueFails
<1> QED  BY <1>1, <1>2, <1>3, PolicyRequestKeepsIInv DEF EnqueueFails

LEMMA DecideCollectionKeepsIInv ==
    ASSUME IInv, NEW p \in Policies, DecideCollection(p)
    PROVE  IInv'
<1>1. policy[p].filed = "no" /\ Exists(p) /\ policy[p].version \in Nat
  BY DEF DecideCollection, IInv, RowsOK, WaitsUnfiled, Exists, PolicyRow
<1>2. PolicyMoves /\ PolicyRowsOK' /\ policy'[p].version = policy[p].version + 1
  BY <1>1, PolicyFiled DEF DecideCollection, IInv, Filings
<1>3. api' = [step |-> "resume", job |-> <<p, "upload">>, version |-> policy[p].version + 1]
  BY DEF DecideCollection
<1>4. api' \in Resuming /\ api'.step = "resume" /\ Of(api'.job) = p
        /\ api'.version = policy[p].version + 1
  <2>1. policy[p].version + 1 \in Nat
    BY <1>1
  <2>2. <<p, "upload">> \in Jobs /\ Of(<<p, "upload">>) = p
    BY DEF Jobs, Of
  <2> QED  BY <1>3, <2>1, <2>2 DEF Resuming
<1>5. policy'[p].status # "none"
  BY <1>1, <1>2 DEF PolicyMoves, Exists
<1>6. RequestOK'
  <2>1. policy'[Of(api'.job)] = policy'[p] /\ api'.version <= policy'[p].version
    BY <1>1, <1>2, <1>4
  <2> QED  BY <1>4, <1>5, <2>1 DEF RequestOK, RequestFits, Exists
<1> QED  BY <1>2, <1>6, Spent, JobsRest, PolicyRequestKeepsIInv DEF DecideCollection, IInv

LEMMA ResumeKeepsIInv == ASSUME IInv, ResumePolicyJob PROVE IInv'
<1>0. PICK p \in Policies : p = Of(api.job)
  BY RequestJob DEF IInv, ResumePolicyJob
<1>1. /\ api \in Resuming /\ api.version \in Nat /\ Exists(p) /\ api.version <= policy[p].version
      /\ policy' = policy
  BY <1>0, RequestForm DEF IInv, ResumePolicyJob, RequestOK, RequestFits, Resuming, rows
<1>2. PICK j \in Jobs :
        /\ Of(j) = p
        /\ api' = [step |-> "enqueue", job |-> j, record |-> <<j, "filed">>,
                   before |-> "failed", version |-> api.version]
        /\ jobs' = IF jobs[j].status = "none" THEN [jobs EXCEPT ![j].status = "queued"] ELSE jobs
  BY <1>0, SubjectsTyped DEF ResumePolicyJob, Paused
<1>3. api' \in Queueing /\ api'.job = j /\ api'.record = <<j, "filed">> /\ api'.before = "failed"
        /\ api'.version = api.version
  BY <1>1, <1>2, SubjectsTyped DEF Queueing, Unfiled
<1>4. RequestOK'
  BY <1>1, <1>2, <1>3, SubjectsTyped, Queued DEF Exists
<1>5. jobs' \in [Jobs -> JobRow]
  BY <1>2 DEF IInv, QueueOK, JobRow
<1> QED  BY <1>4, <1>5, UsedRests, RequestKeepsIInv DEF ResumePolicyJob, IInv

LEMMA ApiDiesKeepsIInv == ASSUME IInv, ApiDies PROVE IInv'
BY Answered, Spent, JobsRest, RequestKeepsIInv DEF ApiDies, IInv

-----------------------------------------------------------------------------
(* Reviews and jobs. *)

\* Steps that touch nothing but the rows and the bounds.
LEMMA RowsKeepIInv ==
    ASSUME IInv, PolicyMoves, RowsOK', UsedMoves,
           UNCHANGED <<object, jobs, records, notices, api, worker>>
    PROVE  IInv'
<1>1. jobs' \in [Jobs -> JobRow] /\ notices' \subseteq Jobs
  BY DEF IInv, QueueOK
<1> QED  BY <1>1, RecordsRest, RecordsKept, WorkersRest, RequestRests DEF IInv

LEMMA ProposalMoves ==
    ASSUME RowsOK, PolicyRowsOK', NEW p \in Policies, NEW x \in ProposalRow,
           proposal' = [proposal EXCEPT ![p] = x],
           approved \subseteq approved', approved' \subseteq Policies \X (0..MaxDrafts),
           x.status = "approved" => <<p, x.draft>> \in approved', UNCHANGED rules
    PROVE  RowsOK'
<1>1. proposal' \in [Policies -> ProposalRow] /\ proposal'[p] = x
        /\ \A q \in Policies : q # p => proposal'[q] = proposal[q]
  BY DEF RowsOK
<1>2. RulesWereApproved'
  BY DEF RowsOK, RulesWereApproved
<1>3. \A q \in Policies : proposal'[q].status = "approved" => <<q, proposal'[q].draft>> \in approved'
  BY <1>1 DEF RowsOK
<1> QED  BY <1>1, <1>2, <1>3 DEF RowsOK, PolicyRowsOK

\* A status of a proposal, over the draft it has.
LEMMA ProposalStatus ==
    ASSUME RowsOK, PolicyRowsOK', NEW p \in Policies,
           NEW status \in {"none", "approved", "rejected", "activated"},
           proposal' = [proposal EXCEPT ![p].status = status],
           approved' = IF status = "approved" THEN approved \union {<<p, proposal[p].draft>>}
                                              ELSE approved,
           UNCHANGED rules
    PROVE  RowsOK'
<1> DEFINE x == [proposal[p] EXCEPT !.status = status]
<1>1. proposal[p] \in ProposalRow /\ approved \subseteq Policies \X (0..MaxDrafts)
  BY DEF RowsOK
<1>2. x \in ProposalRow /\ x.status = status /\ x.draft = proposal[p].draft
  BY <1>1 DEF ProposalRow
<1>3. proposal' = [proposal EXCEPT ![p] = x]
  BY DEF RowsOK
<1>4. proposal[p].draft \in 0..MaxDrafts
  BY <1>1 DEF ProposalRow
<1>5. <<p, proposal[p].draft>> \in Policies \X (0..MaxDrafts)
  BY <1>4
<1> HIDE DEF x
<1>6. approved \subseteq approved' /\ approved' \subseteq Policies \X (0..MaxDrafts)
        /\ (x.status = "approved" => <<p, x.draft>> \in approved')
  BY <1>1, <1>2, <1>5
<1> QED  BY <1>2, <1>3, <1>6, ProposalMoves

LEMMA ReviewKeepsIInv ==
    ASSUME IInv, NEW p \in Policies, NEW status \in {"approved", "rejected"},
           ReviewProposal(p, status)
    PROVE  IInv'
<1>1. PolicyMoves /\ PolicyRowsOK'
  <2>1. CASE UNCHANGED policy
    BY <2>1, PoliciesRest DEF IInv
  <2>2. CASE policy[p].status = "under_review" /\ UpdateStatus(p, "approved")
    <3>1. Exists(p) /\ policy[p].filed # "no"
      BY <2>2 DEF IInv, RowsOK, PolicyRow, Unfiled, Exists
    <3> QED  BY <2>2, <3>1, StatusUpdated DEF IInv, Reviewable
  <2> QED  BY <2>1, <2>2 DEF ReviewProposal, Reviewed, UpdateStatus
<1>2. RowsOK'
  BY <1>1, ProposalStatus DEF ReviewProposal, Reviewed, IInv
<1> QED  BY <1>1, <1>2, Spent, RowsKeepIInv DEF ReviewProposal, IInv

LEMMA ActivateKeepsIInv ==
    ASSUME IInv, NEW p \in Policies, Activate(p)
    PROVE  IInv'
<1>1. PolicyMoves /\ PolicyRowsOK'
  BY StatusUpdated DEF Activate, IInv, Reviewable, Exists
<1>2. /\ rules' \in [Policies -> RuleRow]
      /\ \A q \in Policies : rules'[q].status = "active" =>
            q = p /\ rules'[q].draft = proposal[p].draft
  <2>1. proposal[p].draft \in 0..MaxDrafts
    BY DEF IInv, RowsOK, ProposalRow
  <2>2. ASSUME NEW q \in Policies
        PROVE  /\ rules'[q] \in RuleRow
               /\ rules'[q].status = "active" => q = p /\ rules'[q].draft = proposal[p].draft
    <3>1. CASE q = p
      BY <2>1, <3>1 DEF Activate, Activated, RuleRow
    <3>2. CASE q # p /\ rules[q].status = "active"
      <4>1. rules'[q] = [rules[q] EXCEPT !.status = "superseded"] /\ rules[q] \in RuleRow
        BY <3>2 DEF Activate, Activated, IInv, RowsOK
      <4> QED  BY <3>2, <4>1 DEF RuleRow
    <3>3. CASE q # p /\ rules[q].status # "active"
      BY <3>3 DEF Activate, Activated, IInv, RowsOK
    <3> QED  BY <3>1, <3>2, <3>3
  <2> QED  BY <2>2 DEF Activate, Activated
<1>3. proposal' \in [Policies -> ProposalRow]
        /\ \A q \in Policies : proposal'[q].status = "approved" => proposal'[q] = proposal[q]
  <2> DEFINE x == [proposal[p] EXCEPT !.status = "activated"]
  <2>1. x \in ProposalRow /\ x.status = "activated"
    BY DEF IInv, RowsOK, ProposalRow
  <2>2. proposal' = [proposal EXCEPT ![p] = x]
    BY DEF Activate, IInv, RowsOK
  <2> HIDE DEF x
  <2> QED  BY <2>1, <2>2 DEF IInv, RowsOK
<1>4. RowsOK'
  <2>1. <<p, proposal[p].draft>> \in approved /\ approved' = approved
    BY DEF Activate, IInv, RowsOK
  <2>2. RulesWereApproved'
    BY <1>2, <2>1 DEF RulesWereApproved
  <2>3. \A q \in Policies :
            proposal'[q].status = "approved" => <<q, proposal'[q].draft>> \in approved'
    BY <1>3, <2>1 DEF IInv, RowsOK
  <2> QED  BY <1>1, <1>2, <1>3, <2>1, <2>2, <2>3 DEF RowsOK, PolicyRowsOK, IInv
<1> QED  BY <1>1, <1>4, Spent, RowsKeepIInv DEF Activate, IInv

\* One record changes, within its attempts, for a policy that has a row.
RecordForm == [state : {"absent", "removed", "waiting", "active", "failed"},
               owner : Workers \union {Nobody}, made : Nat, stalled : BOOLEAN]

LEMMA RecordForms == ASSUME IInv, NEW r \in Records
                     PROVE  records[r] \in RecordForm /\ records[r] \in QueueRecord
BY BoundsTyped DEF IInv, QueueOK, QueueRecord, RecordForm

LEMMA RecordStep ==
    ASSUME IInv, UNCHANGED rows, UsedMoves, jobs' \in [Jobs -> JobRow], notices' \subseteq Jobs,
           NEW r \in Records, NEW x \in RecordForm, records' = [records EXCEPT ![r] = x],
           (x.state = "active") <=> (x.owner # Nobody),
           x.made <= MaxAttempts + used'.requests,
           x.state \in {"waiting", "active"} => x.made < MaxAttempts + used'.requests,
           x.state \in {"absent", "removed"} => x.made = 0,
           x.state \notin {"absent", "removed"} => records[r].state \notin {"absent", "removed"}
    PROVE  QueueOK' /\ RecordsOK' /\ PolicyMoves
<1>1. PolicyMoves
  BY PoliciesRest DEF IInv, rows
<1>2. QueueOK'
  BY RecordMoves DEF IInv, RecordForm
<1>3. x.state \notin {"absent", "removed"} => Exists(Subject(r))
  BY DEF IInv, RecordsOK
<1>4. RecordsOK'
  BY <1>1, <1>3, RecordKept DEF IInv
<1> QED  BY <1>1, <1>2, <1>4

\* Steps of the queue.
LEMMA QueueKeepsIInv ==
    ASSUME IInv, UNCHANGED <<object, rows, api>>, QueueOK', RecordsOK', WorkersOK'
    PROVE  IInv'
<1>1. PolicyMoves /\ PolicyRowsOK'
  BY PoliciesRest DEF IInv, rows
<1> QED  BY <1>1, RowsKept, RequestRests DEF IInv, rows

LEMMA CancelJobKeepsIInv ==
    ASSUME IInv, NEW r \in Records, CancelJob(r)
    PROVE  IInv'
<1>1. Removed \in RecordForm /\ Removed.state = "removed" /\ Removed.owner = Nobody /\ Removed.made = 0
  BY DEF Removed, Absent, RecordForm
<1>2. UsedMoves /\ jobs' \in [Jobs -> JobRow] /\ notices' \subseteq Jobs
  BY Spent, JobSet DEF CancelJob, IInv, QueueOK
<1>3. records' = [records EXCEPT ![r] = Removed] /\ UNCHANGED <<object, rows, api, worker>>
  BY DEF CancelJob
<1>4. Removed.made <= MaxAttempts + used'.requests
  BY <1>1, <1>2, BoundsTyped DEF UsedMoves
<1>5. QueueOK' /\ RecordsOK' /\ PolicyMoves
  BY <1>1, <1>2, <1>3, <1>4, RecordStep
<1> QED  BY <1>3, <1>5, WorkersRest, QueueKeepsIInv DEF IInv

\* The retry of a person allows one attempt more.
LEMMA RetryJobKeepsIInv ==
    ASSUME IInv, NEW r \in Records, RetryJob(r)
    PROVE  IInv'
<1> DEFINE x == [records[r] EXCEPT !.state = "waiting"]
<1>1. /\ records[r] \in RecordForm /\ records[r].owner = Nobody /\ records[r].state = "failed"
      /\ records[r].made <= MaxAttempts + used.requests
  BY RecordForms DEF RetryJob, IInv, QueueOK, AttemptsOK
<1>2. UsedMoves /\ jobs' \in [Jobs -> JobRow] /\ notices' \subseteq Jobs
  BY Spent, JobSet DEF RetryJob, IInv, QueueOK
<1>3. x \in RecordForm /\ x.state = "waiting" /\ x.owner = Nobody /\ x.made = records[r].made
  BY <1>1 DEF RecordForm
<1>4. records' = [records EXCEPT ![r] = x] /\ UNCHANGED <<object, rows, api, worker>>
  BY DEF RetryJob
<1> HIDE DEF x
<1>5. records[r].made < MaxAttempts + used'.requests
  <2>1. used'.requests = used.requests + 1 /\ used.requests \in Nat
    BY BoundsTyped DEF RetryJob, Spend, IInv, QueueOK
  <2>2. records[r].made \in Nat
    BY <1>1 DEF RecordForm
  <2> QED  BY <1>1, <2>1, <2>2, BoundsTyped
<1>6. x.made < MaxAttempts + used'.requests /\ x.made <= MaxAttempts + used'.requests
  <2>1. x.made \in Nat /\ used'.requests \in Nat
    BY <1>2, <1>3 DEF RecordForm, UsedMoves
  <2> QED  BY <1>3, <1>5, <2>1, BoundsTyped
<1>7. QueueOK' /\ RecordsOK' /\ PolicyMoves
  BY <1>1, <1>2, <1>3, <1>4, <1>6, RecordStep
<1> QED  BY <1>4, <1>7, WorkersRest, QueueKeepsIInv DEF IInv

-----------------------------------------------------------------------------
(* The worker. *)

\* Steps of a worker that leave its record and the requests alone.
LEMMA WorkKeepsIInv ==
    ASSUME IInv, PolicyMoves, RowsOK', WorkersOK', UsedMoves, jobs' \in [Jobs -> JobRow],
           UNCHANGED <<object, records, notices, api>>
    PROVE  IInv'
<1>1. notices' \subseteq Jobs
  BY DEF IInv, QueueOK
<1> QED  BY <1>1, RecordsRest, RecordsKept, RequestRests DEF IInv

\* A worker moves on with the record it has.
LEMMA WorkerGoes ==
    ASSUME IInv, PolicyMoves, NEW w \in Workers, worker[w].step # "idle",
           NEW x \in InJob, x.record = worker[w].record, worker' = [worker EXCEPT ![w] = x],
           x.step \in {"filed", "chunked", "proposed", "reviewable"} => policy'[Key(w)].filed # "no",
           x.step = "taken" =>
               /\ x.version <= policy'[Key(w)].version
               /\ x.version = policy'[Key(w)].version => x.filed = policy'[Key(w)].filed
               /\ x.filed # "no" => policy'[Key(w)].filed # "no"
    PROVE  WorkersOK'
<1>1. PICK p \in Policies : p = Key(w) /\ Exists(p)
  BY WorkerKey DEF IInv
<1>2. worker'[w] = x
  BY DEF IInv, WorkersOK
<1>3. Key(w)' = p
  BY <1>1, <1>2 DEF Key
<1>4. policy'[p].status # "none"
  BY <1>1 DEF PolicyMoves, Exists
<1>5. WorkerOK(w)'
  BY <1>1, <1>2, <1>3, <1>4 DEF WorkerOK, Exists
<1> QED  BY <1>5, WorkerMoves DEF IInv

LEMMA Stepped ==
    ASSUME IInv, PolicyMoves, NEW w \in Workers, worker[w].step # "idle",
           NEW step \in {"claimed", "started", "filed", "pause", "chunked", "proposed",
                         "reviewable", "done", "error", "thrown"},
           step \in {"filed", "chunked", "proposed", "reviewable"} => policy[Key(w)].filed # "no",
           Step(w, step)
    PROVE  WorkersOK'
<1> DEFINE x == [worker[w] EXCEPT !.step = step]
<1>1. worker[w] \in InJob /\ Key(w) \in Policies
  BY WorkerKey DEF IInv
<1>2. x \in InJob /\ x.record = worker[w].record /\ x.step = step
  BY <1>1 DEF InJob
<1>3. worker' = [worker EXCEPT ![w] = x]
  BY DEF Step, IInv, WorkersOK
<1>4. step \in {"filed", "chunked", "proposed", "reviewable"} => policy'[Key(w)].filed # "no"
  BY <1>1 DEF PolicyMoves
<1> HIDE DEF x
<1> QED  BY <1>2, <1>3, <1>4, WorkerGoes

LEMMA Held ==
    ASSUME IInv, PolicyMoves, NEW w \in Workers, worker[w].step # "idle",
           NEW step \in {"filed", "pause"},
           step = "filed" => policy'[Key(w)].filed # "no", Hold(w, step)
    PROVE  WorkersOK'
<1> DEFINE x == [worker[w] EXCEPT !.step = step, !.version = policy[Key(w)].version + 1]
<1>1. worker[w] \in InJob /\ Key(w) \in Policies
  BY WorkerKey DEF IInv
<1>2. policy[Key(w)].version + 1 \in Nat
  BY <1>1 DEF PolicyMoves
<1>3. x \in InJob /\ x.record = worker[w].record /\ x.step = step
  BY <1>1, <1>2 DEF InJob
<1>4. worker' = [worker EXCEPT ![w] = x]
  BY DEF Hold, IInv, WorkersOK
<1> HIDE DEF x
<1> QED  BY <1>3, <1>4, WorkerGoes

\* A step of a worker without an effect on the rows.
LEMMA PlainWorkKeepsIInv ==
    ASSUME IInv, NEW w \in Workers, worker[w].step # "idle",
           NEW step \in {"claimed", "started", "filed", "pause", "chunked", "proposed",
                         "reviewable", "done", "error", "thrown"},
           step \in {"filed", "chunked", "proposed", "reviewable"} => policy[Key(w)].filed # "no",
           Step(w, step), UsedMoves, jobs' \in [Jobs -> JobRow],
           UNCHANGED <<object, rows, records, notices, api>>
    PROVE  IInv'
<1>1. PolicyMoves /\ PolicyRowsOK'
  BY PoliciesRest DEF IInv, rows
<1> QED  BY <1>1, RowsKept, Stepped, WorkKeepsIInv DEF IInv, rows

LEMMA ClaimKeepsIInv ==
    ASSUME IInv, NEW w \in Workers, NEW r \in Records, Claim(w, r)
    PROVE  IInv'
<1> DEFINE x == [records[r] EXCEPT !.state = "active", !.owner = w]
           y == [step |-> "claimed", record |-> r, version |-> 0, filed |-> "no"]
<1>1. /\ records[r] \in RecordForm /\ records[r].state = "waiting"
      /\ records[r].made < MaxAttempts + used.requests /\ w # Nobody
  BY RecordForms, PolicyAssumption DEF Claim, IInv, QueueOK, AttemptsOK, PolicyAssumption
<1>2. UsedMoves /\ jobs' \in [Jobs -> JobRow] /\ notices' \subseteq Jobs /\ used' = used
  BY UsedRests, JobsRest DEF Claim, IInv, QueueOK
<1>3. x \in RecordForm /\ x.state = "active" /\ x.owner = w /\ x.made = records[r].made
  BY <1>1 DEF RecordForm
<1>4. records' = [records EXCEPT ![r] = x]
  BY DEF Claim, IInv, QueueOK
<1>5. y \in InJob /\ y.step = "claimed" /\ y.record = r
  BY DEF InJob, Filings
<1>6. worker' = [worker EXCEPT ![w] = y] /\ UNCHANGED <<object, rows, api>>
  BY DEF Claim
<1> HIDE DEF x, y
<1>7. x.made < MaxAttempts + used'.requests /\ x.made <= MaxAttempts + used'.requests
  <2>1. x.made \in Nat /\ used'.requests \in Nat
    BY <1>2, <1>3 DEF RecordForm, UsedMoves
  <2> QED  BY <1>1, <1>2, <1>3, <2>1, BoundsTyped
<1>8. QueueOK' /\ RecordsOK' /\ PolicyMoves
  BY <1>1, <1>2, <1>3, <1>4, <1>6, <1>7, RecordStep
<1>9. WorkersOK'
  <2>1. worker'[w] = y
    BY <1>6 DEF IInv, WorkersOK
  <2>2. Exists(Subject(r)) /\ policy' = policy /\ Key(w)' = Subject(r)
    BY <1>1, <1>5, <1>6, <2>1 DEF IInv, RecordsOK, rows, Key, Subject
  <2>3. WorkerOK(w)'
    BY <1>5, <2>1, <2>2 DEF WorkerOK, Exists
  <2> QED  BY <1>5, <1>6, <1>8, <2>3, WorkerMoves DEF IInv
<1> QED  BY <1>6, <1>8, <1>9, QueueKeepsIInv

LEMMA StartKeepsIInv ==
    ASSUME IInv, NEW w \in Workers, Start(w)
    PROVE  IInv'
<1> DEFINE x == [worker[w] EXCEPT !.step = "started", !.version = policy[Key(w)].version]
<1>1. worker[w].step = "claimed" /\ worker[w] \in InJob /\ Key(w) \in Policies
  BY WorkerKey DEF Start, At, IInv
<1>2. PolicyMoves /\ PolicyRowsOK'
  BY PoliciesRest DEF Start, IInv, rows
<1>3. x \in InJob /\ x.record = worker[w].record /\ x.step = "started"
  BY <1>1, <1>2 DEF InJob, PolicyMoves
<1>4. worker' = [worker EXCEPT ![w] = x]
  BY DEF Start, IInv, WorkersOK
<1> HIDE DEF x
<1>5. WorkersOK'
  BY <1>1, <1>2, <1>3, <1>4, WorkerGoes
<1> QED  BY <1>2, <1>5, RowsKept, UsedRests, JobSet, WorkKeepsIInv DEF Start, IInv, rows

LEMMA TakePolicyKeepsIInv ==
    ASSUME IInv, NEW w \in Workers, TakePolicy(w)
    PROVE  IInv'
<1>0. PICK p \in Policies : p = Key(w) /\ Exists(p)
  BY WorkerKey DEF TakePolicy, At, IInv
<1>1. worker[w].step = "started" /\ worker[w] \in InJob
  BY WorkerKey DEF TakePolicy, At, IInv
<1>2. CASE UpdateStatus(p, "processing") /\ Take(w)
  <2> DEFINE x == [worker[w] EXCEPT !.step = "taken", !.version = policy[p].version + 1,
                                    !.filed = policy[p].filed]
  <2>1. PolicyMoves /\ PolicyRowsOK' /\ policy'[p].version = policy[p].version + 1
          /\ policy'[p].filed = policy[p].filed
    BY <1>0, <1>2, StatusUpdated DEF IInv, Unfiled, Reviewable
  <2>2. policy[p].version + 1 \in Nat /\ policy[p].filed \in Filings
    <3>1. policy[p] \in PolicyRow
      BY DEF IInv, RowsOK
    <3> QED  BY <3>1 DEF PolicyRow
  <2>3. x \in InJob /\ x.record = worker[w].record /\ x.version = policy[p].version + 1
          /\ x.filed = policy[p].filed /\ x.step = "taken"
    BY <1>1, <2>2 DEF InJob
  <2>4. worker' = [worker EXCEPT ![w] = x]
    BY <1>0, <1>2 DEF Take, IInv, WorkersOK
  <2> HIDE DEF x
  <2>5. x.version <= policy'[p].version
    BY <2>1, <2>2, <2>3
  <2>6. WorkersOK'
    BY <1>0, <1>1, <2>1, <2>3, <2>4, <2>5, WorkerGoes
  <2> QED  BY <2>1, <2>6, RowsKept, UsedRests, JobsRest, WorkKeepsIInv DEF TakePolicy, IInv
<1>3. CASE UNCHANGED policy /\ Step(w, "error")
  BY <1>1, <1>3, UsedRests, JobsRest, PlainWorkKeepsIInv DEF TakePolicy, IInv, rows
<1> QED  BY <1>0, <1>2, <1>3 DEF TakePolicy

\* The version that is asked for says that nobody has filed the policy in between.
LEMMA FileUnfiledKeepsIInv ==
    ASSUME IInv, NEW w \in Workers, FileUnfiledPolicy(w)
    PROVE  IInv'
<1>0. PICK p \in Policies : p = Key(w) /\ Exists(p)
  BY WorkerKey DEF FileUnfiledPolicy, At, IInv
<1>1. worker[w].step = "taken" /\ WorkerOK(w)
  BY DEF FileUnfiledPolicy, At, IInv, WorkersOK
<1>2. CASE worker[w].filed # "no" /\ UNCHANGED policy /\ Step(w, "filed")
  <2>1. policy[p].filed # "no"
    BY <1>0, <1>1, <1>2 DEF WorkerOK
  <2> QED
    BY <1>0, <1>1, <1>2, <2>1, UsedRests, JobsRest, PlainWorkKeepsIInv
    DEF FileUnfiledPolicy, IInv, rows
<1>3. CASE UNCHANGED policy /\ Step(w, "error")
  BY <1>1, <1>3, UsedRests, JobsRest, PlainWorkKeepsIInv DEF FileUnfiledPolicy, IInv, rows
<1>4. CASE worker[w].filed = "no" /\ Current(p, worker[w].version)
  <2>1. policy[p].filed = "no"
    BY <1>0, <1>1, <1>4 DEF WorkerOK, Current
  <2>2. CASE File(p, "processing", "classified") /\ Hold(w, "filed")
    <3>1. PolicyMoves /\ PolicyRowsOK' /\ policy'[p].filed = "classified"
      BY <1>0, <2>1, <2>2, PolicyFiled DEF IInv, Filings
    <3>2. WorkersOK'
      BY <1>0, <1>1, <2>2, <3>1, Held
    <3> QED
      BY <3>1, <3>2, RowsKept, UsedRests, JobsRest, WorkKeepsIInv DEF FileUnfiledPolicy, IInv
  <2>3. CASE UpdateStatus(p, "awaiting_collection") /\ Hold(w, "pause")
    <3>1. PolicyMoves /\ PolicyRowsOK'
      BY <1>0, <2>1, <2>3, StatusUpdated DEF IInv, Unfiled, Reviewable
    <3>2. WorkersOK'
      BY <1>1, <2>3, <3>1, Held
    <3> QED
      BY <3>1, <3>2, RowsKept, UsedRests, JobsRest, WorkKeepsIInv DEF FileUnfiledPolicy, IInv
  <2> QED  BY <1>0, <1>4, <2>2, <2>3 DEF FileUnfiledPolicy
<1> QED  BY <1>0, <1>2, <1>3, <1>4 DEF FileUnfiledPolicy

LEMMA PauseKeepsIInv == ASSUME IInv, NEW w \in Workers, PauseJob(w) PROVE IInv'
BY UsedRests, JobSet, PlainWorkKeepsIInv DEF PauseJob, At, IInv

LEMMA ReplaceKeepsIInv ==
    ASSUME IInv, NEW w \in Workers, ReplaceExtractedContent(w)
    PROVE  IInv'
<1>0. PICK p \in Policies : p = Key(w) /\ Exists(p)
  BY WorkerKey DEF ReplaceExtractedContent, At, IInv
<1>1. worker[w].step = "filed" /\ policy[Key(w)].filed # "no"
  BY DEF ReplaceExtractedContent, At, IInv, WorkersOK, WorkerOK
<1>2. CASE UNCHANGED <<proposal, policy>> /\ Step(w, "error")
  BY <1>1, <1>2, UsedRests, JobsRest, PlainWorkKeepsIInv DEF ReplaceExtractedContent, IInv, rows
<1>3. CASE /\ proposal' = [proposal EXCEPT ![p].status = "none"]
           /\ policy' = [policy EXCEPT ![p].version = @ + 1]
           /\ Step(w, "chunked")
  <2>1. PolicyMoves /\ PolicyRowsOK'
    BY <1>0, <1>3, VersionBumped DEF IInv
  <2>2. RowsOK'
    BY <1>3, <2>1, ProposalStatus DEF ReplaceExtractedContent, IInv
  <2>3. WorkersOK'
    BY <1>1, <1>3, <2>1, Stepped
  <2> QED  BY <2>1, <2>2, <2>3, UsedRests, JobsRest, WorkKeepsIInv DEF ReplaceExtractedContent, IInv
<1> QED  BY <1>0, <1>2, <1>3 DEF ReplaceExtractedContent

\* What a model proposes replaces what was there, and no approval comes with it.
LEMMA SaveKeepsIInv ==
    ASSUME IInv, NEW w \in Workers, SaveProposals(w)
    PROVE  IInv'
<1>0. PICK p \in Policies : p = Key(w)
  BY WorkerKey DEF SaveProposals, At, IInv
<1>1. worker[w].step = "chunked" /\ policy[Key(w)].filed # "no"
  BY DEF SaveProposals, At, IInv, WorkersOK, WorkerOK
<1>2. PolicyMoves /\ PolicyRowsOK'
  BY PoliciesRest DEF SaveProposals, IInv
<1>3. UsedMoves
  BY Spent, UsedRests DEF SaveProposals, IInv
<1>4. RowsOK'
  <2>1. CASE UNCHANGED proposal
    BY <1>2, <2>1, RowsKept DEF SaveProposals, IInv
  <2>2. ASSUME Spend("drafts", MaxDrafts), NEW status \in {"proposed", "invalid"},
               proposal' = [proposal EXCEPT ![p] = Upsert(p, status)]
        PROVE  RowsOK'
    <3>1. used.drafts + 1 \in 0..MaxDrafts
      BY <2>2, BoundsTyped DEF Spend, IInv, QueueOK
    <3>2. Upsert(p, status) \in ProposalRow /\ Upsert(p, status).status # "approved"
      BY <3>1 DEF Upsert, ProposalRow
    <3>3. approved' = approved /\ rules' = rules /\ approved \subseteq Policies \X (0..MaxDrafts)
      BY DEF SaveProposals, IInv, RowsOK
    <3> QED  BY <1>2, <2>2, <3>2, <3>3, ProposalMoves DEF IInv
  <2> QED  BY <1>0, <2>1, <2>2 DEF SaveProposals
<1>5. WorkersOK'
  BY <1>1, <1>2, Stepped DEF SaveProposals
<1> QED  BY <1>2, <1>3, <1>4, <1>5, JobsRest, WorkKeepsIInv DEF SaveProposals, IInv

LEMMA OpenReviewKeepsIInv ==
    ASSUME IInv, NEW w \in Workers, OpenReview(w)
    PROVE  IInv'
<1>0. PICK p \in Policies : p = Key(w) /\ Exists(p)
  BY WorkerKey DEF OpenReview, At, IInv
<1>1. worker[w].step = "proposed" /\ policy[Key(w)].filed # "no"
  BY DEF OpenReview, At, IInv, WorkersOK, WorkerOK
<1>2. PolicyMoves /\ PolicyRowsOK'
  BY <1>0, <1>1, StatusUpdated DEF OpenReview, IInv, Reviewable
<1>3. WorkersOK'
  BY <1>1, <1>2, Stepped DEF OpenReview
<1> QED  BY <1>2, <1>3, RowsKept, UsedRests, JobsRest, WorkKeepsIInv DEF OpenReview, IInv

LEMMA CompleteKeepsIInv == ASSUME IInv, NEW w \in Workers, CompleteJob(w) PROVE IInv'
BY UsedRests, JobSet, PlainWorkKeepsIInv DEF CompleteJob, At, IInv

LEMMA CallFailsKeepsIInv == ASSUME IInv, NEW w \in Workers, CallFails(w) PROVE IInv'
BY Spent, JobsRest, PlainWorkKeepsIInv DEF CallFails, IInv

LEMMA FailPolicyKeepsIInv ==
    ASSUME IInv, NEW w \in Workers, FailPolicy(w)
    PROVE  IInv'
<1>0. PICK p \in Policies : p = Key(w) /\ Exists(p)
  BY WorkerKey DEF FailPolicy, At, IInv
<1>1. worker[w].step = "error"
  BY DEF FailPolicy, At
<1>2. PolicyMoves /\ PolicyRowsOK'
  <2>1. CASE UNCHANGED policy
    BY <2>1, PoliciesRest DEF IInv
  <2>2. CASE UpdateStatus(p, "failed")
    BY <1>0, <2>2, StatusUpdated DEF IInv, Unfiled, Reviewable
  <2> QED  BY <1>0, <2>1, <2>2 DEF FailPolicy
<1>3. WorkersOK'
  BY <1>1, <1>2, Stepped DEF FailPolicy
<1> QED  BY <1>2, <1>3, RowsKept, UsedRests, JobSet, WorkKeepsIInv DEF FailPolicy, IInv

-----------------------------------------------------------------------------
(* BullMQ. *)

LEMMA Left ==
    ASSUME IInv, PolicyMoves, NEW w \in Workers, Leave(w)
    PROVE  WorkersOK'
<1>1. worker' = [worker EXCEPT ![w] = NoWork] /\ worker'[w] = NoWork
  BY DEF Leave, IInv, WorkersOK
<1>2. WorkerOK(w)'
  BY <1>1 DEF WorkerOK, NoWork
<1> QED  BY <1>1, <1>2, WorkerMoves DEF IInv

LEMMA RecordsStay ==
    ASSUME IInv, UNCHANGED <<rows, records>>, UsedMoves, jobs' \in [Jobs -> JobRow],
           notices' \subseteq Jobs
    PROVE  QueueOK' /\ RecordsOK' /\ PolicyMoves
BY PoliciesRest, RecordsRest, RecordsKept DEF IInv, rows

LEMMA FinishKeepsIInv ==
    ASSUME IInv, NEW w \in Workers, Finish(w)
    PROVE  IInv'
<1>1. UsedMoves /\ jobs' \in [Jobs -> JobRow] /\ notices' \subseteq Jobs /\ UNCHANGED <<object, rows, api>>
  BY UsedRests, JobsRest DEF Finish, IInv, QueueOK
<1>2. QueueOK' /\ RecordsOK' /\ PolicyMoves
  <2>1. CASE records' = records
    BY <1>1, <2>1, RecordsStay
  <2>2. CASE records' = [records EXCEPT ![worker[w].record] = Absent]
    <3>1. PICK r \in Records : r = worker[w].record
      BY WorkerKey DEF Finish, At, IInv
    <3>2. Absent \in RecordForm /\ Absent.state = "absent" /\ Absent.owner = Nobody /\ Absent.made = 0
      BY DEF Absent, RecordForm
    <3>3. Absent.made <= MaxAttempts + used'.requests
      BY <1>1, <3>2, BoundsTyped DEF UsedMoves
    <3>4. records' = [records EXCEPT ![r] = Absent]
      BY <2>2, <3>1
    <3> QED  BY <1>1, <3>2, <3>3, <3>4, RecordStep
  <2> QED  BY <2>1, <2>2 DEF Finish
<1> QED  BY <1>1, <1>2, Left, QueueKeepsIInv DEF Finish

LEMMA FailAttemptKeepsIInv ==
    ASSUME IInv, NEW w \in Workers, FailAttempt(w)
    PROVE  IInv'
<1>0. PICK r \in Records : r = worker[w].record /\ r[1] \in Jobs
  BY WorkerKey, SubjectsTyped DEF FailAttempt, At, IInv
<1>1. UsedMoves /\ jobs' \in [Jobs -> JobRow] /\ UNCHANGED <<object, rows, api>>
  BY UsedRests, JobsRest DEF FailAttempt, IInv, QueueOK
<1>2. notices' \subseteq Jobs
  BY <1>0 DEF FailAttempt, IInv, QueueOK
<1>3. QueueOK' /\ RecordsOK' /\ PolicyMoves
  <2>1. CASE records' = records
    BY <1>1, <1>2, <2>1, RecordsStay
  <2>2. CASE Holds(w)
    <3> DEFINE state == IF Exhausted(records[r].made + 1) THEN "failed" ELSE "waiting"
               x == [records[r] EXCEPT !.state = state, !.owner = Nobody,
                                       !.made = records[r].made + 1]
    <3>1. /\ records[r] \in RecordForm /\ records[r].state = "active"
          /\ records[r].made < MaxAttempts + used.requests
      BY <1>0, <2>2, RecordForms DEF Holds, IInv, QueueOK, AttemptsOK
    <3>2. records[r].made \in Nat /\ used.requests \in Nat /\ used'.requests = used.requests
            /\ MaxAttempts \in Nat /\ records[r].made + 1 \in Nat
      BY <1>1, <3>1, BoundsTyped DEF RecordForm, UsedMoves, FailAttempt
    <3>3. x \in RecordForm /\ x.state = state /\ x.owner = Nobody /\ x.made = records[r].made + 1
      BY <3>1, <3>2 DEF RecordForm
    <3>4. records' = [records EXCEPT ![r] = x]
      BY <1>0, <2>2 DEF FailAttempt
    <3>5. state \in {"failed", "waiting"}
            /\ (state = "waiting" => records[r].made + 1 < MaxAttempts)
      BY <3>2 DEF Exhausted
    <3> HIDE DEF x, state
    <3>6. x.made <= MaxAttempts + used'.requests
      BY <3>1, <3>2, <3>3
    <3>7. x.state \in {"waiting", "active"} => x.made < MaxAttempts + used'.requests
      BY <3>2, <3>3, <3>5
    <3> QED  BY <1>1, <1>2, <3>1, <3>3, <3>4, <3>5, <3>6, <3>7, RecordStep
  <2> QED  BY <2>1, <2>2 DEF FailAttempt
<1> QED  BY <1>1, <1>3, Left, QueueKeepsIInv DEF FailAttempt

LEMMA WorkerDiesKeepsIInv ==
    ASSUME IInv, NEW w \in Workers, WorkerDies(w)
    PROVE  IInv'
<1>1. UsedMoves /\ jobs' \in [Jobs -> JobRow] /\ notices' \subseteq Jobs
        /\ UNCHANGED <<object, rows, api, records>>
  BY Spent, JobsRest DEF WorkerDies, IInv, QueueOK
<1> QED  BY <1>1, RecordsStay, Left, QueueKeepsIInv DEF WorkerDies

LEMMA NoteRetryKeepsIInv ==
    ASSUME IInv, NEW j \in Jobs, NoteRetry(j)
    PROVE  IInv'
<1>1. UsedMoves /\ jobs' \in [Jobs -> JobRow] /\ notices' \subseteq Jobs
        /\ UNCHANGED <<object, rows, api, records, worker>>
  BY UsedRests, JobSet DEF NoteRetry, IInv, QueueOK
<1> QED  BY <1>1, RecordsStay, WorkersRest, QueueKeepsIInv DEF IInv

LEMMA RequeueKeepsIInv ==
    ASSUME IInv, NEW r \in Records, Requeue(r), UsedMoves
    PROVE  IInv'
<1> DEFINE state == IF records[r].stalled THEN "failed" ELSE "waiting"
           x == [records[r] EXCEPT !.state = state, !.owner = Nobody, !.stalled = TRUE]
<1>1. /\ records[r] \in RecordForm /\ records[r].state = "active" /\ r[1] \in Jobs
      /\ records[r].made < MaxAttempts + used.requests
  BY RecordForms, SubjectsTyped DEF Requeue, IInv, QueueOK, AttemptsOK
<1>2. jobs' \in [Jobs -> JobRow] /\ notices' \subseteq Jobs /\ UNCHANGED <<object, rows, api, worker>>
  BY <1>1, JobsRest DEF Requeue, IInv, QueueOK
<1>3. x \in RecordForm /\ x.state = state /\ x.owner = Nobody /\ x.made = records[r].made
  BY <1>1 DEF RecordForm
<1>4. records' = [records EXCEPT ![r] = x]
  BY DEF Requeue
<1>5. state \in {"failed", "waiting"}
  OBVIOUS
<1> HIDE DEF x, state
<1>6. x.made < MaxAttempts + used'.requests /\ x.made <= MaxAttempts + used'.requests
  <2>1. records[r].made \in Nat /\ used.requests \in Nat /\ used'.requests \in Nat
          /\ used.requests <= used'.requests
    BY <1>1 DEF RecordForm, UsedMoves
  <2> QED  BY <1>1, <1>3, <2>1, BoundsTyped
<1>7. QueueOK' /\ RecordsOK' /\ PolicyMoves
  BY <1>1, <1>2, <1>3, <1>4, <1>5, <1>6, RecordStep
<1> QED  BY <1>2, <1>7, WorkersRest, QueueKeepsIInv DEF IInv

-----------------------------------------------------------------------------
(* The theorems. *)

LEMMA InitKeepsIInv == ASSUME Init PROVE IInv
<1>1. RowsOK
  <2>1. policy \in [Policies -> PolicyRow] /\ WaitsUnfiled
    BY DEF Init, PolicyRow, Unfiled, Filings, WaitsUnfiled
  <2>2. proposal \in [Policies -> ProposalRow] /\ rules \in [Policies -> RuleRow]
    BY BoundsTyped DEF Init, ProposalRow, RuleRow
  <2>3. approved \subseteq Policies \X (0..MaxDrafts)
    BY BoundsTyped, PolicyAssumption DEF Init, PolicyAssumption
  <2>4. RulesWereApproved
    BY DEF Init, RulesWereApproved
  <2>5. \A p \in Policies : proposal[p].status = "approved" => <<p, proposal[p].draft>> \in approved
    BY DEF Init
  <2> QED  BY <2>1, <2>2, <2>3, <2>4, <2>5 DEF RowsOK
<1>2. QueueOK
  <2>1. jobs \in [Jobs -> JobRow] /\ notices \subseteq Jobs
    BY DEF Init, JobRow
  <2>2. used \in [drafts : 0..MaxDrafts, requests : 0..MaxRequests, faults : 0..MaxFaults]
    BY BoundsTyped DEF Init
  <2>3. Absent \in QueueRecord /\ Absent.owner = Nobody /\ Absent.state = "absent" /\ Absent.made = 0
    BY BoundsTyped DEF Absent, QueueRecord
  <2>4. \A r \in Records : records[r] = Absent
    BY DEF Init
  <2>5. records \in [Records -> QueueRecord]
    BY <2>3 DEF Init
  <2>6. used.requests = 0
    BY DEF Init
  <2> QED  BY <2>1, <2>2, <2>3, <2>4, <2>5, <2>6, BoundsTyped DEF QueueOK, AttemptsOK
<1>3. RecordsOK
  BY DEF Init, Absent, RecordsOK
<1>4. WorkersOK
  BY DEF Init, NoWork, WorkersOK, WorkerOK
<1>5. RequestOK
  BY DEF Init, NoRequest, RequestOK, RequestFits
<1>6. object \subseteq Policies
  BY PolicyAssumption DEF Init, PolicyAssumption
<1> QED  BY <1>1, <1>2, <1>3, <1>4, <1>5, <1>6 DEF IInv

LEMMA StutterKeepsIInv == ASSUME IInv, UNCHANGED vars PROVE IInv'
<1>1. PolicyMoves /\ PolicyRowsOK'
  BY PoliciesRest DEF IInv, vars, rows
<1> QED
  BY <1>1, RowsKept, UsedRests, JobsRest, RowsKeepIInv DEF IInv, vars, rows

LEMMA StepKeepsIInv == ASSUME IInv, [Next]_vars PROVE IInv'
<1>1. ASSUME NEW p \in Policies, NEW filed \in {"no", "decided"}, Upload(p, filed) PROVE IInv'
  BY <1>1, UploadKeepsIInv
<1>2. ASSUME NEW p \in Policies, NEW status \in {"approved", "rejected"}, ReviewProposal(p, status)
      PROVE  IInv'
  BY <1>2, ReviewKeepsIInv
<1>3. ASSUME NEW p \in Policies, Reprocess(p) \/ DecideCollection(p) \/ Activate(p) PROVE IInv'
  BY <1>3, ReprocessKeepsIInv, DecideCollectionKeepsIInv, ActivateKeepsIInv
<1>4. ASSUME Request \/ ApiDies PROVE IInv'
  BY <1>4, PutKeepsIInv, CreateKeepsIInv, CreateJobKeepsIInv, ClaimRequestKeepsIInv, EnqueueKeepsIInv,
     AnnounceKeepsIInv, EnqueueFailsKeepsIInv, ResumeKeepsIInv, ApiDiesKeepsIInv DEF Request
<1>5. ASSUME NEW r \in Records, CancelJob(r) \/ RetryJob(r) PROVE IInv'
  BY <1>5, CancelJobKeepsIInv, RetryJobKeepsIInv
<1>6. ASSUME NEW r \in Records, RecoverStalled(r) \/ LoseLock(r) PROVE IInv'
  BY <1>6, UsedRests, Spent, RequeueKeepsIInv DEF RecoverStalled, LoseLock, IInv
<1>7. ASSUME NEW w \in Workers, NEW r \in Records, Claim(w, r) PROVE IInv'
  BY <1>7, ClaimKeepsIInv
<1>8. ASSUME NEW w \in Workers, Work(w) PROVE IInv'
  BY <1>8, StartKeepsIInv, TakePolicyKeepsIInv, FileUnfiledKeepsIInv, PauseKeepsIInv,
     ReplaceKeepsIInv, SaveKeepsIInv, OpenReviewKeepsIInv, CompleteKeepsIInv,
     FailPolicyKeepsIInv, FinishKeepsIInv, FailAttemptKeepsIInv DEF Work
<1>9. ASSUME NEW w \in Workers, CallFails(w) \/ WorkerDies(w) PROVE IInv'
  BY <1>9, CallFailsKeepsIInv, WorkerDiesKeepsIInv
<1>10. ASSUME NEW j \in Jobs, NoteRetry(j) PROVE IInv'
  BY <1>10, NoteRetryKeepsIInv
<1>11. CASE UNCHANGED vars
  BY <1>11, StutterKeepsIInv
<1> QED
  BY <1>1, <1>2, <1>3, <1>4, <1>5, <1>6, <1>7, <1>8, <1>9, <1>10, <1>11 DEF Next

\* Every reachable state satisfies the inductive invariant.
THEOREM Invariant == Spec => []IInv
<1>1. Init => IInv
  BY InitKeepsIInv
<1>2. IInv /\ [Next]_vars => IInv'
  BY StepKeepsIInv
<1> QED  BY <1>1, <1>2, PTL DEF Spec

\* However workers, administrators and faults interleave, a rule in force is the draft a
\* person approved and a policy that waits for a person has no collection.
THEOREM SoundPolicies == Spec => []PoliciesAreSound
<1>1. IInv => PoliciesAreSound
  BY IInvSound
<1> QED  BY <1>1, Invariant, PTL

\* What FiledOnce asks of a step.
FiledKept ==
    \A p \in Policies : policy[p].status # "none" /\ policy[p].filed # "no"
        => policy'[p].filed = policy[p].filed

LEMMA StatusKeepsFiled ==
    ASSUME IInv, NEW p, NEW status, UpdateStatus(p, status)
    PROVE  FiledKept
<1>1. ASSUME NEW q \in Policies PROVE policy'[q].filed = policy[q].filed
  <2>1. policy[q] \in PolicyRow
    BY DEF IInv, RowsOK
  <2>2. policy'[q] = IF q = p THEN [policy[q] EXCEPT !.status = status, !.version = @ + 1] ELSE policy[q]
    BY DEF UpdateStatus, IInv, RowsOK
  <2> QED  BY <2>1, <2>2 DEF PolicyRow
<1> QED  BY <1>1 DEF FiledKept

LEMMA UnfiledIsFiled ==
    ASSUME IInv, NEW p \in Policies, policy[p].filed = "no" \/ ~Exists(p), NEW x,
           policy' = [policy EXCEPT ![p] = x]
    PROVE  FiledKept
BY DEF IInv, RowsOK, FiledKept, Exists

\* Only an upload and a policy without a collection name one.
LEMMA StepFilesOnce == ASSUME IInv, [Next]_vars PROVE FiledKept
<1>1. CASE UNCHANGED policy
  BY <1>1 DEF FiledKept
<1>2. CASE CreatePolicy
  <2>1. Of(api.job) \in Policies /\ ~Exists(Of(api.job))
    BY <1>2, RequestJob DEF CreatePolicy, IInv, RequestOK, RequestFits
  <2>2. PICK x : policy' = [policy EXCEPT ![Of(api.job)] = x]
    BY <1>2 DEF CreatePolicy
  <2> QED  BY <2>1, <2>2, UnfiledIsFiled
<1>3. CASE ClaimForReprocess \/ EnqueueFails
  BY <1>1, <1>3, StatusKeepsFiled DEF ClaimForReprocess, EnqueueFails
<1>4. ASSUME NEW p \in Policies, DecideCollection(p) PROVE FiledKept
  <2>1. policy[p].filed = "no"
    BY <1>4 DEF DecideCollection, IInv, RowsOK, WaitsUnfiled
  <2> QED  BY <1>4, <2>1, UnfiledIsFiled DEF DecideCollection, File
<1>5. ASSUME NEW p \in Policies, Activate(p) PROVE FiledKept
  BY <1>5, StatusKeepsFiled DEF Activate
<1>6. ASSUME NEW p \in Policies, NEW status \in {"approved", "rejected"}, ReviewProposal(p, status)
      PROVE  FiledKept
  <2>1. UNCHANGED policy \/ UpdateStatus(p, "approved")
    BY <1>6 DEF ReviewProposal, Reviewed, UpdateStatus
  <2> QED  BY <1>1, <2>1, StatusKeepsFiled
<1>7. ASSUME NEW w \in Workers, TakePolicy(w) \/ OpenReview(w) \/ FailPolicy(w) PROVE FiledKept
  BY <1>1, <1>7, StatusKeepsFiled DEF TakePolicy, OpenReview, FailPolicy
<1>8. ASSUME NEW w \in Workers, FileUnfiledPolicy(w) PROVE FiledKept
  <2>1. worker[w].step = "taken" /\ Key(w) \in Policies /\ WorkerOK(w)
    BY <1>8, WorkerKey DEF FileUnfiledPolicy, At, IInv, WorkersOK
  <2>2. \/ UNCHANGED policy
        \/ UpdateStatus(Key(w), "awaiting_collection")
        \/ policy[Key(w)].filed = "no" /\ File(Key(w), "processing", "classified")
    BY <1>8, <2>1 DEF FileUnfiledPolicy, WorkerOK, Current
  <2> QED  BY <1>1, <2>1, <2>2, StatusKeepsFiled, UnfiledIsFiled DEF File
<1>9. ASSUME NEW w \in Workers, ReplaceExtractedContent(w) PROVE FiledKept
  <2>1. PICK p \in Policies : p = Key(w) /\ Exists(p)
    BY <1>9, WorkerKey DEF ReplaceExtractedContent, At, IInv
  <2>2. UNCHANGED policy \/ policy' = [policy EXCEPT ![p].version = @ + 1]
    BY <1>9, <2>1 DEF ReplaceExtractedContent
  <2>3. CASE policy' = [policy EXCEPT ![p].version = @ + 1]
    <3>1. PolicyMoves
      BY <2>1, <2>3, VersionBumped DEF IInv
    <3> QED  BY <3>1 DEF PolicyMoves, FiledKept
  <2> QED  BY <1>1, <2>2, <2>3
<1>10. ASSUME Request PROVE FiledKept
  BY <1>1, <1>2, <1>3, <1>10
  DEF Request, PutObject, CreateJob, Enqueue, Announce, ResumePolicyJob, rows
<1>11. ASSUME NEW w \in Workers, Work(w) PROVE FiledKept
  BY <1>1, <1>7, <1>8, <1>9, <1>11
  DEF Work, Start, PauseJob, SaveProposals, CompleteJob, Finish, FailAttempt, rows
<1>12. ASSUME NEW p \in Policies, (\E filed \in {"no", "decided"} : Upload(p, filed)) \/ Reprocess(p)
       PROVE  FiledKept
  BY <1>1, <1>12 DEF Upload, Reprocess, rows
<1>13. ASSUME NEW r \in Records, \/ CancelJob(r) \/ RetryJob(r) \/ RecoverStalled(r) \/ LoseLock(r)
                                 \/ \E w \in Workers : Claim(w, r)
       PROVE  FiledKept
  BY <1>1, <1>13 DEF CancelJob, RetryJob, RecoverStalled, LoseLock, Requeue, Claim, rows
<1>14. ASSUME \/ ApiDies \/ \E w \in Workers : CallFails(w) \/ WorkerDies(w)
              \/ \E j \in Jobs : NoteRetry(j)
       PROVE  FiledKept
  BY <1>1, <1>14 DEF ApiDies, CallFails, WorkerDies, NoteRetry, rows
<1>15. CASE UNCHANGED vars
  BY <1>1, <1>15 DEF vars, rows
<1> QED
  BY <1>4, <1>5, <1>6, <1>10, <1>11, <1>12, <1>13, <1>14, <1>15 DEF Next

\* No step moves a policy out of its collection: neither a worker that read the policy
\* before it was filed nor a second decision.
THEOREM FiledForEver == Spec => FiledOnce
<1>1. IInv /\ [Next]_vars => [FiledKept]_vars
  BY StepFilesOnce
<1>2. FiledKept <=> \A p \in Policies : policy[p].status # "none" /\ policy[p].filed # "no"
                        => policy'[p].filed = policy[p].filed
  BY DEF FiledKept
<1>3. IInv /\ [Next]_vars
        => [\A p \in Policies : policy[p].status # "none" /\ policy[p].filed # "no"
                => policy'[p].filed = policy[p].filed]_vars
  BY <1>1, <1>2
<1> QED  BY <1>3, Invariant, PTL DEF Spec, FiledOnce

-----------------------------------------------------------------------------
\* What fieldProposal makes of a candidate, when no issue is found, widens the dictionary.
Widens(made, candidate, dictionary) ==
  IF made.kind = "new_field"
  THEN /\ \A p \in DOMAIN dictionary : NormalizeFieldPath(p) # NormalizeFieldPath(made.path)
       /\ made.documentType \in DocumentTypes /\ made.type \in FieldTypes
  ELSE /\ made.type = candidate.type
       /\ made.aliases # {}
       /\ made.aliases \cap Wording(dictionary[made.path]) = {}

LEMMA GatedCandidate ==
    ASSUME NEW candidate, NEW dictionary, NEW clauses,
           RunDeterministicGates(candidate, dictionary, clauses) = {}
    PROVE  /\ \A p \in DOMAIN dictionary : ~SamePath(p, candidate.path)
           /\ candidate.type \in FieldTypes /\ candidate.documentType \in DocumentTypes
BY DEF RunDeterministicGates

LEMMA MatchedType ==
    ASSUME NEW candidate, NEW recalled, NEW answer, NEW dictionary,
           ResolveDedup(candidate, recalled, answer, dictionary) # "none"
    PROVE  LET matched == ResolveDedup(candidate, recalled, answer, dictionary)
           IN matched \in DOMAIN dictionary /\ dictionary[matched].type = candidate.type
<1> DEFINE chosen == {p \in DOMAIN recalled : SamePath(p, answer)}
           existing == {p \in DOMAIN dictionary : \E q \in chosen : SamePath(p, q)}
<1>1. /\ existing # {} /\ ~ \E p \in existing : dictionary[p].type # candidate.type
      /\ ResolveDedup(candidate, recalled, answer, dictionary) = CHOOSE p \in existing : TRUE
  BY Zenon DEF ResolveDedup
<1>2. (CHOOSE p \in existing : TRUE) \in existing
  BY <1>1, Zenon
<1> QED  BY <1>1, <1>2

LEMMA ProposalWidens ==
    ASSUME NEW candidate, NEW recalled, NEW answer, NEW dictionary, NEW clauses,
           FieldProposal(candidate, recalled, answer, dictionary, clauses).issues = {}
    PROVE  Widens(FieldProposal(candidate, recalled, answer, dictionary, clauses), candidate, dictionary)
<1> DEFINE gate == RunDeterministicGates(candidate, dictionary, clauses)
           plain == ApplyDedup(candidate, "none", dictionary)
           matched == ResolveDedup(candidate, recalled, answer, dictionary)
           made == FieldProposal(candidate, recalled, answer, dictionary, clauses)
<1>1. DOMAIN plain = {"kind", "path", "documentType", "label", "type", "aliases", "issues"}
  BY DEF ApplyDedup
<1>2. gate = {}
  <2> SUFFICES ASSUME gate # {} PROVE FALSE
    OBVIOUS
  <2>1. made = [plain EXCEPT !.issues = gate]
    BY DEF FieldProposal
  <2> HIDE DEF plain, gate, made
  <2>2. made.issues = gate
    BY <1>1, <2>1
  <2> QED  BY <2>2 DEF made
<1>3. made = ApplyDedup(candidate, matched, dictionary)
  BY <1>2, Zenon DEF FieldProposal
<1>4. CASE matched = "none"
  <2>1. made = plain
    BY <1>3, <1>4
  <2>2. plain.kind = "new_field" /\ plain.path = candidate.path /\ plain.type = candidate.type
        /\ plain.documentType = candidate.documentType
    BY DEF ApplyDedup
  <2> HIDE DEF plain, made
  <2>3. Widens(made, candidate, dictionary)
    BY <1>2, <2>1, <2>2, GatedCandidate DEF Widens, SamePath
  <2> QED  BY <2>3 DEF made
<1>5. CASE matched # "none"
  <2>1. matched \in DOMAIN dictionary /\ dictionary[matched].type = candidate.type
    BY <1>5, MatchedType
  <2> DEFINE new == DistinctWording(candidate, dictionary[matched])
  <2> HIDE DEF matched
  <2>2. /\ made.kind = "alias" /\ made.path = matched /\ made.type = dictionary[matched].type
        /\ made.aliases = new /\ made.issues = {x \in {"alias_adds_nothing"} : new = {}}
    BY <1>3, <1>5 DEF ApplyDedup
  <2>3. new \cap Wording(dictionary[matched]) = {}
    BY DEF DistinctWording
  <2> HIDE DEF made, new
  <2>4. new # {}
    BY <2>2 DEF made
  <2>5. Widens(made, candidate, dictionary)
    BY <2>1, <2>2, <2>3, <2>4 DEF Widens
  <2> QED  BY <2>5 DEF made
<1> QED  BY <1>4, <1>5

\* While fields are compared, what the stage holds is a proposal made of one of the candidates.
FieldsOK ==
  /\ stage = "fields" => work = Nothing
  /\ stage = "recall" /\ work # Nothing =>
       \E recalled, answer :
         work.made = FieldProposal(work.candidate, recalled, answer, Dictionary, chunks)

LEMMA StepKeepsFields == ASSUME FieldsOK, [StagesNext]_stagesVars PROVE FieldsOK'
<1>1. CASE ProposeField
  <2>1. PICK candidate \in Candidates, recalled \in Recalled,
             answer \in DOMAIN index \cup {"none", "unavailable", "unlisted"} :
          work' = [candidate |-> candidate, recalled |-> recalled,
                   made |-> FieldProposal(candidate, recalled, answer, Dictionary, chunks)]
    BY <1>1 DEF ProposeField
  <2>2. work'.candidate = candidate
        /\ work'.made = FieldProposal(candidate, recalled, answer, Dictionary, chunks)
    BY <2>1
  <2>3. stage' = "recall" /\ chunks' = chunks
    BY <1>1 DEF ProposeField
  <2> QED  BY <2>2, <2>3 DEF FieldsOK
<1>2. CASE SyncIndex
  BY <1>2 DEF SyncIndex, FieldsOK
<1>3. CASE RulesDone
  BY <1>3 DEF RulesDone, FieldsOK
<1>4. CASE ExtractPolicyPages \/ FilePolicy \/ ClassifierFails \/ ChooseCollection \/ ChunkPages
           \/ ProposeRule \/ ApproveRule \/ FieldsDone
  <2>1. stage' \notin {"fields", "recall"}
    BY <1>4 DEF ExtractPolicyPages, FilePolicy, ClassifierFails, ChooseCollection, ChunkPages,
                ProposeRule, ApproveRule, FieldsDone
  <2> QED  BY <2>1 DEF FieldsOK
<1>5. CASE UNCHANGED stagesVars
  BY <1>5 DEF stagesVars, FieldsOK
<1> QED  BY <1>1, <1>2, <1>3, <1>4, <1>5 DEF StagesNext

\* A field that is proposed without an issue has a path of its own, or brings a field of its
\* type words that it does not have.
THEOREM FieldsTeach == StagesSpec => []FieldsWidenTheDictionary
<1>1. StagesInit => FieldsOK
  BY DEF StagesInit, FieldsOK
<1>2. FieldsOK /\ [StagesNext]_stagesVars => FieldsOK'
  BY StepKeepsFields
<1>3. FieldsOK => FieldsWidenTheDictionary
  BY ProposalWidens DEF FieldsOK, FieldsWidenTheDictionary, Widens
<1> QED  BY <1>1, <1>2, <1>3, PTL DEF StagesSpec

-----------------------------------------------------------------------------
LEMMA LesserOfTwo ==
    ASSUME NEW a \in Nat, NEW b \in Nat
    PROVE  /\ Min({a, b}) \in {a, b} /\ Min({a, b}) <= a /\ Min({a, b}) <= b
           /\ Min({a, b}) \in Nat
BY MinIsLeast

\* A part of a list, and a part of that.
LEMMA PartOf ==
    ASSUME NEW s, IsList(s), NEW a \in Nat \ {0}, NEW b \in Nat, a <= b, b <= Len(s)
    PROVE  /\ IsList(SubSeq(s, a, b)) /\ Len(SubSeq(s, a, b)) = b - a + 1
           /\ \A i \in 1..(b - a + 1) : SubSeq(s, a, b)[i] = s[a + i - 1]
<1>1. s \in Seq(ToSet(s)) /\ Len(s) \in Nat /\ DOMAIN s = 1..Len(s)
  BY ListItems
<1>2. /\ Len(SubSeq(s, a, b)) = b - a + 1 /\ DOMAIN SubSeq(s, a, b) = 1..(b - a + 1)
      /\ SubSeq(s, a, b) = [i \in 1..(b - a + 1) |-> s[a + i - 1]]
  BY <1>1
<1> DEFINE t == SubSeq(s, a, b)
<1>3. b - a + 1 \in Nat
  OBVIOUS
<1> HIDE DEF t
<1>4. t = [i \in 1..(b - a + 1) |-> t[i]]
  BY <1>2 DEF t
<1>5. IsList(t)
  BY <1>3, <1>4, ListMade
<1> QED  BY <1>2, <1>5 DEF t

LEMMA PartIncluded ==
    ASSUME NEW s, IsList(s), NEW a \in Nat \ {0}, NEW b \in Nat, NEW from \in Nat, NEW to \in Nat,
           a <= from, from <= to, to <= b, b <= Len(s)
    PROVE  Includes(SubSeq(s, a, b), SubSeq(s, from, to))
<1> DEFINE t == SubSeq(s, a, b)
           part == SubSeq(s, from, to)
           i == from - a
<1>1. IsList(t) /\ Len(t) = b - a + 1 /\ \A k \in 1..(b - a + 1) : t[k] = s[a + k - 1]
  BY PartOf
<1>2. IsList(part) /\ Len(part) = to - from + 1 /\ \A k \in 1..(to - from + 1) : part[k] = s[from + k - 1]
  BY PartOf
<1> HIDE DEF t, part
<1>3. i \in Nat /\ i + Len(part) <= Len(t) /\ Len(part) >= 1 /\ Len(part) \in Nat /\ Len(t) \in Nat
  BY <1>1, <1>2
<1>4. /\ Len(SubSeq(t, i + 1, i + Len(part))) = Len(part)
      /\ IsList(SubSeq(t, i + 1, i + Len(part)))
      /\ \A k \in 1..Len(part) : SubSeq(t, i + 1, i + Len(part))[k] = t[i + 1 + k - 1]
  <2>1. i + 1 \in Nat \ {0} /\ i + Len(part) \in Nat
    BY <1>3
  <2>2. PICK x \in Nat \ {0}, y \in Nat : x = i + 1 /\ y = i + Len(part)
    BY <2>1
  <2>3. x <= y /\ y <= Len(t) /\ y - x + 1 = Len(part)
    BY <2>2, <1>3
  <2> HIDE DEF i
  <2>4. /\ IsList(SubSeq(t, x, y)) /\ Len(SubSeq(t, x, y)) = y - x + 1
        /\ \A k \in 1..(y - x + 1) : SubSeq(t, x, y)[k] = t[x + k - 1]
    BY <1>1, <2>3, PartOf
  <2> QED  BY <2>2, <2>3, <2>4
<1> HIDE DEF i
<1>5. ASSUME NEW k \in 1..Len(part) PROVE SubSeq(t, i + 1, i + Len(part))[k] = part[k]
  <2>1. SubSeq(t, i + 1, i + Len(part))[k] = t[i + k]
    BY <1>3, <1>4
  <2>2. t[i + k] = s[a + (i + k) - 1]
    <3>1. i + k \in 1..(b - a + 1)
      BY <1>1, <1>3
    <3> QED  BY <3>1, <1>1
  <2>3. a + (i + k) - 1 = from + k - 1
    BY DEF i
  <2> QED  BY <2>1, <2>2, <2>3, <1>2
<1> DEFINE u == SubSeq(t, i + 1, i + Len(part))
<1> HIDE DEF u
<1>6. IsList(u) /\ Len(u) = Len(part) /\ \A k \in 1..Len(part) : u[k] = part[k]
  BY <1>4, <1>5 DEF u
<1>7. u = part
  <2>1. u \in Seq(ToSet(u)) /\ part \in Seq(ToSet(part))
    BY <1>2, <1>6, ListItems
  <2> QED  BY <1>6, <2>1
<1>8. i \in 0..(Len(t) - Len(part))
  BY <1>3
<1> QED  BY <1>7, <1>8 DEF Includes, u, t, part

\* Every piece of a paragraph is a part of it, and no short quote is cut.
LEMMA Split ==
    ASSUME NEW words, IsList(words), words # <<>>,
           NEW size \in Nat \ {0}, NEW overlap \in 0..(size - 1)
    PROVE  LET pieces == SplitWithOverlap(words, size, overlap)
           IN /\ IsList(pieces)
              /\ \A k \in DOMAIN pieces : \E a, b \in 1..Len(words) :
                   a <= b /\ pieces[k] = SubSeq(words, a, b)
              /\ \A from, to \in 1..Len(words) : from <= to /\ to <= from + overlap =>
                   \E k \in DOMAIN pieces : Includes(pieces[k], SubSeq(words, from, to))
<1> DEFINE N == Len(words)
           step == size - overlap
           Offset(k) == (k - 1) * step
           Ends == {k \in 1..N : Offset(k) + size >= N}
           count == Min(Ends)
           last(k) == Min({Offset(k) + size, N})
           pieces == SplitWithOverlap(words, size, overlap)
<1>1. words \in Seq(ToSet(words)) /\ N \in Nat \ {0} /\ DOMAIN words = 1..N
  BY ListItems
<1>2. CASE N <= size
  <2>1. pieces = <<words>>
    BY <1>2 DEF SplitWithOverlap
  <2>2. words = SubSeq(words, 1, N)
    BY <1>1
  <2>3. IsList(pieces) /\ DOMAIN pieces = {1} /\ pieces[1] = SubSeq(words, 1, N)
    BY <2>1, <2>2 DEF IsList, ToSet
  <2>4. \A from, to \in 1..N : from <= to => Includes(SubSeq(words, 1, N), SubSeq(words, from, to))
    BY <1>1, PartIncluded
  <2> HIDE DEF pieces
  <2>5. 1 \in 1..N /\ N \in 1..N /\ 1 <= N
    BY <1>1
  <2>6. \A k \in DOMAIN pieces : \E a, b \in 1..N : a <= b /\ pieces[k] = SubSeq(words, a, b)
    <3>1. ASSUME NEW k \in DOMAIN pieces PROVE pieces[k] = SubSeq(words, 1, N)
      BY <2>3
    <3> QED  BY <3>1, <2>5
  <2>7. \A from, to \in 1..N : from <= to /\ to <= from + overlap =>
                   \E k \in DOMAIN pieces : Includes(pieces[k], SubSeq(words, from, to))
    BY <2>3, <2>4
  <2> QED  BY <2>3, <2>6, <2>7 DEF pieces
<1>3. CASE size < N
  <2>1. pieces = [k \in 1..count |-> SubSeq(words, Offset(k) + 1, last(k))]
    <3>1. ~(Len(words) <= size)
      BY <1>1, <1>3
    <3> QED  BY <3>1, Zenon DEF SplitWithOverlap
  <2>2. step \in Nat \ {0} /\ step <= size
    OBVIOUS
  <2> HIDE DEF step
  <2>3. \A k \in Nat \ {0} : Offset(k) \in Nat /\ Offset(k) >= k - 1
    <3> SUFFICES ASSUME NEW k \in Nat \ {0} PROVE (k - 1) * step \in Nat /\ (k - 1) * step >= k - 1
      OBVIOUS
    <3>1. PICK j \in Nat : j = k - 1
      OBVIOUS
    <3>2. j * step >= j /\ j * step \in Nat
      BY <2>2
    <3> QED  BY <3>1, <3>2
  <2>4. \A k \in Nat \ {0} : k > 1 => Offset(k) = Offset(k - 1) + step
    <3> SUFFICES ASSUME NEW k \in Nat, k > 1 PROVE (k - 1) * step = (k - 1 - 1) * step + step
      OBVIOUS
    <3>1. PICK j \in Nat : j = k - 1 - 1
      OBVIOUS
    <3>2. (j + 1) * step = j * step + step
      BY <2>2
    <3> QED  BY <3>1, <3>2
  <2>5. Offset(1) = 0
    BY <2>2
  <2> HIDE DEF Offset
  <2>6. count \in 1..N /\ Offset(count) + size >= N /\ \A k \in 1..N : k < count => Offset(k) + size < N
    <3>1. N \in Ends
      BY <1>1, <2>3
    <3>2. Ends \subseteq Nat /\ Ends # {}
      BY <3>1
    <3>3. count \in Ends /\ \A k \in Ends : count <= k
      <4> HIDE DEF Ends
      <4> QED  BY <3>2, MinIsLeast
    <3> HIDE DEF count
    <3>4. \A k \in 1..N : k < count => k \notin Ends
      BY <3>3
    <3>5. \A k \in 1..N : Offset(k) \in Nat
      BY <2>3
    <3> QED  BY <3>3, <3>4, <3>5
  <2> HIDE DEF count
  <2>7. ASSUME NEW k \in 1..count
        PROVE  /\ Offset(k) \in Nat /\ last(k) \in Nat /\ last(k) <= N /\ Offset(k) + 1 <= last(k)
               /\ last(k) = N \/ last(k) = Offset(k) + size
    <3>1. Offset(k) \in Nat /\ Offset(k) + size \in Nat
      BY <2>3, <2>6
    <3>2. last(k) \in {Offset(k) + size, N} /\ last(k) <= N /\ last(k) \in Nat
      BY <1>1, <3>1, LesserOfTwo
    <3>3. Offset(k) < N
      <4>1. CASE k = 1
        BY <4>1, <2>5, <1>1
      <4>2. CASE k > 1
        <5>1. k - 1 \in 1..N /\ k - 1 < count
          BY <4>2, <2>6
        <5>2. Offset(k - 1) + size < N /\ Offset(k - 1) \in Nat
          <6>1. PICK j \in 1..N : j = k - 1 /\ j < count
            BY <5>1
          <6>2. Offset(j) + size < N
            BY <2>6, <6>1
          <6>3. j \in Nat \ {0}
            OBVIOUS
          <6>4. Offset(j) \in Nat
            BY <2>3, <6>3
          <6> QED  BY <6>1, <6>2, <6>4
        <5>3. Offset(k) = Offset(k - 1) + step
          BY <4>2, <2>4
        <5> QED  BY <5>2, <5>3, <2>2, <1>1
      <4> QED  BY <4>1, <4>2
    <3> HIDE DEF last
    <3> QED  BY <3>1, <3>2, <3>3, <1>1
  <2> HIDE DEF last
  <2> HIDE DEF pieces
  <2>8. DOMAIN pieces = 1..count /\ \A k \in 1..count : pieces[k] = SubSeq(words, Offset(k) + 1, last(k))
    BY <2>1
  <2>9. IsList(pieces)
    <3>1. pieces = [k \in 1..count |-> pieces[k]]
      BY <2>1
    <3>2. count \in Nat
      BY <2>6
    <3> QED  BY <3>1, <3>2, ListMade
  <2>10. ASSUME NEW k \in DOMAIN pieces
         PROVE  \E a, b \in 1..N : a <= b /\ pieces[k] = SubSeq(words, a, b)
    <3>1. k \in 1..count
      BY <2>8
    <3>2. Offset(k) + 1 \in 1..N /\ last(k) \in 1..N /\ Offset(k) + 1 <= last(k)
      BY <3>1, <2>7
    <3> QED  BY <3>1, <3>2, <2>8
  <2>11. ASSUME NEW from \in 1..N, NEW to \in 1..N, from <= to, to <= from + overlap
         PROVE  \E k \in DOMAIN pieces : Includes(pieces[k], SubSeq(words, from, to))
    <3> DEFINE Reach == {k \in 1..count : to <= Offset(k) + size \/ k = count}
    <3>1. count \in Reach /\ Reach \subseteq Nat
      BY <2>6
    <3>2. Min(Reach) \in Reach /\ \A k \in Reach : Min(Reach) <= k
      <4> HIDE DEF Reach
      <4> QED  BY <3>1, MinIsLeast
    <3>3. PICK k \in 1..count : k = Min(Reach)
      BY <3>2
    <3>4. to <= Offset(k) + size \/ k = count
      BY <3>2, <3>3
    <3>5. /\ Offset(k) \in Nat /\ last(k) \in Nat /\ last(k) <= N /\ Offset(k) + 1 <= last(k)
          /\ last(k) = N \/ last(k) = Offset(k) + size
      BY <2>7
    <3>6. to <= last(k)
      <4>1. Offset(count) + size >= N
        BY <2>6
      <4> QED  BY <4>1, <3>4, <3>5
    <3>7. Offset(k) + 1 <= from
      <4>1. CASE k = 1
        BY <4>1, <2>5
      <4>2. CASE k > 1
        <5>1. k - 1 \in 1..count /\ k - 1 \in Nat \ {0} /\ k - 1 # count
          BY <4>2, <2>6
        <5>2. k - 1 \notin Reach
          BY <3>2, <3>3, <5>1
        <5>3. Offset(k - 1) \in Nat /\ to > Offset(k - 1) + size
          BY <5>1, <5>2, <2>3
        <5>4. Offset(k) = Offset(k - 1) + step
          BY <4>2, <2>4
        <5>5. step = size - overlap
          BY DEF step
        <5> QED  BY <5>3, <5>4, <5>5, <2>11
      <4> QED  BY <4>1, <4>2
    <3>8. Includes(SubSeq(words, Offset(k) + 1, last(k)), SubSeq(words, from, to))
      <4>1. Offset(k) + 1 \in Nat \ {0}
        BY <3>5
      <4> QED  BY <4>1, <3>5, <3>6, <3>7, <1>1, <2>11, PartIncluded
    <3> QED  BY <3>8, <2>8
  <2>12. /\ \A k \in DOMAIN pieces : \E a, b \in 1..N : a <= b /\ pieces[k] = SubSeq(words, a, b)
         /\ \A from, to \in 1..N : from <= to /\ to <= from + overlap =>
              \E k \in DOMAIN pieces : Includes(pieces[k], SubSeq(words, from, to))
    BY <2>10, <2>11
  <2> QED  BY <2>9, <2>12 DEF pieces
<1>4. N <= size \/ size < N
  BY <1>1
<1> QED  BY <1>2, <1>3, <1>4, Zenon

-----------------------------------------------------------------------------
\* A page as it was read: paragraphs of words.
IsRead(page) ==
  /\ IsList(page.paragraphs)
  /\ \A i \in DOMAIN page.paragraphs : IsList(page.paragraphs[i]) /\ page.paragraphs[i] # <<>>

\* The words from one place of a paragraph to another.
Passage(page, i, from, to) ==
  /\ i \in DOMAIN page.paragraphs /\ from \in DOMAIN page.paragraphs[i]
  /\ to \in DOMAIN page.paragraphs[i] /\ from <= to

Cut(page, i, from, to) == SubSeq(page.paragraphs[i], from, to)

LEMMA PiecesOfPage ==
    ASSUME NEW page, IsRead(page), NEW size \in Nat \ {0}, NEW overlap \in 0..(size - 1)
    PROVE  LET pieces == PagePieces(page, size, overlap)
           IN /\ IsList(pieces)
              /\ \A k \in DOMAIN pieces : \E i, from, to :
                   /\ Passage(page, i, from, to)
                   /\ pieces[k] = [page |-> page.page, content |-> Cut(page, i, from, to)]
              /\ \A i, from, to : Passage(page, i, from, to) /\ to <= from + overlap =>
                   \E k \in DOMAIN pieces : Includes(pieces[k].content, Cut(page, i, from, to))
<1> DEFINE split == [i \in DOMAIN page.paragraphs |-> SplitWithOverlap(page.paragraphs[i], size, overlap)]
           flat == FlattenSeq(split)
           pieces == PagePieces(page, size, overlap)
<1>0. IsList(page.paragraphs) /\ DOMAIN page.paragraphs = 1..Len(page.paragraphs) /\ Len(page.paragraphs) \in Nat
  BY ListItems DEF IsRead
<1>1. ASSUME NEW i \in DOMAIN page.paragraphs
      PROVE  /\ IsList(split[i])
             /\ \A k \in DOMAIN split[i] : \E a, b \in DOMAIN page.paragraphs[i] :
                   a <= b /\ split[i][k] = Cut(page, i, a, b)
             /\ \A from, to \in DOMAIN page.paragraphs[i] : from <= to /\ to <= from + overlap =>
                   \E k \in DOMAIN split[i] : Includes(split[i][k], Cut(page, i, from, to))
  <2> DEFINE words == page.paragraphs[i]
  <2>1. IsList(words) /\ words # <<>>
    BY DEF IsRead
  <2>2. DOMAIN words = 1..Len(words)
    BY <2>1, ListItems
  <2>3. split[i] = SplitWithOverlap(words, size, overlap)
    OBVIOUS
  <2> DEFINE cut == SplitWithOverlap(words, size, overlap)
  <2> HIDE DEF words
  <2>4. /\ IsList(cut)
        /\ \A k \in DOMAIN cut : \E a, b \in 1..Len(words) : a <= b /\ cut[k] = SubSeq(words, a, b)
        /\ \A from, to \in 1..Len(words) : from <= to /\ to <= from + overlap =>
             \E k \in DOMAIN cut : Includes(cut[k], SubSeq(words, from, to))
    BY <2>1, Split, Zenon
  <2> HIDE DEF cut
  <2>5. split[i] = cut
    BY <2>3 DEF cut
  <2>6. DOMAIN page.paragraphs[i] = 1..Len(words)
    BY <2>2 DEF words
  <2>7. \A a, b : Cut(page, i, a, b) = SubSeq(words, a, b)
    BY DEF Cut, words
  <2> HIDE DEF split
  <2>8. ASSUME NEW k \in DOMAIN split[i]
        PROVE  \E a, b \in DOMAIN page.paragraphs[i] : a <= b /\ split[i][k] = Cut(page, i, a, b)
    <3>1. PICK a \in 1..Len(words), b \in 1..Len(words) : a <= b /\ cut[k] = SubSeq(words, a, b)
      BY <2>4, <2>5
    <3>2. split[i][k] = Cut(page, i, a, b)
      BY <3>1, <2>5, <2>7
    <3> QED  BY <3>1, <3>2, <2>6
  <2>9. ASSUME NEW from \in DOMAIN page.paragraphs[i], NEW to \in DOMAIN page.paragraphs[i],
               from <= to, to <= from + overlap
        PROVE  \E k \in DOMAIN split[i] : Includes(split[i][k], Cut(page, i, from, to))
    <3>1. from \in 1..Len(words) /\ to \in 1..Len(words)
      BY <2>6
    <3>2. PICK k \in DOMAIN cut : Includes(cut[k], SubSeq(words, from, to))
      BY <3>1, <2>4, <2>9
    <3>3. Cut(page, i, from, to) = SubSeq(words, from, to)
      BY <2>7
    <3> QED  BY <3>2, <3>3, <2>5
  <2> QED  BY <2>4, <2>5, <2>8, <2>9
<1>2. IsList(split) /\ DOMAIN split = DOMAIN page.paragraphs
  <2>1. split = [i \in 1..Len(page.paragraphs) |-> split[i]]
    BY <1>0
  <2>2. DOMAIN split = DOMAIN page.paragraphs
    OBVIOUS
  <2> HIDE DEF split
  <2> QED  BY <2>1, <2>2, <1>0, ListMade
<1> HIDE DEF split
<1>3. IsList(flat) /\ ToSet(flat) = UNION {ToSet(split[i]) : i \in DOMAIN split}
  BY <1>1, <1>2, FlatList
<1> HIDE DEF flat
<1>4. DOMAIN flat = 1..Len(flat) /\ Len(flat) \in Nat
  BY <1>3, ListItems
<1>5. pieces = [k \in DOMAIN flat |-> [page |-> page.page, content |-> flat[k]]]
  BY Zenon DEF PagePieces, flat, split
<1> HIDE DEF pieces
<1>6. IsList(pieces) /\ DOMAIN pieces = DOMAIN flat
  <2>1. pieces = [k \in 1..Len(flat) |-> pieces[k]] /\ DOMAIN pieces = DOMAIN flat
    BY <1>4, <1>5
  <2> QED  BY <2>1, <1>4, ListMade
<1>7. ASSUME NEW k \in DOMAIN pieces
      PROVE  \E i, from, to :
                   /\ Passage(page, i, from, to)
                   /\ pieces[k] = [page |-> page.page, content |-> Cut(page, i, from, to)]
  <2>1. flat[k] \in ToSet(flat)
    BY <1>6 DEF ToSet
  <2>2. PICK i \in DOMAIN split : flat[k] \in ToSet(split[i])
    BY <2>1, <1>3
  <2>3. PICK n \in DOMAIN split[i] : flat[k] = split[i][n]
    BY <2>2 DEF ToSet
  <2>4. PICK a \in DOMAIN page.paragraphs[i], b \in DOMAIN page.paragraphs[i] :
            a <= b /\ split[i][n] = Cut(page, i, a, b)
    BY <1>1, <1>2, <2>3
  <2>5. Passage(page, i, a, b)
    BY <2>4, <1>2 DEF Passage
  <2>6. pieces[k] = [page |-> page.page, content |-> Cut(page, i, a, b)]
    BY <1>5, <1>6, <2>3, <2>4
  <2> QED  BY <2>5, <2>6
<1>8. ASSUME NEW i, NEW from, NEW to, Passage(page, i, from, to), to <= from + overlap
      PROVE  \E k \in DOMAIN pieces : Includes(pieces[k].content, Cut(page, i, from, to))
  <2>1. PICK n \in DOMAIN split[i] : Includes(split[i][n], Cut(page, i, from, to))
    BY <1>1, <1>8 DEF Passage
  <2>2. split[i][n] \in ToSet(flat)
    <3>1. split[i][n] \in ToSet(split[i]) /\ i \in DOMAIN split
      BY <1>2, <1>8 DEF ToSet, Passage
    <3> QED  BY <3>1, <1>3
  <2>3. PICK k \in DOMAIN flat : flat[k] = split[i][n]
    BY <2>2 DEF ToSet
  <2>4. pieces[k].content = split[i][n]
    BY <1>5, <2>3
  <2> QED  BY <2>1, <2>3, <2>4, <1>6
<1> QED  BY <1>6, <1>7, <1>8 DEF pieces

\* The chunks of a list of pages: each holds a passage of a page, and every short passage is
\* whole in a chunk.
LEMMA ChunksOfPages ==
    ASSUME NEW read, IsList(read), \A i \in DOMAIN read : IsRead(read[i]),
           NEW size \in Nat \ {0}, NEW overlap \in 0..(size - 1)
    PROVE  LET clauses == ChunkPolicyPages(read, size, overlap)
           IN /\ IsList(clauses)
              /\ \A n \in DOMAIN clauses :
                   /\ DOMAIN clauses[n] = {"id", "page", "content"} /\ clauses[n].id = n
                   /\ \E p \in DOMAIN read : \E i, from, to :
                        /\ Passage(read[p], i, from, to) /\ clauses[n].page = read[p].page
                        /\ clauses[n].content = Cut(read[p], i, from, to)
              /\ \A p \in DOMAIN read : \A i, from, to :
                   Passage(read[p], i, from, to) /\ to <= from + overlap =>
                     \E n \in DOMAIN clauses :
                       /\ clauses[n].page = read[p].page
                       /\ Includes(clauses[n].content, Cut(read[p], i, from, to))
<1> DEFINE lists == [p \in DOMAIN read |-> PagePieces(read[p], size, overlap)]
           flat == FlattenSeq(lists)
           clauses == ChunkPolicyPages(read, size, overlap)
<1>0. DOMAIN read = 1..Len(read) /\ Len(read) \in Nat
  BY ListItems
<1>1. ASSUME NEW p \in DOMAIN read
      PROVE  /\ IsList(lists[p])
             /\ \A k \in DOMAIN lists[p] : \E i, from, to :
                   /\ Passage(read[p], i, from, to)
                   /\ lists[p][k] = [page |-> read[p].page, content |-> Cut(read[p], i, from, to)]
             /\ \A i, from, to : Passage(read[p], i, from, to) /\ to <= from + overlap =>
                   \E k \in DOMAIN lists[p] : Includes(lists[p][k].content, Cut(read[p], i, from, to))
  <2>1. lists[p] = PagePieces(read[p], size, overlap)
    OBVIOUS
  <2> HIDE DEF lists
  <2> QED  BY <2>1, PiecesOfPage
<1>2. IsList(lists) /\ DOMAIN lists = DOMAIN read
  <2>1. lists = [p \in 1..Len(read) |-> lists[p]]
    BY <1>0
  <2>2. DOMAIN lists = DOMAIN read
    OBVIOUS
  <2> HIDE DEF lists
  <2> QED  BY <2>1, <2>2, <1>0, ListMade
<1> HIDE DEF lists
<1>3. IsList(flat) /\ ToSet(flat) = UNION {ToSet(lists[p]) : p \in DOMAIN lists}
  BY <1>1, <1>2, FlatList
<1> HIDE DEF flat
<1>4. DOMAIN flat = 1..Len(flat) /\ Len(flat) \in Nat
  BY <1>3, ListItems
<1>5. clauses = [n \in DOMAIN flat |-> [id |-> n, page |-> flat[n].page, content |-> flat[n].content]]
  BY Zenon DEF ChunkPolicyPages, flat, lists
<1> HIDE DEF clauses
<1>6. IsList(clauses) /\ DOMAIN clauses = DOMAIN flat
  <2>1. clauses = [n \in 1..Len(flat) |-> clauses[n]] /\ DOMAIN clauses = DOMAIN flat
    BY <1>4, <1>5
  <2> QED  BY <2>1, <1>4, ListMade
<1>7. ASSUME NEW n \in DOMAIN clauses
      PROVE  /\ DOMAIN clauses[n] = {"id", "page", "content"} /\ clauses[n].id = n
             /\ \E p \in DOMAIN read : \E i, from, to :
                        /\ Passage(read[p], i, from, to) /\ clauses[n].page = read[p].page
                        /\ clauses[n].content = Cut(read[p], i, from, to)
  <2>1. flat[n] \in ToSet(flat)
    BY <1>6 DEF ToSet
  <2>2. PICK p \in DOMAIN lists : flat[n] \in ToSet(lists[p])
    BY <2>1, <1>3
  <2>3. PICK k \in DOMAIN lists[p] : flat[n] = lists[p][k]
    BY <2>2 DEF ToSet
  <2>4. PICK i, from, to : /\ Passage(read[p], i, from, to)
                           /\ lists[p][k] = [page |-> read[p].page, content |-> Cut(read[p], i, from, to)]
    BY <1>1, <1>2
  <2>5. clauses[n] = [id |-> n, page |-> flat[n].page, content |-> flat[n].content]
    BY <1>5, <1>6
  <2>6. flat[n].page = read[p].page /\ flat[n].content = Cut(read[p], i, from, to)
    BY <2>3, <2>4
  <2> QED  BY <2>4, <2>5, <2>6, <1>2
<1>8. ASSUME NEW p \in DOMAIN read, NEW i, NEW from, NEW to,
             Passage(read[p], i, from, to), to <= from + overlap
      PROVE  \E n \in DOMAIN clauses :
                       /\ clauses[n].page = read[p].page
                       /\ Includes(clauses[n].content, Cut(read[p], i, from, to))
  <2>1. PICK k \in DOMAIN lists[p] : Includes(lists[p][k].content, Cut(read[p], i, from, to))
    BY <1>1, <1>8
  <2>2. lists[p][k].page = read[p].page
    <3>1. PICK j, a, b : lists[p][k] = [page |-> read[p].page, content |-> Cut(read[p], j, a, b)]
      BY <1>1
    <3> QED  BY <3>1
  <2>3. lists[p][k] \in ToSet(flat)
    <3>1. lists[p][k] \in ToSet(lists[p]) /\ p \in DOMAIN lists
      BY <1>2 DEF ToSet
    <3> QED  BY <3>1, <1>3
  <2>4. PICK n \in DOMAIN flat : flat[n] = lists[p][k]
    BY <2>3 DEF ToSet
  <2>5. clauses[n].page = read[p].page /\ clauses[n].content = lists[p][k].content
    BY <1>5, <2>2, <2>4
  <2> QED  BY <2>1, <2>4, <2>5, <1>6
<1> QED  BY <1>6, <1>7, <1>8 DEF clauses

-----------------------------------------------------------------------------
\* Of a list of numbers that is not empty, one is the greatest.
LEMMA GreatestEntry ==
    ASSUME NEW n \in Nat \ {0}, NEW h \in [1..n -> Int]
    PROVE  \E m \in 1..n : \A k \in 1..n : h[k] <= h[m]
<1> DEFINE Good == {j \in 1..n : \E m \in 1..j : \A k \in 1..j : h[k] <= h[m]}
<1>1. ASSUME NEW j \in 1..n, \A i \in 1..(j - 1) : i \in Good PROVE j \in Good
  <2>1. CASE j = 1
    BY <2>1
  <2>2. CASE j # 1
    <3>1. j - 1 \in 1..(j - 1)
      BY <2>2
    <3>2. PICK m \in 1..(j - 1) : \A k \in 1..(j - 1) : h[k] <= h[m]
      BY <3>1, <1>1
    <3>3. CASE h[m] <= h[j]
      BY <3>2, <3>3
    <3>4. CASE h[j] < h[m]
      BY <3>2, <3>4
    <3> QED  BY <3>3, <3>4, <3>2
  <2> QED  BY <2>1, <2>2
<1>2. \A j \in 1..n : j \in Good
  <2> HIDE DEF Good
  <2> QED  BY <1>1, EntryByEntry
<1>3. n \in Good
  <2>1. n \in 1..n
    OBVIOUS
  <2> HIDE DEF Good
  <2> QED  BY <2>1, <1>2
<1> QED  BY <1>3

LEMMA HitsCounted ==
    ASSUME NEW read, NEW i \in DOMAIN Collections
    PROVE  Hits(read, Collections[i]) \in Nat
<1>1. IsFiniteSet(Collections[i].terms)
  BY CollectionsAssumption
<1>2. IsFiniteSet(Collections[i].terms \cap DocumentTerms(read))
  BY <1>1, FS_Intersection
<1> QED  BY <1>2, FS_CardinalityType DEF Hits

\* The collection that leads shares as many words as any; when it shares more than the runner-up,
\* it shares more than any other.
LEMMA LeaderLeads ==
    ASSUME NEW read, Collections # <<>>
    PROVE  /\ Leader(read, Collections) \in DOMAIN Collections
           /\ RunnerUp(read, Collections) \in Nat
           /\ Hits(read, Collections[Leader(read, Collections)]) > RunnerUp(read, Collections) =>
                \A k \in DOMAIN Collections : k # Leader(read, Collections) =>
                  Hits(read, Collections[k]) < Hits(read, Collections[Leader(read, Collections)])
<1> DEFINE n == Len(Collections)
           h == [k \in 1..n |-> Hits(read, Collections[k])]
           Best == {i \in DOMAIN Collections :
                      \A k \in DOMAIN Collections :
                        Hits(read, Collections[k]) <= Hits(read, Collections[i])}
           first == Leader(read, Collections)
           Rest == {0} \cup {Hits(read, Collections[k]) : k \in DOMAIN Collections \ {first}}
<1>1. n \in Nat \ {0} /\ DOMAIN Collections = 1..n
  BY CollectionsAssumption, ListItems
<1>2. h \in [1..n -> Nat]
  BY <1>1, HitsCounted
<1>3. Best # {} /\ Best \subseteq Nat
  <2>1. PICK m \in 1..n : \A k \in 1..n : h[k] <= h[m]
    <3> HIDE DEF h
    <3>1. h \in [1..n -> Int]
      BY <1>2
    <3> QED  BY <1>1, <3>1, GreatestEntry
  <2>2. m \in Best
    BY <2>1, <1>1
  <2> QED  BY <2>2, <1>1
<1>4. first \in Best
  <2>1. Min(Best) \in Best
    <3> HIDE DEF Best
    <3> QED  BY <1>3, MinIsLeast
  <2> QED  BY <2>1 DEF Leader
<1> HIDE DEF first
<1>5. Max(Rest) \in Nat /\ \A x \in Rest : x <= Max(Rest)
  <2> DEFINE g == [k \in 1..n |-> IF k = first THEN 0 ELSE h[k]]
  <2>1. g \in [1..n -> Nat]
    BY <1>2
  <2>2. PICK m \in 1..n : \A k \in 1..n : g[k] <= g[m]
    <3> HIDE DEF g
    <3>1. g \in [1..n -> Int]
      BY <2>1
    <3> QED  BY <1>1, <3>1, GreatestEntry
  <2>3. Rest \subseteq Nat
    BY <1>1, HitsCounted
  <2>4. g[m] \in Rest
    BY <1>1
  <2>5. \A x \in Rest : x <= g[m]
    <3>1. 0 <= g[m]
      BY <2>1
    <3>2. \A k \in DOMAIN Collections \ {first} : Hits(read, Collections[k]) = g[k] /\ k \in 1..n
      BY <1>1
    <3> HIDE DEF g
    <3> QED  BY <3>1, <3>2, <2>2
  <2> HIDE DEF g, Rest
  <2>6. Max(Rest) = g[m]
    BY <2>3, <2>4, <2>5, MaxIs
  <2> QED  BY <2>3, <2>4, <2>5, <2>6
<1>6. RunnerUp(read, Collections) = Max(Rest)
  BY Zenon DEF RunnerUp, first
<1>8. ASSUME Hits(read, Collections[first]) > RunnerUp(read, Collections),
             NEW k \in DOMAIN Collections, k # first
      PROVE  Hits(read, Collections[k]) < Hits(read, Collections[first])
  <2>1. Hits(read, Collections[k]) \in Rest
    BY <1>8
  <2> HIDE DEF Rest, Best
  <2>2. Hits(read, Collections[k]) <= Max(Rest)
    BY <2>1, <1>5
  <2>3. first \in DOMAIN Collections
    BY <1>4 DEF Best
  <2> QED  BY <2>2, <2>3, <1>5, <1>6, <1>8, HitsCounted
<1> QED  BY <1>4, <1>5, <1>6, <1>8 DEF first

\* Only a collection of the tenant is resolved; an id resolves to the collection that has it.
LEMMA Resolved ==
    ASSUME NEW named
    PROVE  /\ ResolveCollection(named, Collections) \in CollectionIds \cup {"none"}
           /\ named \in CollectionIds => ResolveCollection(named, Collections) = named
<1> DEFINE Named(k, value) == {i \in DOMAIN Collections : Collections[i][k] = value}
           ways == <<Named("id", named), Named("id", Slug(named)), Named("label", named)>>
           found == {w \in 1..3 : ways[w] # {}}
           result == ResolveCollection(named, Collections)
<1>1. result = IF found = {} THEN "none" ELSE Collections[Min(ways[Min(found)])].id
  BY Zenon DEF ResolveCollection
<1>2. \A w \in 1..3 : ways[w] \subseteq DOMAIN Collections
  OBVIOUS
<1>3. DOMAIN Collections \subseteq Nat
  BY CollectionsAssumption, ListItems
<1>4. found \subseteq Nat /\ found \subseteq 1..3
  OBVIOUS
<1>5. ways[1] = {i \in DOMAIN Collections : Collections[i].id = named}
  OBVIOUS
<1>6. \A w \in found : ways[w] # {}
  OBVIOUS
<1>7. \A w \in 1..3 : ways[w] # {} => w \in found
  OBVIOUS
<1> HIDE DEF ways, found, result
<1>8. CASE found = {}
  <2>1. ways[1] = {}
    BY <1>8, <1>7
  <2>2. named \notin CollectionIds
    BY <2>1, <1>5 DEF CollectionIds
  <2> QED  BY <2>2, <1>1, <1>8 DEF result
<1>9. CASE found # {}
  <2>1. Min(found) \in found /\ \A w \in found : Min(found) <= w
    BY <1>9, <1>4, MinIsLeast
  <2>2. PICK w \in 1..3 : w = Min(found)
    BY <2>1, <1>4
  <2>3. ways[w] # {} /\ ways[w] \subseteq Nat
    BY <2>1, <2>2, <1>2, <1>3, <1>6
  <2>4. Min(ways[w]) \in ways[w]
    BY <2>3, MinIsLeast
  <2>5. PICK i \in DOMAIN Collections : i = Min(ways[w])
    BY <2>4, <1>2
  <2>6. result = Collections[i].id
    BY <1>1, <1>9, <2>2, <2>5
  <2>7. ASSUME named \in CollectionIds PROVE result = named
    <3>1. ways[1] # {}
      BY <1>5, <2>7 DEF CollectionIds
    <3>2. w = 1
      BY <3>1, <1>7, <2>1, <2>2
    <3> QED  BY <3>2, <2>4, <2>5, <2>6, <1>5
  <2> QED  BY <2>6, <2>7 DEF result, CollectionIds
<1> QED  BY <1>8, <1>9

\* What a policy is filed in: nothing, or a collection that was resolved without an issue.
LEMMA Settled ==
    ASSUME NEW classifier, NEW answer, NEW alike, NEW read
    PROVE  LET filed == SettleCollectionClassification(classifier, answer, alike, read, Collections).filed
           IN \/ filed = "none"
              \/ /\ filed = ResolveCollection(answer.named, Collections)
                 /\ SettleExisting(classifier, answer, read, Collections) = {}
<1>1. CASE answer.decision = "existing"
  <2> DEFINE reasons == SettleExisting(classifier, answer, read, Collections)
             resolved == ResolveCollection(answer.named, Collections)
  <2>1. SettleCollectionClassification(classifier, answer, alike, read, Collections)
          = [reasons |-> reasons, nearest |-> "none", page |-> LocateQuote(answer, read),
             filed |-> IF reasons = {} THEN resolved ELSE "none"]
    BY <1>1, Zenon DEF SettleCollectionClassification
  <2> HIDE DEF reasons, resolved
  <2>2. SettleCollectionClassification(classifier, answer, alike, read, Collections).filed
          = IF reasons = {} THEN resolved ELSE "none"
    BY <2>1
  <2> QED  BY <2>2 DEF reasons, resolved
<1>2. CASE answer.decision # "existing"
  <2>1. SettleCollectionClassification(classifier, answer, alike, read, Collections).filed = "none"
    BY <1>2 DEF SettleCollectionClassification
  <2> QED  BY <2>1
<1> QED  BY <1>1, <1>2

\* An answer without an issue is quoted from a page and names the collection that leads.
LEMMA SettledOnEvidence ==
    ASSUME NEW classifier, NEW answer, NEW read,
           classifier = "lexical" => answer \in LexicalAnswers(read, Collections),
           SettleExisting(classifier, answer, read, Collections) = {}
    PROVE  /\ \E i \in DOMAIN read : QuoteIn(read[i], answer.quote)
           /\ ResolveCollection(answer.named, Collections) # "none"
           /\ \A i, k \in DOMAIN Collections :
                (Collections[i].id = ResolveCollection(answer.named, Collections) /\ i # k) =>
                  Hits(read, Collections[k]) < Hits(read, Collections[i])
<1> DEFINE picked == ResolveCollection(answer.named, Collections)
           first == Leader(read, Collections)
<1>1. /\ LocateQuote(answer, read) # 0 /\ picked # "none"
      /\ ~(answer.confidence < AutoFileConfidence)
      /\ IndependentReading(classifier, picked, read, Collections) = picked
  BY DEF SettleExisting
<1>2. \E i \in DOMAIN read : QuoteIn(read[i], answer.quote)
  BY <1>1 DEF LocateQuote
<1>3. Collections # <<>>
  <2>1. picked \in CollectionIds
    BY <1>1, Resolved
  <2> QED  BY <2>1 DEF CollectionIds
<1>4. first \in DOMAIN Collections
  BY <1>3, LeaderLeads
<1>5. picked = Collections[first].id /\ Hits(read, Collections[first]) > RunnerUp(read, Collections)
  <2>1. CASE classifier = "lexical"
    <3> DEFINE best == Hits(read, Collections[first])
    <3>1. /\ answer.named = Collections[first].id
          /\ answer.confidence = IF best > RunnerUp(read, Collections)
                                 THEN Min({1000, best * 250}) ELSE Min({500, best * 125})
      BY <2>1, <1>3 DEF LexicalAnswers
    <3>2. best \in Nat
      BY <1>4, HitsCounted
    <3>3. Min({500, best * 125}) \in Nat /\ Min({500, best * 125}) <= 500
      <4> HIDE DEF best
      <4>1. best * 125 \in Nat
        BY <3>2
      <4> QED  BY <4>1, LesserOfTwo
    <3>4. best > RunnerUp(read, Collections)
      <4> SUFFICES ASSUME ~(best > RunnerUp(read, Collections)) PROVE FALSE
        OBVIOUS
      <4>1. answer.confidence = Min({500, best * 125})
        BY <3>1
      <4> HIDE DEF best
      <4> QED  BY <4>1, <3>3, <1>1, ThresholdAssumption
    <3>5. Collections[first].id \in CollectionIds
      BY <1>4 DEF CollectionIds
    <3> QED  BY <3>1, <3>4, <3>5, Resolved
  <2>2. CASE classifier # "lexical"
    <3>1. LexicalCorroboration(read, Collections) = picked
      BY <2>2, <1>1 DEF IndependentReading
    <3> DEFINE best == Hits(read, Collections[first])
    <3>2. LexicalCorroboration(read, Collections)
            = IF Collections = <<>> \/ best < 2 \/ best <= RunnerUp(read, Collections)
              THEN "none" ELSE Collections[first].id
      BY Zenon DEF LexicalCorroboration
    <3>3. best \in Nat
      BY <1>4, HitsCounted
    <3>4. ~(best <= RunnerUp(read, Collections)) /\ picked = Collections[first].id
      BY <3>1, <3>2, <1>1
    <3>5. RunnerUp(read, Collections) \in Nat
      BY <1>3, LeaderLeads
    <3> QED  BY <3>3, <3>4, <3>5
  <2> QED  BY <2>1, <2>2
<1>6. \A i \in DOMAIN Collections : Collections[i].id = picked => i = first
  BY <1>4, <1>5, CollectionsAssumption
<1>7. \A k \in DOMAIN Collections : k # first => Hits(read, Collections[k]) < Hits(read, Collections[first])
  BY <1>3, <1>5, LeaderLeads
<1> HIDE DEF picked, first
<1> QED  BY <1>1, <1>2, <1>6, <1>7 DEF picked

-----------------------------------------------------------------------------
\* The pages are those of the document, the clauses are cut from them once the policy has a
\* collection, and the index keeps what it held.
PagesOK ==
  /\ IsList(pages) /\ \A i \in DOMAIN pages : IsRead(pages[i])
  /\ pages # <<>> => /\ DOMAIN pages = DOMAIN NativePages
                     /\ \A i \in DOMAIN pages : pages[i].page = NativePages[i].page

Cutting == {"rules", "fields", "recall", "under_review"}

ClausesOK ==
  /\ stage \in Cutting => chunks = ChunkPolicyPages(pages, ChunkSize[collection], Overlap)
  /\ stage \notin Cutting => chunks = <<>>

CollectionOK ==
  /\ stage \in {"text", "collection", "awaiting", "filed", "chunks", "failed"} \cup Cutting
  /\ collection \in CollectionIds \cup {"none"}
  /\ stage \in {"filed", "chunks"} \cup Cutting => collection # "none"
  /\ DOMAIN Indexed \subseteq DOMAIN index

\* The rule at hand is what the worker made of a draft, approved when it was proposed.
RuleOK ==
  Drafted =>
    LET made == PolicyProposal(work.draft, chunks, Uploader)
    IN /\ DOMAIN work = {"draft", "rule", "issues", "status", "by"}
       /\ work.draft \in Drafts
       /\ work.rule = made.rule
       /\ work.status = made.status \/ (made.status = "proposed" /\ work.status = "approved")

\* A policy that was filed without asking was filed on the answer at hand.
FiledOK ==
  stage = "filed" => \E classifier, answer :
    /\ classifier = "lexical" => answer \in LexicalAnswers(pages, Collections)
    /\ SettleExisting(classifier, answer, pages, Collections) = {}
    /\ collection = ResolveCollection(answer.named, Collections)
    /\ work.answer = answer

StagesInv == PagesOK /\ ClausesOK /\ CollectionOK /\ RuleOK /\ FiledOK /\ FieldsOK

LEMMA Settings ==
    ASSUME collection \in CollectionIds
    PROVE  ChunkSize[collection] \in Nat \ {0} /\ Overlap \in 0..(ChunkSize[collection] - 1)
<1>1. PICK i \in DOMAIN Collections : collection = Collections[i].id
  BY DEF CollectionIds
<1>2. ChunkSize[collection] \in Nat \ {0} /\ ChunkOverlap[collection] \in Nat
  BY <1>1, CollectionsAssumption
<1>3. ChunkSize[collection] - 1 \in Nat
  BY <1>2
<1>4. Overlap \in Nat /\ Overlap <= ChunkSize[collection] - 1
  BY <1>2, <1>3, LesserOfTwo DEF Overlap
<1> QED  BY <1>2, <1>4

LEMMA InitKeepsStages == ASSUME StagesInit PROVE StagesInv
<1>1. IsList(<<>>) /\ DOMAIN <<>> = {}
  BY DEF IsList
<1> QED  BY <1>1 DEF StagesInit, StagesInv, PagesOK, ClausesOK, CollectionOK, RuleOK, FiledOK,
                     FieldsOK, Drafted, Cutting

LEMMA PageRead ==
    ASSUME NEW i \in DOMAIN NativePages, NEW ocr \in OcrResults
    PROVE  IsRead(ExtractPage(NativePages[i], ocr)) /\ ExtractPage(NativePages[i], ocr).page = NativePages[i].page
BY TextAssumption DEF ExtractPage, IsRead

LEMMA TextKeepsPages == ASSUME ExtractPolicyPages PROVE PagesOK'
<1>1. PICK ocr \in [DOMAIN NativePages -> OcrResults] :
        pages' = [i \in DOMAIN NativePages |-> ExtractPage(NativePages[i], ocr[i])]
  BY DEF ExtractPolicyPages
<1>2. DOMAIN NativePages = 1..Len(NativePages) /\ Len(NativePages) \in Nat
  BY TextAssumption, ListItems
<1>3. DOMAIN pages' = DOMAIN NativePages
      /\ \A i \in DOMAIN pages' : pages'[i] = ExtractPage(NativePages[i], ocr[i]) /\ ocr[i] \in OcrResults
  BY <1>1
<1>4. IsList(pages')
  <2>1. pages' = [i \in 1..Len(NativePages) |-> pages'[i]]
    BY <1>1, <1>2
  <2> QED  BY <2>1, <1>2, ListMade
<1>5. \A i \in DOMAIN pages' : IsRead(pages'[i]) /\ pages'[i].page = NativePages[i].page
  BY <1>3, PageRead
<1>6. (IsList(pages))' /\ \A i \in DOMAIN pages' : (IsRead(pages[i]))'
  BY <1>4, <1>5 DEF IsList, IsRead
<1> QED  BY <1>3, <1>5, <1>6 DEF PagesOK

LEMMA PagesRest == ASSUME PagesOK, UNCHANGED pages PROVE PagesOK'
BY DEF PagesOK, IsRead, IsList

LEMMA StepKeepsPages == ASSUME PagesOK, [StagesNext]_stagesVars PROVE PagesOK'
<1>1. CASE ExtractPolicyPages
  BY <1>1, TextKeepsPages
<1>2. CASE ChooseCollection
  <2>1. IsList(<<>>) /\ DOMAIN <<>> = {} /\ pages' = <<>>
    BY <1>2 DEF IsList, ChooseCollection
  <2> QED  BY <2>1 DEF PagesOK, IsList
<1>3. CASE ~ExtractPolicyPages /\ ~ChooseCollection
  <2>1. UNCHANGED pages
    BY <1>3 DEF StagesNext, stagesVars, FilePolicy, ClassifierFails, ChunkPages, ProposeRule, ApproveRule,
                RulesDone, SyncIndex, ProposeField, FieldsDone
  <2> QED  BY <2>1, PagesRest
<1> QED  BY <1>1, <1>2, <1>3

LEMMA StepKeepsClauses == ASSUME ClausesOK, [StagesNext]_stagesVars PROVE ClausesOK'
<1>1. CASE ChunkPages
  <2>1. UNCHANGED <<pages, collection>> /\ stage' = "rules"
        /\ chunks' = ChunkPolicyPages(pages, ChunkSize[collection], Overlap)
    BY <1>1 DEF ChunkPages
  <2>2. Overlap' = Overlap
    BY <2>1 DEF Overlap
  <2> QED  BY <2>1, <2>2 DEF ClausesOK, Cutting, ChunkPolicyPages
<1>2. CASE ProposeRule \/ ApproveRule \/ RulesDone \/ SyncIndex \/ ProposeField \/ FieldsDone
  <2>1. UNCHANGED <<pages, collection, chunks>> /\ stage \in Cutting /\ stage' \in Cutting
    BY <1>2 DEF ProposeRule, ApproveRule, RulesDone, SyncIndex, ProposeField, FieldsDone, Cutting
  <2>2. Overlap' = Overlap
    BY <2>1 DEF Overlap
  <2> QED  BY <2>1, <2>2 DEF ClausesOK
<1>3. CASE ExtractPolicyPages \/ FilePolicy \/ ClassifierFails \/ ChooseCollection
  <2>1. chunks' = chunks /\ stage \notin Cutting /\ stage' \notin Cutting
    BY <1>3 DEF ExtractPolicyPages, FilePolicy, ClassifierFails, ChooseCollection, Cutting
  <2> QED  BY <2>1 DEF ClausesOK
<1>4. CASE UNCHANGED stagesVars
  <2>1. UNCHANGED <<stage, pages, collection, chunks>>
    BY <1>4 DEF stagesVars
  <2>2. Overlap' = Overlap
    BY <2>1 DEF Overlap
  <2> QED  BY <2>1, <2>2 DEF ClausesOK
<1> QED  BY <1>1, <1>2, <1>3, <1>4 DEF StagesNext

LEMMA Filed ==
    ASSUME FilePolicy
    PROVE  /\ stage' \in {"awaiting", "filed"} /\ FiledOK'
           /\ collection' \in CollectionIds \cup {"none"}
           /\ stage' = "filed" => collection' # "none"
<1>0. PICK classifier \in {"lexical", "model"}, alike \in CollectionIds \cup {"none"} :
        \E answer \in IF classifier = "lexical" THEN LexicalAnswers(pages, Collections) ELSE Answers :
          LET settled == SettleCollectionClassification(classifier, answer, alike, pages, Collections)
          IN /\ work' = [answer |-> answer, settled |-> settled]
             /\ collection' = settled.filed
             /\ stage' = IF settled.filed = "none" THEN "awaiting" ELSE "filed"
  BY Zenon DEF FilePolicy
<1>1. PICK answer \in IF classifier = "lexical" THEN LexicalAnswers(pages, Collections) ELSE Answers :
        LET settled == SettleCollectionClassification(classifier, answer, alike, pages, Collections)
        IN /\ work' = [answer |-> answer, settled |-> settled]
           /\ collection' = settled.filed
           /\ stage' = IF settled.filed = "none" THEN "awaiting" ELSE "filed"
  BY <1>0, Zenon
<1>2. classifier = "lexical" => answer \in LexicalAnswers(pages, Collections)
  BY <1>1
<1> DEFINE settled == SettleCollectionClassification(classifier, answer, alike, pages, Collections)
<1>3. work' = [answer |-> answer, settled |-> settled] /\ collection' = settled.filed
      /\ stage' = IF settled.filed = "none" THEN "awaiting" ELSE "filed"
  BY <1>1
<1>4. settled.filed = "none" \/
      (settled.filed = ResolveCollection(answer.named, Collections)
         /\ SettleExisting(classifier, answer, pages, Collections) = {})
  BY Settled, Zenon
<1> HIDE DEF settled
<1>5. collection' \in CollectionIds \cup {"none"} /\ (stage' = "filed" => collection' # "none")
  BY <1>3, <1>4, Resolved
<1>6. UNCHANGED pages
  BY DEF FilePolicy
<1>7. ASSUME stage' = "filed"
      PROVE  /\ SettleExisting(classifier, answer, pages, Collections) = {}
             /\ collection' = ResolveCollection(answer.named, Collections)
             /\ work'.answer = answer
  BY <1>3, <1>4, <1>7
<1>8. FiledOK'
  BY <1>2, <1>6, <1>7 DEF FiledOK
<1> QED  BY <1>3, <1>5, <1>8

LEMMA StepKeepsCollection == ASSUME CollectionOK, [StagesNext]_stagesVars PROVE CollectionOK'
<1>1. CASE FilePolicy
  <2>1. UNCHANGED index
    BY <1>1 DEF FilePolicy
  <2>2. /\ stage' \in {"awaiting", "filed"} /\ collection' \in CollectionIds \cup {"none"}
        /\ stage' = "filed" => collection' # "none"
    BY <1>1, Filed
  <2> QED  BY <2>1, <2>2 DEF CollectionOK, Cutting
<1>2. CASE SyncIndex
  <2>1. DOMAIN index \subseteq DOMAIN index'
    BY <1>2 DEF SyncIndex, SyncFieldEmbeddingIndex
  <2> QED  BY <1>2, <2>1 DEF SyncIndex, CollectionOK, Cutting
<1>3. CASE ChooseCollection
  <2>1. "none" \notin CollectionIds
    BY CollectionsAssumption DEF CollectionIds
  <2> QED  BY <1>3, <2>1 DEF ChooseCollection, CollectionOK, Cutting
<1>4. CASE ExtractPolicyPages
  BY <1>4 DEF ExtractPolicyPages, CollectionOK, Cutting
<1>5. CASE ClassifierFails
  BY <1>5 DEF ClassifierFails, CollectionOK, Cutting
<1>6. CASE ChunkPages
  BY <1>6 DEF ChunkPages, CollectionOK, Cutting
<1>7. CASE ProposeRule \/ ApproveRule \/ RulesDone \/ ProposeField \/ FieldsDone
  <2>1. UNCHANGED <<collection, index>> /\ stage \in Cutting /\ stage' \in Cutting
    BY <1>7 DEF ProposeRule, ApproveRule, RulesDone, ProposeField, FieldsDone, Cutting
  <2> QED  BY <2>1 DEF CollectionOK
<1>8. CASE UNCHANGED stagesVars
  BY <1>8 DEF stagesVars, CollectionOK
<1> QED  BY <1>1, <1>2, <1>3, <1>4, <1>5, <1>6, <1>7, <1>8 DEF StagesNext

LEMMA StepKeepsFiled == ASSUME FiledOK, [StagesNext]_stagesVars PROVE FiledOK'
<1>1. CASE FilePolicy
  BY <1>1, Filed
<1>2. CASE StagesNext /\ ~FilePolicy
  <2>1. stage' # "filed"
    BY <1>2 DEF StagesNext, ExtractPolicyPages, ClassifierFails, ChooseCollection, ChunkPages,
                ProposeRule, ApproveRule, RulesDone, SyncIndex, ProposeField, FieldsDone
  <2> QED  BY <2>1 DEF FiledOK
<1>3. CASE UNCHANGED stagesVars
  BY <1>3 DEF stagesVars, FiledOK
<1> QED  BY <1>1, <1>2, <1>3

LEMMA StepKeepsRule == ASSUME RuleOK, [StagesNext]_stagesVars PROVE RuleOK'
<1>1. CASE ProposeRule
  <2>1. PICK draft \in Drafts :
          LET made == PolicyProposal(draft, chunks, Uploader)
          IN work' = [draft |-> draft, rule |-> made.rule, issues |-> made.issues,
                      status |-> made.status, by |-> NoApprover]
    BY <1>1 DEF ProposeRule
  <2> DEFINE made == PolicyProposal(draft, chunks, Uploader)
  <2> HIDE DEF made
  <2>2. work' = [draft |-> draft, rule |-> made.rule, issues |-> made.issues,
                 status |-> made.status, by |-> NoApprover]
    BY <2>1 DEF made
  <2>3. /\ DOMAIN work' = {"draft", "rule", "issues", "status", "by"} /\ work'.draft = draft
        /\ work'.rule = made.rule /\ work'.status = made.status
    BY <2>2
  <2>4. UNCHANGED chunks
    BY <1>1 DEF ProposeRule
  <2>5. PolicyProposal(work'.draft, chunks', Uploader) = made
    BY <2>3, <2>4 DEF made
  <2> QED  BY <2>3, <2>4, <2>5 DEF RuleOK, made
<1>2. CASE ApproveRule
  <2>1. PICK admin : work' = [work EXCEPT !.status = "approved", !.by = admin]
    BY <1>2 DEF ApproveRule
  <2>2. Drafted /\ work.status = "proposed" /\ UNCHANGED chunks
    BY <1>2 DEF ApproveRule, Drafted
  <2> DEFINE made == PolicyProposal(work.draft, chunks, Uploader)
  <2> HIDE DEF made
  <2>3. /\ DOMAIN work = {"draft", "rule", "issues", "status", "by"} /\ work.draft \in Drafts
        /\ work.rule = made.rule /\ made.status = "proposed"
    BY <2>2 DEF RuleOK, made
  <2>4. /\ DOMAIN work' = {"draft", "rule", "issues", "status", "by"} /\ work'.draft = work.draft
        /\ work'.rule = work.rule /\ work'.status = "approved"
    BY <2>1, <2>3
  <2>5. PolicyProposal(work'.draft, chunks', Uploader) = made
    BY <2>4, <2>2 DEF made
  <2> QED  BY <2>3, <2>4, <2>5 DEF RuleOK
<1>3. CASE StagesNext /\ ~ProposeRule /\ ~ApproveRule
  <2>1. stage' # "rules" \/ work' = Nothing
    BY <1>3 DEF StagesNext, ExtractPolicyPages, FilePolicy, ClassifierFails, ChooseCollection,
                ChunkPages, RulesDone, SyncIndex, ProposeField, FieldsDone
  <2>2. ~Drafted'
    BY <2>1 DEF Drafted, Nothing
  <2> QED  BY <2>2 DEF RuleOK
<1>4. CASE UNCHANGED stagesVars
  <2>1. UNCHANGED <<stage, work, chunks>>
    BY <1>4 DEF stagesVars
  <2> QED  BY <2>1 DEF RuleOK, Drafted, Nothing
<1> QED  BY <1>1, <1>2, <1>3, <1>4

LEMMA StagesInvHolds == StagesSpec => []StagesInv
<1>1. StagesInit => StagesInv
  BY InitKeepsStages
<1>2. StagesInv /\ [StagesNext]_stagesVars => StagesInv'
  BY StepKeepsPages, StepKeepsClauses, StepKeepsCollection, StepKeepsRule, StepKeepsFiled,
     StepKeepsFields DEF StagesInv
<1> QED  BY <1>1, <1>2, PTL DEF StagesSpec

\* The clauses of a policy, cut by the settings of its collection.
LEMMA Clauses ==
    ASSUME StagesInv, stage \in Cutting
    PROVE  /\ IsList(chunks)
           /\ \A n \in DOMAIN chunks :
                   /\ DOMAIN chunks[n] = {"id", "page", "content"} /\ chunks[n].id = n
                   /\ \E p \in DOMAIN pages : \E i, from, to :
                        /\ Passage(pages[p], i, from, to) /\ chunks[n].page = pages[p].page
                        /\ chunks[n].content = Cut(pages[p], i, from, to)
           /\ \A p \in DOMAIN pages : \A i, from, to :
                   Passage(pages[p], i, from, to) /\ to <= from + Overlap =>
                     \E n \in DOMAIN chunks :
                       /\ chunks[n].page = pages[p].page
                       /\ Includes(chunks[n].content, Cut(pages[p], i, from, to))
<1>1. collection \in CollectionIds
  BY DEF StagesInv, CollectionOK
<1>2. ChunkSize[collection] \in Nat \ {0} /\ Overlap \in 0..(ChunkSize[collection] - 1)
  BY <1>1, Settings
<1>3. chunks = ChunkPolicyPages(pages, ChunkSize[collection], Overlap)
  BY DEF StagesInv, ClausesOK
<1>4. IsList(pages) /\ \A i \in DOMAIN pages : IsRead(pages[i])
  BY DEF StagesInv, PagesOK
<1> QED  BY <1>2, <1>3, <1>4, ChunksOfPages

LEMMA PassageHasWords ==
    ASSUME NEW page, IsRead(page), NEW i, NEW from, NEW to, Passage(page, i, from, to)
    PROVE  Cut(page, i, from, to) # <<>>
<1>1. IsList(page.paragraphs[i])
  BY DEF IsRead, Passage
<1>2. DOMAIN page.paragraphs[i] = 1..Len(page.paragraphs[i]) /\ Len(page.paragraphs[i]) \in Nat
  BY <1>1, ListItems
<1>3. from \in 1..Len(page.paragraphs[i]) /\ to \in 1..Len(page.paragraphs[i]) /\ from <= to
  BY <1>2 DEF Passage
<1>4. Len(Cut(page, i, from, to)) = to - from + 1
  BY <1>1, <1>2, <1>3, PartOf DEF Cut
<1> QED  BY <1>3, <1>4

LEMMA StagesTyped == ASSUME StagesInv PROVE StagesTypeOK
<1>1. Drafted => work.status \in {"proposed", "invalid", "approved"}
  BY DEF StagesInv, RuleOK, PolicyProposal
<1>2. ASSUME NEW n \in DOMAIN chunks PROVE chunks[n].id = n /\ IsClause(chunks[n])
  <2>1. stage \in Cutting
    <3>1. chunks # <<>>
      BY <1>2
    <3> QED  BY <3>1 DEF StagesInv, ClausesOK
  <2>2. DOMAIN chunks[n] = {"id", "page", "content"} /\ chunks[n].id = n
    BY <2>1, Clauses
  <2>3. PICK p \in DOMAIN pages : \E i, from, to :
                        /\ Passage(pages[p], i, from, to) /\ chunks[n].page = pages[p].page
                        /\ chunks[n].content = Cut(pages[p], i, from, to)
    BY <2>1, Clauses
  <2>4. PICK i, from, to : /\ Passage(pages[p], i, from, to) /\ chunks[n].page = pages[p].page
                           /\ chunks[n].content = Cut(pages[p], i, from, to)
    BY <2>3
  <2>5. IsRead(pages[p]) /\ pages[p].page \in PageNumbers
    <3>1. pages # <<>>
      OBVIOUS
    <3> QED  BY <3>1 DEF StagesInv, PagesOK, PageNumbers
  <2> QED  BY <2>2, <2>4, <2>5, PassageHasWords DEF IsClause
<1>3. /\ stage \in {"text", "collection", "awaiting", "filed", "chunks", "rules", "fields", "recall",
                    "under_review", "failed"}
      /\ collection \in CollectionIds \cup {"none"}
      /\ stage \in {"filed", "chunks", "rules", "fields", "recall", "under_review"} => collection # "none"
      /\ DOMAIN Indexed \subseteq DOMAIN index
  BY DEF StagesInv, CollectionOK, Cutting
<1>4. pages # <<>> => /\ DOMAIN pages = DOMAIN NativePages
                      /\ \A i \in DOMAIN pages : pages[i].page = NativePages[i].page
  BY DEF StagesInv, PagesOK
<1> QED  BY <1>1, <1>2, <1>3, <1>4 DEF StagesTypeOK

LEMMA QuotesSurvive == ASSUME StagesInv PROVE ShortQuotesSurvive
<1> SUFFICES ASSUME stage = "rules", NEW p \in DOMAIN pages, NEW k \in DOMAIN pages[p].paragraphs,
                    NEW from \in DOMAIN pages[p].paragraphs[k],
                    NEW to \in from..Min({Len(pages[p].paragraphs[k]), from + Overlap})
             PROVE  \E c \in DOMAIN chunks :
                      /\ chunks[c].page = pages[p].page
                      /\ Includes(chunks[c].content, SubSeq(pages[p].paragraphs[k], from, to))
  BY Zenon DEF ShortQuotesSurvive
<1> DEFINE words == pages[p].paragraphs[k]
<1>1. IsList(words)
  BY DEF StagesInv, PagesOK, IsRead
<1>2. DOMAIN words = 1..Len(words) /\ Len(words) \in Nat
  BY <1>1, ListItems
<1>3. collection \in CollectionIds
  BY DEF StagesInv, CollectionOK, Cutting
<1>4. Overlap \in Nat
  BY <1>3, Settings
<1> HIDE DEF words
<1>5. from \in 1..Len(words)
  BY <1>2 DEF words
<1>6. Min({Len(words), from + Overlap}) <= Len(words) /\ Min({Len(words), from + Overlap}) <= from + Overlap
      /\ Min({Len(words), from + Overlap}) \in Nat
  BY <1>2, <1>4, <1>5, LesserOfTwo
<1>7. to \in from..Min({Len(words), from + Overlap})
  BY DEF words
<1>8. to \in 1..Len(words) /\ from <= to /\ to <= from + Overlap
  BY <1>2, <1>4, <1>5, <1>6, <1>7
<1>9. Passage(pages[p], k, from, to)
  BY <1>2, <1>5, <1>8 DEF Passage, words
<1>10. \E n \in DOMAIN chunks : /\ chunks[n].page = pages[p].page
                                /\ Includes(chunks[n].content, Cut(pages[p], k, from, to))
  BY <1>8, <1>9, Clauses DEF Cutting
<1> QED  BY <1>10 DEF Cut

\* The clauses keep every short quote, and a policy is filed without asking only in the
\* collection that shares the most words with it, on a quotation of one of its pages.
THEOREM EvidenceStays == StagesSpec => []EvidenceIsKept
<1>1. StagesInv => FiledOnEvidence
  BY SettledOnEvidence, Zenon DEF StagesInv, FiledOK, FiledOnEvidence
<1>2. StagesInv => EvidenceIsKept
  BY <1>1, StagesTyped, QuotesSurvive DEF EvidenceIsKept
<1> QED  BY <1>2, StagesInvHolds, PTL

-----------------------------------------------------------------------------
\* The items of a stretch of a list, counted from the place before it.
LEMMA PartAfter ==
    ASSUME NEW s, IsList(s), NEW j \in Nat, NEW n \in Nat \ {0}, j + n <= Len(s)
    PROVE  /\ IsList(SubSeq(s, j + 1, j + n)) /\ Len(SubSeq(s, j + 1, j + n)) = n
           /\ \A k \in 1..n : SubSeq(s, j + 1, j + n)[k] = s[j + k]
<1>1. PICK a \in Nat \ {0} : a = j + 1
  OBVIOUS
<1>2. PICK b \in Nat : b = j + n
  OBVIOUS
<1>3. a <= b /\ b <= Len(s) /\ b - a + 1 = n
  BY <1>1, <1>2
<1>4. /\ IsList(SubSeq(s, a, b)) /\ Len(SubSeq(s, a, b)) = n
      /\ \A k \in 1..n : SubSeq(s, a, b)[k] = s[a + k - 1]
  BY <1>3, PartOf
<1>5. \A k \in 1..n : a + k - 1 = j + k
  BY <1>1
<1>6. \A k \in 1..n : SubSeq(s, a, b)[k] = s[j + k]
  BY <1>4, <1>5
<1> QED  BY <1>1, <1>2, <1>4, <1>6

\* What is part of a passage stands on its page.
LEMMA QuoteOnPage ==
    ASSUME NEW page, IsRead(page), NEW i, NEW from, NEW to, Passage(page, i, from, to),
           NEW quote, IsList(quote), quote # <<>>, Includes(Cut(page, i, from, to), quote)
    PROVE  QuoteIn(page, quote)
<1> DEFINE words == PageWords(page)
           par == page.paragraphs[i]
           content == Cut(page, i, from, to)
<1>1. IsList(page.paragraphs) /\ i \in DOMAIN page.paragraphs /\ IsList(par)
      /\ \A k \in DOMAIN page.paragraphs : IsList(page.paragraphs[k])
  BY DEF IsRead, Passage
<1>2. DOMAIN par = 1..Len(par) /\ Len(par) \in Nat
  BY <1>1, ListItems
<1>3. from \in 1..Len(par) /\ to \in 1..Len(par) /\ from <= to
  BY <1>2 DEF Passage
<1>4. IsList(words)
  BY <1>1, FlatList DEF PageWords
<1>5. PICK start \in Nat : /\ start + Len(par) <= Len(words)
                           /\ \A k \in 1..Len(par) : words[start + k] = par[k]
  BY <1>1, FlatList DEF PageWords
<1> HIDE DEF words, par
<1>6. /\ content = SubSeq(par, from, to) /\ IsList(content) /\ Len(content) = to - from + 1
      /\ \A k \in 1..(to - from + 1) : content[k] = par[from + k - 1]
  <2>1. content = SubSeq(par, from, to)
    BY DEF Cut, par
  <2> HIDE DEF content
  <2> QED  BY <2>1, <1>1, <1>3, PartOf
<1> HIDE DEF content
<1>7. PICK j \in 0..(Len(content) - Len(quote)) : SubSeq(content, j + 1, j + Len(quote)) = quote
  BY DEF Includes, content
<1> DEFINE n == Len(quote)
<1>8. n \in Nat \ {0} /\ DOMAIN quote = 1..n /\ quote \in Seq(ToSet(quote))
  BY ListItems
<1> HIDE DEF n
<1>9. j \in Nat /\ j + n <= to - from + 1
  BY <1>3, <1>6, <1>7, <1>8 DEF n
<1>10. \A k \in 1..n : quote[k] = content[j + k]
  <2>1. \A k \in 1..n : SubSeq(content, j + 1, j + n)[k] = content[j + k]
    BY <1>3, <1>6, <1>8, <1>9, PartAfter
  <2>2. SubSeq(content, j + 1, j + n) = quote
    BY <1>7 DEF n
  <2> QED  BY <2>1, <2>2
<1> DEFINE at == start + from - 1 + j
<1>11. at \in Nat /\ at + n <= Len(words) /\ Len(words) \in Nat
  BY <1>3, <1>4, <1>5, <1>8, <1>9, ListItems
<1>12. \A k \in 1..n : words[at + k] = quote[k]
  <2> SUFFICES ASSUME NEW k \in 1..n PROVE words[at + k] = quote[k]
    OBVIOUS
  <2>1. j + k \in 1..(to - from + 1) /\ from + (j + k) - 1 \in 1..Len(par)
    BY <1>3, <1>8, <1>9
  <2>2. content[j + k] = par[from + (j + k) - 1]
    BY <2>1, <1>6
  <2>3. words[start + (from + (j + k) - 1)] = par[from + (j + k) - 1]
    BY <2>1, <1>5
  <2>4. start + (from + (j + k) - 1) = at + k
    BY <1>3, <1>8, <1>9
  <2> HIDE DEF at
  <2> QED  BY <2>2, <2>3, <2>4, <1>10
<1> HIDE DEF at
<1>13. SubSeq(words, at + 1, at + n) = quote
  <2> DEFINE u == SubSeq(words, at + 1, at + n)
  <2>1. IsList(u) /\ Len(u) = n /\ \A k \in 1..n : u[k] = words[at + k]
    BY <1>4, <1>8, <1>11, PartAfter
  <2> HIDE DEF u
  <2>3. Len(u) = n /\ \A k \in 1..n : u[k] = quote[k]
    BY <2>1, <1>12
  <2>4. u \in Seq(ToSet(u))
    BY <2>1, ListItems
  <2>5. u = quote
    BY <2>3, <2>4, <1>8
  <2> QED  BY <2>5 DEF u
<1>14. at \in 0..(Len(words) - n)
  BY <1>8, <1>11
<1> QED  BY <1>13, <1>14 DEF QuoteIn, words, n

\* Looking a citation up in another chunk leaves its page and its quote.
LEMMA Relocated ==
    ASSUME NEW citation, DOMAIN citation = {"chunk", "page", "quote"}, NEW clauses
    PROVE  /\ DOMAIN Relocate(citation, clauses) = {"chunk", "page", "quote"}
           /\ Relocate(citation, clauses).page = citation.page
           /\ Relocate(citation, clauses).quote = citation.quote
<1>1. \/ Relocate(citation, clauses) = citation
      \/ \E k : Relocate(citation, clauses) = [citation EXCEPT !.chunk = clauses[k].id]
  BY Zenon DEF Relocate
<1> QED  BY <1>1

\* Nothing in a union is nothing in any of its parts.
LEMMA EmptyParts ==
    ASSUME NEW A, NEW B, NEW C, NEW D, NEW E, A \cup B \cup C \cup D \cup E = {}
    PROVE  A = {} /\ B = {} /\ C = {} /\ D = {} /\ E = {}
OBVIOUS

\* A rule in review is what the worker made of a draft without finding an issue.
LEMMA ReviewedRule ==
    ASSUME StagesInv, RuleReviewable
    PROVE  /\ work.draft \in Drafts
           /\ DOMAIN work.rule = {"when", "citations", "tests"}
           /\ work.rule.when = NormalizePolicyCondition(work.draft.when, work.rule.citations)
           /\ work.rule.tests = BuildCanonicalRuleTests(work.rule.when)
           /\ DOMAIN work.rule.citations = DOMAIN work.draft.citations
           /\ IsList(work.rule.citations)
           /\ \A i \in DOMAIN work.rule.citations : IsList(work.rule.citations[i].quote)
           /\ \A p \in Predicates(work.rule.when) : PredicateIssue(p) = {}
           /\ MissingTests(work.rule.tests) = {}
           /\ NumericRequirementCovered(work.rule.when, work.rule.citations)
           /\ \A i \in DOMAIN work.rule.citations : CitationHolds(work.rule.citations[i], chunks)
           /\ ConditionGrounding(work.rule.when, work.rule.citations) = {}
<1> DEFINE draft == work.draft
           citations == [i \in DOMAIN draft.citations |-> Relocate(draft.citations[i], chunks)]
           when == NormalizePolicyCondition(draft.when, citations)
           rule == [when |-> when, citations |-> citations, tests |-> BuildCanonicalRuleTests(when)]
           issues == ValidateRuleProposal(rule, Uploader, NoApprover, FALSE)
                \cup {x \in {"numeric_requirement_missing"} : ~NumericRequirementCovered(when, citations)}
                \cup {x \in {"invalid_citation"} :
                        \E i \in DOMAIN citations : ~CitationHolds(citations[i], chunks)}
                \cup ConditionGrounding(when, citations)
           made == PolicyProposal(draft, chunks, Uploader)
<1>1. made = [rule |-> rule, issues |-> issues, status |-> IF issues = {} THEN "proposed" ELSE "invalid"]
  BY Zenon DEF PolicyProposal
<1>2. draft \in Drafts /\ work.rule = made.rule /\ made.status = "proposed"
  BY DEF StagesInv, RuleOK, RuleReviewable, PolicyProposal
<1> HIDE DEF made
<1>3. work.rule = rule /\ issues = {}
  <2> HIDE DEF rule, issues
  <2> QED  BY <1>1, <1>2
<1>4. DOMAIN rule = {"when", "citations", "tests"} /\ rule.when = when /\ rule.citations = citations
      /\ rule.tests = BuildCanonicalRuleTests(when)
  OBVIOUS
<1>5. ValidateRuleProposal(rule, Uploader, NoApprover, FALSE) = {}
      /\ NumericRequirementCovered(when, citations)
      /\ (\A i \in DOMAIN citations : CitationHolds(citations[i], chunks))
      /\ ConditionGrounding(when, citations) = {}
  <2> HIDE DEF rule, citations, when
  <2> QED  BY <1>3
<1>6. (\A p \in Predicates(rule.when) : PredicateIssue(p) = {}) /\ MissingTests(rule.tests) = {}
  <2> HIDE DEF rule
  <2> DEFINE unfit == UNION {PredicateIssue(p) : p \in Predicates(rule.when)}
             cited == {x \in {"citation_required"} : rule.citations = <<>>}
             untested == {x \in {"test_required"} : MissingTests(rule.tests) # {}}
             unequal == {x \in {"test_mismatch"} : ~TestsHold(rule.when, rule.tests)}
             own == {x \in {"self_approval_forbidden"} : Uploader = NoApprover /\ ~FALSE}
  <2>1. unfit \cup cited \cup untested \cup unequal \cup own = {}
    BY Zenon, <1>5 DEF ValidateRuleProposal
  <2> HIDE DEF unfit, cited, untested, unequal, own
  <2>2. unfit = {} /\ untested = {}
    BY <2>1, EmptyParts
  <2>3. \A p \in Predicates(rule.when) : PredicateIssue(p) \subseteq unfit
    BY Zenon DEF unfit
  <2>4. "test_required" \notin untested
    BY <2>2
  <2>5. MissingTests(rule.tests) = {}
    BY Zenon, <2>4 DEF untested
  <2> QED  BY <2>2, <2>3, <2>5
<1>7. /\ IsList(draft.citations)
      /\ \A i \in DOMAIN draft.citations : /\ DOMAIN draft.citations[i] = {"chunk", "page", "quote"}
                                           /\ IsList(draft.citations[i].quote)
  BY <1>2, DraftsAssumption
<1>8. DOMAIN citations = DOMAIN draft.citations /\ IsList(citations)
  <2>1. DOMAIN draft.citations = 1..Len(draft.citations) /\ Len(draft.citations) \in Nat
    BY <1>7, ListItems
  <2>2. citations = [i \in 1..Len(draft.citations) |-> citations[i]]
        /\ DOMAIN citations = DOMAIN draft.citations
    BY <2>1
  <2> HIDE DEF citations
  <2> QED  BY <2>1, <2>2, ListMade
<1>9. \A i \in DOMAIN citations : IsList(citations[i].quote)
  <2> SUFFICES ASSUME NEW i \in DOMAIN draft.citations
               PROVE  IsList(Relocate(draft.citations[i], chunks).quote)
    OBVIOUS
  <2>1. Relocate(draft.citations[i], chunks).quote = draft.citations[i].quote
    BY <1>7, Relocated
  <2> QED  BY <2>1, <1>7
<1> HIDE DEF rule, citations, issues, draft
<1> DEFINE c == citations
<1>10. /\ work.rule.citations = citations
       /\ work.rule.when = NormalizePolicyCondition(draft.when, citations)
       /\ work.rule.when = when
       /\ work.rule.tests = BuildCanonicalRuleTests(when)
  BY <1>3, <1>4
<1> HIDE DEF when
<1>11. /\ work.rule.when = NormalizePolicyCondition(work.draft.when, work.rule.citations)
       /\ work.rule.tests = BuildCanonicalRuleTests(work.rule.when)
  BY <1>10 DEF draft
<1>12. work.draft \in Drafts /\ DOMAIN work.rule = {"when", "citations", "tests"}
       /\ DOMAIN work.rule.citations = DOMAIN work.draft.citations
       /\ IsList(work.rule.citations)
       /\ \A i \in DOMAIN work.rule.citations : IsList(work.rule.citations[i].quote)
  BY <1>2, <1>3, <1>4, <1>8, <1>9, <1>10 DEF draft
<1>13. /\ \A p \in Predicates(work.rule.when) : PredicateIssue(p) = {}
       /\ MissingTests(work.rule.tests) = {}
       /\ NumericRequirementCovered(work.rule.when, work.rule.citations)
       /\ \A i \in DOMAIN work.rule.citations : CitationHolds(work.rule.citations[i], chunks)
       /\ ConditionGrounding(work.rule.when, work.rule.citations) = {}
  BY <1>3, <1>4, <1>5, <1>6, <1>10
<1> QED  BY <1>11, <1>12, <1>13

LEMMA KnownPath == ASSUME NEW p, PredicateIssue(p) = {} PROVE p.path \in DOMAIN Facts
BY DEF PredicateIssue

LEMMA RulesAreCited == ASSUME StagesInv PROVE ReviewableRulesAreCited
<1> SUFFICES ASSUME RuleReviewable
             PROVE  /\ \A i \in DOMAIN work.rule.citations :
                         \E k \in DOMAIN pages : /\ pages[k].page = work.rule.citations[i].page
                                                 /\ QuoteIn(pages[k], work.rule.citations[i].quote)
                    /\ \A p \in Predicates(work.rule.when) :
                         Facts[p.path].terms \cap Quoted(work.rule.citations) # {}
  BY DEF ReviewableRulesAreCited
<1>1. ASSUME NEW i \in DOMAIN work.rule.citations
      PROVE  \E k \in DOMAIN pages : /\ pages[k].page = work.rule.citations[i].page
                                     /\ QuoteIn(pages[k], work.rule.citations[i].quote)
  <2> DEFINE citation == work.rule.citations[i]
  <2>1. CitationHolds(citation, chunks) /\ IsList(citation.quote)
    BY ReviewedRule
  <2> HIDE DEF citation
  <2>2. PICK n \in DOMAIN chunks : /\ chunks[n].page = citation.page
                                   /\ ContainsQuote(chunks[n].content, citation.quote)
    BY <2>1 DEF CitationHolds
  <2>3. stage \in Cutting
    BY DEF RuleReviewable, Drafted, Cutting
  <2>4. PICK p \in DOMAIN pages : \E m, from, to :
                        /\ Passage(pages[p], m, from, to) /\ chunks[n].page = pages[p].page
                        /\ chunks[n].content = Cut(pages[p], m, from, to)
    BY <2>3, Clauses
  <2>5. PICK m, from, to : /\ Passage(pages[p], m, from, to) /\ chunks[n].page = pages[p].page
                           /\ chunks[n].content = Cut(pages[p], m, from, to)
    BY <2>4
  <2>6. IsRead(pages[p])
    BY DEF StagesInv, PagesOK
  <2>7. citation.quote # <<>> /\ Includes(Cut(pages[p], m, from, to), citation.quote)
    BY <2>2, <2>5 DEF ContainsQuote
  <2>8. QuoteIn(pages[p], citation.quote)
    BY <2>1, <2>5, <2>6, <2>7, QuoteOnPage
  <2> QED  BY <2>2, <2>5, <2>8 DEF citation
<1>2. ASSUME NEW p \in Predicates(work.rule.when)
      PROVE  Facts[p.path].terms \cap Quoted(work.rule.citations) # {}
  <2>1. p.path \in DOMAIN Facts
    BY ReviewedRule, KnownPath
  <2>2. ConditionGrounding(work.rule.when, work.rule.citations) = {}
    BY ReviewedRule
  <2> QED  BY <2>1, <2>2 DEF ConditionGrounding
<1> QED  BY <1>1, <1>2

-----------------------------------------------------------------------------
\* The shape of a condition: its nodes stand after their parts, the first is a predicate.
LEMMA Nodes ==
    ASSUME NEW c, IsCondition(c)
    PROVE  /\ Len(c) \in Nat \ {0} /\ DOMAIN c = 1..Len(c)
           /\ \A i \in 1..Len(c) :
                /\ c[i].op \in Combinators =>
                     /\ c[i].of # {} /\ c[i].of \subseteq 1..(i - 1) /\ c[i].of \subseteq 1..Len(c)
                     /\ DOMAIN c[i] = {"op", "of"}
                     /\ c[i].op = "not" => \E k \in c[i].of : c[i].of = {k}
                /\ c[i].op \notin Combinators => IsPredicate(c[i]) /\ c[i].op \in Operators
                /\ c[i].op \in Combinators \/ c[i].op \in Operators
           /\ 1 \in Leaves(c) /\ Leaves(c) \subseteq 1..Len(c)
<1> DEFINE N == Len(c)
<1>1. DOMAIN c = 1..N /\ N \in Nat /\ c # <<>>
  BY ListItems DEF IsCondition
<1>2. N # 0
  BY <1>1, ListItems DEF IsCondition
<1> HIDE DEF N
<1>3. ASSUME NEW i \in 1..N
      PROVE  /\ c[i].op \in Combinators =>
                  /\ c[i].of # {} /\ c[i].of \subseteq 1..(i - 1)
                  /\ DOMAIN c[i] = {"op", "of"}
                  /\ c[i].op = "not" => Cardinality(c[i].of) = 1
             /\ c[i].op \notin Combinators => IsPredicate(c[i]) /\ c[i].op \in Operators
             /\ c[i].op \in Combinators \/ c[i].op \in Operators
  <2>1. \/ IsPredicate(c[i])
        \/ /\ DOMAIN c[i] = {"op", "of"} /\ c[i].op \in Combinators
           /\ c[i].of # {} /\ c[i].of \subseteq 1..(i - 1)
           /\ c[i].op = "not" => Cardinality(c[i].of) = 1
    BY <1>1, <1>3 DEF IsCondition
  <2>2. IsPredicate(c[i]) => c[i].op \in Operators
    BY DEF IsPredicate
  <2>3. Operators \cap Combinators = {}
    BY DEF Operators, Combinators
  <2> QED  BY <2>1, <2>2, <2>3
<1>4. ASSUME NEW i \in 1..N, c[i].op \in Combinators
      PROVE  c[i].of \subseteq 1..N /\ (c[i].op = "not" => \E k \in c[i].of : c[i].of = {k})
  <2>1. c[i].of \subseteq 1..(i - 1) /\ i \in 1..N
    BY <1>3, <1>4
  <2>2. c[i].of \subseteq 1..N
    BY <2>1, <1>1
  <2>3. IsFiniteSet(1..N)
    BY <1>1, FS_Interval
  <2>4. IsFiniteSet(c[i].of)
    BY <2>2, <2>3, FS_Subset
  <2>5. c[i].op = "not" => Cardinality(c[i].of) = 1
    BY <1>3, <1>4
  <2>6. Cardinality(c[i].of) = 1 => \E k : c[i].of = {k}
    BY <2>4, FS_Singleton
  <2> QED  BY <2>2, <2>5, <2>6
<1>5. 1 \in 1..N /\ c[1].op \notin Combinators
  <2>1. 1 \in 1..N /\ 1..(1 - 1) = {}
    BY <1>1, <1>2
  <2> QED  BY <2>1, <1>3
<1> QED  BY <1>1, <1>2, <1>3, <1>4, <1>5 DEF Leaves, N

LEMMA SatisfiesTyped == ASSUME NEW v, NEW p, IsPredicate(p) PROVE Satisfies(v, p) \in BOOLEAN
<1>1. p.op \in Operators
  BY DEF IsPredicate
<1>2. ASSUME p.op = "exists" PROVE p.value[2] \in BOOLEAN
  <2>1. p.value = <<"bool", TRUE>> \/ p.value = <<"bool", FALSE>>
    <3>1. p.value \in {Bool(TRUE), Bool(FALSE)}
      BY <1>2 DEF IsPredicate
    <3> QED  BY Zenon, <3>1 DEF Bool
  <2>2. <<"bool", TRUE>>[2] = TRUE /\ <<"bool", FALSE>>[2] = FALSE
    OBVIOUS
  <2> QED  BY Zenon, <2>1, <2>2
<1> QED  BY <1>1, <1>2 DEF Satisfies, Operators, Contains, Includes

\* What a node says of its parts, h telling which of them hold.
NodeHolds(c, input, i, h) ==
  CASE c[i].op = "all" -> \A k \in c[i].of : h[k]
    [] c[i].op = "any" -> \E k \in c[i].of : h[k]
    [] c[i].op = "not" -> \A k \in c[i].of : ~h[k]
    [] OTHER -> Satisfies(ResolvePath(input, c[i].path), c[i])

LEMMA NodeHoldsTyped ==
    ASSUME NEW c, IsCondition(c), NEW input, NEW i \in 1..Len(c), NEW h
    PROVE  NodeHolds(c, input, i, h) \in BOOLEAN
<1>1. c[i].op \notin Combinators =>
        NodeHolds(c, input, i, h) = Satisfies(ResolvePath(input, c[i].path), c[i])
  BY DEF NodeHolds, Combinators
<1>2. c[i].op \notin Combinators => NodeHolds(c, input, i, h) \in BOOLEAN
  BY <1>1, Nodes, SatisfiesTyped
<1>3. c[i].op \in Combinators => NodeHolds(c, input, i, h) \in BOOLEAN
  BY DEF NodeHolds, Combinators
<1> QED  BY <1>2, <1>3

\* Only the parts matter.
LEMMA NodeHoldsSame ==
    ASSUME NEW c, IsCondition(c), NEW x, NEW y, NEW i \in 1..Len(c), NEW h, NEW g,
           c[i].op \in Combinators => \A k \in c[i].of : h[k] = g[k],
           c[i].op \notin Combinators => ResolvePath(x, c[i].path) = ResolvePath(y, c[i].path)
    PROVE  NodeHolds(c, x, i, h) = NodeHolds(c, y, i, g)
<1>1. CASE c[i].op \notin Combinators
  <2>1. /\ NodeHolds(c, x, i, h) = Satisfies(ResolvePath(x, c[i].path), c[i])
        /\ NodeHolds(c, y, i, g) = Satisfies(ResolvePath(y, c[i].path), c[i])
    BY <1>1 DEF NodeHolds, Combinators
  <2> QED  BY <1>1, <2>1
<1>2. CASE c[i].op = "all"
  <2>1. (\A k \in c[i].of : h[k]) = (\A k \in c[i].of : g[k])
    BY <1>2 DEF Combinators
  <2> QED  BY <1>2, <2>1 DEF NodeHolds
<1>3. CASE c[i].op = "any"
  <2>1. (\E k \in c[i].of : h[k]) = (\E k \in c[i].of : g[k])
    BY <1>3 DEF Combinators
  <2> QED  BY <1>3, <2>1 DEF NodeHolds
<1>4. CASE c[i].op = "not"
  <2>1. (\A k \in c[i].of : ~h[k]) = (\A k \in c[i].of : ~g[k])
    BY <1>4 DEF Combinators
  <2> QED  BY <1>4, <2>1 DEF NodeHolds
<1> QED  BY <1>1, <1>2, <1>3, <1>4 DEF Combinators

\* Every node is evaluated as the code's recursion says.
LEMMA Evaluated ==
    ASSUME NEW c, IsCondition(c), NEW input
    PROVE  /\ Evaluation(c, input) \in [1..Len(c) -> BOOLEAN]
           /\ \A i \in 1..Len(c) :
                Evaluation(c, input)[i] = NodeHolds(c, input, i, Evaluation(c, input))
<1> DEFINE N == Len(c)
           Is(f) == f = [i \in DOMAIN c |-> NodeHolds(c, input, i, f)]
           F == CHOOSE f : Is(f)
<1>1. Evaluation(c, input) = F
  BY Zenon DEF Evaluation, NodeHolds
<1>2. N \in Nat /\ DOMAIN c = 1..N
  BY Nodes
<1>3. \E f : Is(f)
  <2> DEFINE step == [i \in 1..N |-> [h \in [1..(i - 1) -> BOOLEAN] |-> NodeHolds(c, input, i, h)]]
  <2>1. \A i \in 1..N : step[i] \in [[1..(i - 1) -> BOOLEAN] -> BOOLEAN]
    BY NodeHoldsTyped
  <2>2. PICK f \in [1..N -> BOOLEAN] : IsBuilt(f, step, N)
    <3> HIDE DEF step, N
    <3> QED  BY <1>2, <2>1, ListBuilt
  <2>3. ASSUME NEW i \in 1..N PROVE f[i] = NodeHolds(c, input, i, f)
    <3> DEFINE h == Earlier(f, i)
    <3>1. h \in [1..(i - 1) -> BOOLEAN] /\ \A k \in 1..(i - 1) : h[k] = f[k]
      <4>1. \A k \in 1..(i - 1) : k \in 1..N
        BY <1>2
      <4> HIDE DEF N, step
      <4>2. \A k \in 1..(i - 1) : f[k] \in BOOLEAN
        BY <2>2, <4>1
      <4> QED  BY <4>2 DEF Earlier
    <3>2. f[i] = step[i][h]
      BY <2>2 DEF IsBuilt
    <3> HIDE DEF h
    <3>3. step[i][h] = NodeHolds(c, input, i, h)
      BY <3>1
    <3>4. c[i].op \in Combinators => \A k \in c[i].of : h[k] = f[k]
      BY <3>1, Nodes
    <3>5. NodeHolds(c, input, i, h) = NodeHolds(c, input, i, f)
      BY <3>4, NodeHoldsSame
    <3> QED  BY <3>2, <3>3, <3>5
  <2> HIDE DEF step, N
  <2>4. f = [i \in 1..N |-> NodeHolds(c, input, i, f)]
    BY <2>3
  <2> QED  BY <2>4, <1>2
<1>4. Is(F)
  BY <1>3, Zenon
<1> HIDE DEF F
<1>5. F = [i \in 1..N |-> NodeHolds(c, input, i, F)]
  BY <1>2, <1>4
<1> HIDE DEF N
<1>6. ASSUME NEW i \in 1..N PROVE F[i] = NodeHolds(c, input, i, F)
  BY Zenon, <1>5
<1>7. ASSUME NEW i \in 1..N PROVE F[i] \in BOOLEAN
  BY <1>6, NodeHoldsTyped DEF N
<1>8. DOMAIN F = 1..N /\ F = [i \in 1..N |-> F[i]]
  BY <1>5, <1>6
<1>9. F \in [1..N -> BOOLEAN]
  BY <1>7, <1>8
<1> QED  BY <1>1, <1>6, <1>9 DEF N

\* A condition reads nothing but the values at the paths of its predicates.
LEMMA SameInputs ==
    ASSUME NEW c, IsCondition(c), NEW x, NEW y,
           \A i \in Leaves(c) : ResolvePath(x, c[i].path) = ResolvePath(y, c[i].path)
    PROVE  \A i \in 1..Len(c) : Evaluation(c, x)[i] = Evaluation(c, y)[i]
<1> DEFINE N == Len(c)
           Good == {i \in 1..N : Evaluation(c, x)[i] = Evaluation(c, y)[i]}
<1>1. N \in Nat /\ DOMAIN c = 1..N
  BY Nodes
<1>2. ASSUME NEW i \in 1..N, \A j \in 1..(i - 1) : j \in Good PROVE i \in Good
  <2>1. c[i].op \in Combinators => \A k \in c[i].of : Evaluation(c, x)[k] = Evaluation(c, y)[k]
    BY <1>2, Nodes
  <2>2. c[i].op \notin Combinators => ResolvePath(x, c[i].path) = ResolvePath(y, c[i].path)
    BY <1>1 DEF Leaves
  <2>3. NodeHolds(c, x, i, Evaluation(c, x)) = NodeHolds(c, y, i, Evaluation(c, y))
    BY <2>1, <2>2, NodeHoldsSame
  <2> QED  BY <2>3, Evaluated
<1>3. \A i \in 1..N : i \in Good
  <2> HIDE DEF Good, N
  <2> QED  BY <1>1, <1>2, EntryByEntry
<1> QED  BY <1>3

-----------------------------------------------------------------------------
\* A set of places that is not empty has a last one.
LEMMA MaxIsLast ==
    ASSUME NEW n \in Nat, NEW T, T \subseteq 1..n, T # {}
    PROVE  Max(T) \in T /\ \A x \in T : x <= Max(T)
<1>1. PICK y \in T : TRUE
  OBVIOUS
<1>2. n \in Nat \ {0}
  BY <1>1
<1> DEFINE h == [k \in 1..n |-> IF k \in T THEN k ELSE 0]
<1>3. h \in [1..n -> Int]
  OBVIOUS
<1>4. PICK m \in 1..n : \A k \in 1..n : h[k] <= h[m]
  <2> HIDE DEF h
  <2> QED  BY <1>2, <1>3, GreatestEntry
<1>5. m \in T /\ \A x \in T : x <= m
  BY <1>1, <1>4
<1>6. T \subseteq Nat
  OBVIOUS
<1>7. Max(T) = m
  BY <1>5, <1>6, MaxIs
<1> QED  BY <1>5, <1>7

\* The paths a condition reads, the values the tests make up for one, and the inputs made of them.
Paths(c) == {p.path : p \in Predicates(c)}

MadeUp(c, path) == UNION {{WitnessValue(p), CounterexampleValue(p)} : p \in {q \in Predicates(c) : q.path = path}}

IsTestInput(c, x) ==
  /\ x = [q \in DOMAIN x |-> x[q]] /\ DOMAIN x \subseteq Paths(c)
  /\ \A q \in DOMAIN x : x[q] \in MadeUp(c, q)

TestInputs(c) ==
  {x \in UNION {[D -> UNION {MadeUp(c, q) : q \in Paths(c)}] : D \in SUBSET Paths(c)} : IsTestInput(c, x)}

LEMMA TestInputsAre == ASSUME NEW c, NEW x PROVE x \in TestInputs(c) <=> IsTestInput(c, x)
<1> SUFFICES ASSUME IsTestInput(c, x)
             PROVE  x \in UNION {[D -> UNION {MadeUp(c, q) : q \in Paths(c)}] : D \in SUBSET Paths(c)}
  BY DEF TestInputs
<1> DEFINE V == UNION {MadeUp(c, q) : q \in Paths(c)}
           D == DOMAIN x
<1>1. D \in SUBSET Paths(c) /\ x = [q \in D |-> x[q]]
  BY DEF IsTestInput
<1>2. \A q \in D : x[q] \in V
  BY DEF IsTestInput
<1> HIDE DEF V, D
<1>3. x \in [D -> V]
  BY <1>1, <1>2
<1> QED  BY <1>1, <1>3 DEF V

\* m takes each path from the last of the inputs that has it.
InputOf(parts, k) == CHOOSE x \in parts[k] : TRUE

IsMerge(m, parts) ==
  /\ m = [q \in DOMAIN m |-> m[q]]
  /\ DOMAIN m = UNION {DOMAIN InputOf(parts, k) : k \in DOMAIN parts}
  /\ \A q \in DOMAIN m : \E k \in DOMAIN parts :
       /\ q \in DOMAIN InputOf(parts, k) /\ m[q] = InputOf(parts, k)[q]
       /\ \A j \in DOMAIN parts : q \in DOMAIN InputOf(parts, j) => j <= k

LEMMA Merges ==
    ASSUME NEW n \in Nat, NEW parts, DOMAIN parts \subseteq 1..n,
           \A k \in DOMAIN parts : parts[k] # {}
    PROVE  /\ \A k \in DOMAIN parts : InputOf(parts, k) \in parts[k]
           /\ \E m : Merged(parts) = {m} /\ IsMerge(m, parts)
<1> DEFINE Input(k) == InputOf(parts, k)
           Having(q) == {k \in DOMAIN parts : q \in DOMAIN Input(k)}
           all == UNION {DOMAIN Input(k) : k \in DOMAIN parts}
           m == [q \in all |-> Input(Max(Having(q)))[q]]
<1>1. \A k \in DOMAIN parts : Input(k) \in parts[k]
  BY DEF InputOf
<1>2. Merged(parts) = {m}
  BY Zenon DEF Merged, InputOf
<1>3. ASSUME NEW q \in all
      PROVE  \E k \in DOMAIN parts : /\ q \in DOMAIN Input(k) /\ m[q] = Input(k)[q]
                                     /\ \A j \in DOMAIN parts : q \in DOMAIN Input(j) => j <= k
  <2> DEFINE H == Having(q)
  <2>1. H \subseteq 1..n /\ H # {}
    OBVIOUS
  <2>2. Max(H) \in H /\ \A j \in H : j <= Max(H)
    <3> HIDE DEF H
    <3> QED  BY <2>1, MaxIsLast
  <2>3. m[q] = Input(Max(H))[q]
    OBVIOUS
  <2> HIDE DEF m
  <2> QED  BY <2>2, <2>3
<1>4. DOMAIN m = all
  OBVIOUS
<1>5. m = [q \in DOMAIN m |-> m[q]]
  BY <1>4
<1> HIDE DEF m
<1>6. IsMerge(m, parts)
  BY <1>3, <1>4, <1>5 DEF IsMerge
<1> QED  BY <1>1, <1>2, <1>6

LEMMA MergedWithin ==
    ASSUME NEW c, NEW n \in Nat, NEW parts, DOMAIN parts \subseteq 1..n,
           \A k \in DOMAIN parts : parts[k] \subseteq TestInputs(c)
    PROVE  Merged(parts) \subseteq TestInputs(c)
<1>1. CASE \E k \in DOMAIN parts : parts[k] = {}
  BY Zenon, <1>1 DEF Merged
<1>2. CASE \A k \in DOMAIN parts : parts[k] # {}
  <2> DEFINE Input(k) == InputOf(parts, k)
  <2>1. /\ \A k \in DOMAIN parts : Input(k) \in parts[k]
        /\ \E m : Merged(parts) = {m} /\ IsMerge(m, parts)
    BY <1>2, Merges
  <2>2. PICK m : Merged(parts) = {m} /\ IsMerge(m, parts)
    BY <2>1
  <2>3. \A k \in DOMAIN parts : IsTestInput(c, Input(k))
    BY <2>1, TestInputsAre
  <2> HIDE DEF Input
  <2>4. DOMAIN m \subseteq Paths(c) /\ \A q \in DOMAIN m : m[q] \in MadeUp(c, q)
    <3>1. \A k \in DOMAIN parts : /\ DOMAIN Input(k) \subseteq Paths(c)
                                   /\ \A q \in DOMAIN Input(k) : Input(k)[q] \in MadeUp(c, q)
      BY <2>3 DEF IsTestInput
    <3>2. /\ DOMAIN m = UNION {DOMAIN Input(k) : k \in DOMAIN parts}
          /\ \A q \in DOMAIN m : \E k \in DOMAIN parts : q \in DOMAIN Input(k) /\ m[q] = Input(k)[q]
      BY <2>2 DEF IsMerge, Input
    <3> QED  BY <3>1, <3>2
  <2>5. IsTestInput(c, m)
    BY <2>2, <2>4 DEF IsTestInput, IsMerge
  <2> QED  BY <2>2, <2>5, TestInputsAre
<1> QED  BY <1>1, <1>2

-----------------------------------------------------------------------------
\* What the recursion makes of a node for a goal, b telling what it made of the parts.
PartsOf(c, i, goal, b) == [k \in c[i].of |-> b[k][goal]]

LeafValue(c, i, goal) == IF goal THEN WitnessValue(c[i]) ELSE CounterexampleValue(c[i])

Suited(c, i, goal, b) ==
  {k \in c[i].of : \E x \in PartsOf(c, i, goal, b)[k] : Evaluation(c, x)[k] = goal}

LeafInputs(c, i, goal) ==
  {x \in {WithPath(<<>>, c[i].path, LeafValue(c, i, goal))} : Evaluation(c, x)[i] = goal}

MadeInputs(c, i, goal, b) ==
  CASE c[i].op = "not" -> b[Min(c[i].of)][~goal]
    [] c[i].op = "all" /\ goal -> Merged(PartsOf(c, i, goal, b))
    [] c[i].op = "any" /\ ~goal -> {x \in Merged(PartsOf(c, i, goal, b)) : Evaluation(c, x)[i] = goal}
    [] c[i].op = (IF goal THEN "any" ELSE "all") ->
         FirstOf(PartsOf(c, i, goal, b), Suited(c, i, goal, b))
    [] OTHER -> LeafInputs(c, i, goal)

\* The code's cases, one by one.
LEMMA MadeNot ==
    ASSUME NEW c, IsCondition(c), NEW i \in 1..Len(c), NEW goal \in BOOLEAN, NEW b, c[i].op = "not"
    PROVE  \E k \in c[i].of : c[i].of = {k} /\ MadeInputs(c, i, goal, b) = b[k][~goal]
<1>1. PICK k \in c[i].of : c[i].of = {k}
  BY Nodes DEF Combinators
<1>2. k \in 1..(i - 1)
  BY <1>1, Nodes DEF Combinators
<1>3. Min({k}) = k
  <2>1. {k} \subseteq Nat /\ {k} # {}
    BY <1>2
  <2> QED  BY <2>1, MinIsLeast
<1>4. MadeInputs(c, i, goal, b) = b[Min(c[i].of)][~goal]
  BY DEF MadeInputs
<1> QED  BY <1>1, <1>3, <1>4

LEMMA MadeMerged ==
    ASSUME NEW c, NEW i, NEW b, c[i].op = "all"
    PROVE  MadeInputs(c, i, TRUE, b) = Merged(PartsOf(c, i, TRUE, b))
BY DEF MadeInputs

LEMMA MadeMergedFalse ==
    ASSUME NEW c, NEW i, NEW b, c[i].op = "any"
    PROVE  \A x : x \in MadeInputs(c, i, FALSE, b) <=>
                    x \in Merged(PartsOf(c, i, FALSE, b)) /\ Evaluation(c, x)[i] = FALSE
BY DEF MadeInputs

LEMMA MadeFirst ==
    ASSUME NEW c, IsCondition(c), NEW i \in 1..Len(c), NEW goal \in BOOLEAN, NEW b,
           c[i].op = IF goal THEN "any" ELSE "all"
    PROVE  \/ Suited(c, i, goal, b) = {} /\ MadeInputs(c, i, goal, b) = {}
           \/ \E k \in Suited(c, i, goal, b) : MadeInputs(c, i, goal, b) = PartsOf(c, i, goal, b)[k]
<1> DEFINE suited == Suited(c, i, goal, b)
           parts == PartsOf(c, i, goal, b)
           made == MadeInputs(c, i, goal, b)
<1>1. made = FirstOf(parts, suited)
  BY DEF MadeInputs
<1>2. suited \subseteq Nat
  <2>1. c[i].of \subseteq 1..(i - 1)
    BY Nodes DEF Combinators
  <2> QED  BY <2>1 DEF Suited
<1> HIDE DEF suited, parts, made
<1>3. CASE suited = {}
  <2>1. made = {}
    BY Zenon, <1>1, <1>3 DEF FirstOf
  <2> QED  BY <1>3, <2>1 DEF suited, made
<1>4. CASE suited # {}
  <2>1. Min(suited) \in suited
    BY <1>2, <1>4, MinIsLeast
  <2>2. made = parts[Min(suited)]
    BY Zenon, <1>1, <1>4 DEF FirstOf
  <2> QED  BY <2>1, <2>2 DEF suited, parts, made
<1> QED  BY <1>3, <1>4

LEMMA MadeLeaf ==
    ASSUME NEW c, NEW i, NEW goal \in BOOLEAN, NEW b, c[i].op \notin Combinators
    PROVE  MadeInputs(c, i, goal, b) = LeafInputs(c, i, goal)
BY DEF MadeInputs, Combinators

\* What is made up for a predicate.
LEMMA MadeOfLeaf ==
    ASSUME NEW c, IsCondition(c), NEW i \in Leaves(c), NEW v \in {WitnessValue(c[i]), CounterexampleValue(c[i])}
    PROVE  /\ WithPath(<<>>, c[i].path, v) \in TestInputs(c)
           /\ DOMAIN WithPath(<<>>, c[i].path, v) = {c[i].path}
           /\ WithPath(<<>>, c[i].path, v)[c[i].path] = v
<1> DEFINE x == WithPath(<<>>, c[i].path, v)
           path == c[i].path
<1>1. x = [q \in {path} |-> v]
  <2>1. DOMAIN <<>> = {}
    OBVIOUS
  <2> QED  BY <2>1 DEF WithPath, Put
<1>2. c[i] \in Predicates(c) /\ path \in Paths(c) /\ v \in MadeUp(c, path)
  <2>1. c[i] \in Predicates(c)
    BY DEF Predicates
  <2> QED  BY <2>1 DEF Paths, MadeUp
<1>3. IsTestInput(c, x)
  <2> HIDE DEF x, path
  <2>1. DOMAIN x = {path} /\ x[path] = v /\ x = [q \in DOMAIN x |-> x[q]]
    BY <1>1
  <2> QED  BY <2>1, <1>2 DEF IsTestInput
<1> QED  BY <1>1, <1>3, TestInputsAre

LEMMA MadeTyped ==
    ASSUME NEW c, IsCondition(c), NEW i \in 1..Len(c), NEW goal \in BOOLEAN, NEW b,
           c[i].op \in Combinators => \A k \in c[i].of, g \in BOOLEAN : b[k][g] \subseteq TestInputs(c)
    PROVE  MadeInputs(c, i, goal, b) \subseteq TestInputs(c)
<1> DEFINE parts == PartsOf(c, i, goal, b)
           made == MadeInputs(c, i, goal, b)
           N == Len(c)
<1>1. N \in Nat /\ DOMAIN c = 1..N
  BY Nodes
<1>2. ASSUME c[i].op \in Combinators
      PROVE  /\ \A k \in c[i].of : parts[k] \subseteq TestInputs(c)
             /\ Merged(parts) \subseteq TestInputs(c)
  <2>1. DOMAIN parts \subseteq 1..N /\ DOMAIN parts = c[i].of
        /\ \A k \in DOMAIN parts : parts[k] \subseteq TestInputs(c)
    BY <1>2, Nodes DEF PartsOf
  <2> HIDE DEF parts, N
  <2> QED  BY <1>1, <2>1, MergedWithin
<1>3. CASE c[i].op = "not"
  <2>1. \E k \in c[i].of : made = b[k][~goal]
    BY <1>3, MadeNot
  <2> QED  BY <1>3, <2>1 DEF Combinators
<1>4. CASE c[i].op = "all" /\ goal = TRUE
  BY <1>2, <1>4, MadeMerged DEF Combinators
<1>5. CASE c[i].op = "any" /\ goal = FALSE
  <2>1. \A x \in made : x \in Merged(parts)
    BY <1>5, MadeMergedFalse
  <2> HIDE DEF made, parts
  <2> QED  BY <1>2, <1>5, <2>1 DEF Combinators, made
<1>6. CASE c[i].op = (IF goal THEN "any" ELSE "all")
  <2>1. made = {} \/ \E k \in c[i].of : made = parts[k]
    BY <1>6, MadeFirst DEF Suited
  <2>2. c[i].op \in Combinators
    BY <1>6 DEF Combinators
  <2> QED  BY <2>1, <2>2, <1>2
<1>7. CASE c[i].op \notin Combinators
  <2>1. made = LeafInputs(c, i, goal)
    BY <1>7, MadeLeaf
  <2>2. i \in Leaves(c)
    BY <1>1, <1>7 DEF Leaves
  <2>3. LeafValue(c, i, goal) \in {WitnessValue(c[i]), CounterexampleValue(c[i])}
    BY DEF LeafValue
  <2>4. WithPath(<<>>, c[i].path, LeafValue(c, i, goal)) \in TestInputs(c)
    BY <2>2, <2>3, MadeOfLeaf
  <2> QED  BY <2>1, <2>4 DEF LeafInputs
<1> QED  BY <1>3, <1>4, <1>5, <1>6, <1>7 DEF Combinators

\* b and h agree on the parts of node i.
SameParts(c, i, b, h) == c[i].op \in Combinators => \A k \in c[i].of : b[k] = h[k]

LEMMA MadeSame ==
    ASSUME NEW c, IsCondition(c), NEW i \in 1..Len(c), NEW goal \in BOOLEAN, NEW b, NEW h,
           SameParts(c, i, b, h)
    PROVE  MadeInputs(c, i, goal, b) = MadeInputs(c, i, goal, h)
<1>1. CASE c[i].op \notin Combinators
  BY <1>1, MadeLeaf
<1>2. CASE c[i].op \in Combinators
  <2>1. \A k \in c[i].of : b[k] = h[k]
    BY <1>2 DEF SameParts
  <2>2. PartsOf(c, i, goal, b) = PartsOf(c, i, goal, h)
    BY <2>1 DEF PartsOf
  <2>3. Suited(c, i, goal, b) = Suited(c, i, goal, h)
    BY <2>2 DEF Suited
  <2>4. CASE c[i].op = "not"
    <3>1. PICK k \in c[i].of : c[i].of = {k} /\ MadeInputs(c, i, goal, b) = b[k][~goal]
      BY <2>4, MadeNot
    <3>2. PICK j \in c[i].of : c[i].of = {j} /\ MadeInputs(c, i, goal, h) = h[j][~goal]
      BY <2>4, MadeNot
    <3> QED  BY <2>1, <3>1, <3>2
  <2>5. CASE c[i].op # "not"
    BY <1>2, <2>2, <2>3, <2>5 DEF MadeInputs, Combinators
  <2> QED  BY <2>4, <2>5
<1> QED  BY <1>1, <1>2

\* What is built for a node is made of what is built for its parts, and is made up for the paths
\* of the condition.
LEMMA Built ==
    ASSUME NEW c, IsCondition(c)
    PROVE  \A i \in 1..Len(c), goal \in BOOLEAN :
             /\ BuildInputs(c)[i][goal] = MadeInputs(c, i, goal, BuildInputs(c))
             /\ BuildInputs(c)[i][goal] \subseteq TestInputs(c)
<1> DEFINE N == Len(c)
           S == [BOOLEAN -> SUBSET TestInputs(c)]
           Is(f) == f = [i \in DOMAIN c |-> [goal \in BOOLEAN |-> MadeInputs(c, i, goal, f)]]
           F == CHOOSE f : Is(f)
<1>1. BuildInputs(c) = F
  BY Zenon DEF BuildInputs, MadeInputs, PartsOf, Suited, LeafInputs, LeafValue
<1>2. N \in Nat /\ DOMAIN c = 1..N
  BY Nodes
<1>3. \E f \in [1..N -> S] : Is(f)
  <2> DEFINE step == [i \in 1..N |-> [h \in [1..(i - 1) -> S] |->
                        [goal \in BOOLEAN |-> MadeInputs(c, i, goal, h)]]]
  <2>1. \A i \in 1..N : step[i] \in [[1..(i - 1) -> S] -> S]
    <3> SUFFICES ASSUME NEW i \in 1..N, NEW h \in [1..(i - 1) -> S], NEW goal \in BOOLEAN
                 PROVE  MadeInputs(c, i, goal, h) \subseteq TestInputs(c)
      OBVIOUS
    <3>1. c[i].op \in Combinators => \A k \in c[i].of, g \in BOOLEAN : h[k][g] \subseteq TestInputs(c)
      BY Nodes
    <3> QED  BY <3>1, MadeTyped
  <2>2. PICK f \in [1..N -> S] : IsBuilt(f, step, N)
    <3> HIDE DEF step, N, S
    <3> QED  BY <1>2, <2>1, ListBuilt
  <2>3. ASSUME NEW i \in 1..N PROVE f[i] = [goal \in BOOLEAN |-> MadeInputs(c, i, goal, f)]
    <3> DEFINE h == Earlier(f, i)
    <3>1. h \in [1..(i - 1) -> S] /\ \A k \in 1..(i - 1) : h[k] = f[k]
      <4>1. \A k \in 1..(i - 1) : k \in 1..N
        BY <1>2
      <4> HIDE DEF N, step, S
      <4>2. \A k \in 1..(i - 1) : f[k] \in S
        BY <2>2, <4>1
      <4> QED  BY <4>2 DEF Earlier
    <3>2. f[i] = step[i][h]
      <4> HIDE DEF step, S, N
      <4> QED  BY <2>2 DEF IsBuilt
    <3> HIDE DEF h
    <3>3. step[i][h] = [goal \in BOOLEAN |-> MadeInputs(c, i, goal, h)]
      <4> HIDE DEF S
      <4> QED  BY <3>1
    <3>4. SameParts(c, i, h, f)
      BY <3>1, Nodes DEF SameParts
    <3>5. \A goal \in BOOLEAN : MadeInputs(c, i, goal, h) = MadeInputs(c, i, goal, f)
      <4>1. i \in 1..Len(c)
        OBVIOUS
      <4> HIDE DEF step, N, S
      <4>2. ASSUME NEW goal \in BOOLEAN PROVE MadeInputs(c, i, goal, h) = MadeInputs(c, i, goal, f)
        BY <3>4, <4>1, MadeSame
      <4> QED  BY <4>2
    <3> QED  BY <3>2, <3>3, <3>5
  <2> HIDE DEF step, N, S
  <2>4. f = [i \in 1..N |-> [goal \in BOOLEAN |-> MadeInputs(c, i, goal, f)]]
    <3>1. f = [i \in 1..N |-> f[i]]
      BY <2>2
    <3> QED  BY <3>1, <2>3
  <2> QED  BY <2>2, <2>4, <1>2
<1>4. Is(F)
  BY <1>3, Zenon
<1> HIDE DEF F
<1>5. F = [i \in 1..N |-> [goal \in BOOLEAN |-> MadeInputs(c, i, goal, F)]]
  BY <1>2, <1>4
<1> HIDE DEF N
<1>6. ASSUME NEW i \in 1..N, NEW goal \in BOOLEAN PROVE F[i][goal] = MadeInputs(c, i, goal, F)
  <2>1. F[i] = [g \in BOOLEAN |-> MadeInputs(c, i, g, F)]
    BY Zenon, <1>5
  <2> QED  BY Zenon, <2>1
<1> DEFINE Good == {i \in 1..N : \A goal \in BOOLEAN : F[i][goal] \subseteq TestInputs(c)}
<1>7. \A i \in 1..N : i \in Good
  <2>1. ASSUME NEW i \in 1..N, \A j \in 1..(i - 1) : j \in Good PROVE i \in Good
    <3>1. c[i].op \in Combinators => \A k \in c[i].of, g \in BOOLEAN : F[k][g] \subseteq TestInputs(c)
      BY <2>1, Nodes DEF N
    <3>2. \A goal \in BOOLEAN : MadeInputs(c, i, goal, F) \subseteq TestInputs(c)
      BY <3>1, MadeTyped DEF N
    <3> QED  BY <3>2, <1>6
  <2> HIDE DEF Good
  <2> QED  BY <1>2, <2>1, EntryByEntry
<1> QED  BY <1>1, <1>6, <1>7 DEF N

-----------------------------------------------------------------------------
\* A test input, completed with nothing at the other paths, is a case the properties range over.
LEMMA Completed ==
    ASSUME NEW c, IsCondition(c), NEW x \in TestInputs(c)
    PROVE  \E y \in Inputs(c) : /\ EvaluateCondition(c, y) = EvaluateCondition(c, x)
                                /\ \A q \in Paths(c) : y[q] = ResolvePath(x, q)
<1> DEFINE y == [q \in Paths(c) |-> ResolvePath(x, q)]
           V == UNION {Values(c, q) : q \in Paths(c)}
<1>1. \A q \in Paths(c) : ResolvePath(x, q) \in Values(c, q)
  <2>1. IsTestInput(c, x)
    BY TestInputsAre
  <2> QED  BY <2>1 DEF IsTestInput, ResolvePath, Values, MadeUp
<1>2. \A q \in Paths(c) : ResolvePath(x, q) \in V
  BY <1>1
<1>3. y \in [Paths(c) -> V] /\ \A q \in Paths(c) : y[q] \in Values(c, q)
  <2> HIDE DEF V
  <2> QED  BY <1>1, <1>2
<1>4. y \in Inputs(c)
  <2> HIDE DEF y
  <2> QED  BY <1>3 DEF Inputs, Paths
<1>5. \A q \in Paths(c) : y[q] = ResolvePath(x, q) /\ ResolvePath(y, q) = ResolvePath(x, q)
  <2>1. \A q \in Paths(c) : y[q] = ResolvePath(x, q)
    OBVIOUS
  <2>2. DOMAIN y = Paths(c)
    OBVIOUS
  <2> HIDE DEF y
  <2> QED  BY <2>1, <2>2 DEF ResolvePath
<1> HIDE DEF y
<1>6. \A i \in Leaves(c) : ResolvePath(y, c[i].path) = ResolvePath(x, c[i].path)
  BY <1>5 DEF Paths, Predicates
<1>7. EvaluateCondition(c, y) = EvaluateCondition(c, x)
  <2>1. Len(c) \in 1..Len(c)
    BY Nodes
  <2>2. \A i \in 1..Len(c) : Evaluation(c, y)[i] = Evaluation(c, x)[i]
    BY <1>6, SameInputs
  <2> QED  BY <2>1, <2>2 DEF EvaluateCondition
<1> QED  BY <1>4, <1>5, <1>7

LEMMA WithMadeUp ==
    ASSUME NEW c, IsCondition(c), NEW i \in Leaves(c), NEW x \in TestInputs(c)
    PROVE  WithPath(x, c[i].path, CounterexampleValue(c[i])) \in TestInputs(c)
<1> DEFINE path == c[i].path
           v == CounterexampleValue(c[i])
           y == WithPath(x, path, v)
<1>1. IsTestInput(c, x)
  BY TestInputsAre
<1>2. c[i] \in Predicates(c)
  BY DEF Predicates
<1>3. path \in Paths(c) /\ v \in MadeUp(c, path)
  BY <1>2 DEF Paths, MadeUp
<1> HIDE DEF path, v
<1>4. /\ DOMAIN y = DOMAIN x \cup {path} /\ y = [q \in DOMAIN y |-> y[q]]
      /\ \A q \in DOMAIN y : y[q] = IF q = path THEN v ELSE x[q]
  BY DEF WithPath, Put
<1> HIDE DEF y
<1>5. IsTestInput(c, y)
  <2>1. DOMAIN y \subseteq Paths(c)
    BY <1>1, <1>3, <1>4 DEF IsTestInput
  <2>2. \A q \in DOMAIN y : y[q] \in MadeUp(c, q)
    BY <1>1, <1>3, <1>4 DEF IsTestInput
  <2> QED  BY <1>4, <2>1, <2>2 DEF IsTestInput
<1> QED  BY <1>5, TestInputsAre DEF y, path, v

LEMMA Primary ==
    ASSUME NEW c, IsCondition(c)
    PROVE  \E i \in Leaves(c) : SelectTestPredicate(c) = c[i]
<1> DEFINE comparisons == {i \in Leaves(c) : c[i].op # "exists"}
           candidates == IF comparisons = {} THEN Leaves(c) ELSE comparisons
<1>1. candidates # {} /\ candidates \subseteq Leaves(c) /\ candidates \subseteq Nat
  <2>1. Leaves(c) # {} /\ Leaves(c) \subseteq Nat
    BY Nodes
  <2> QED  BY <2>1
<1>2. SelectTestPredicate(c) = c[Min(candidates)]
  BY Zenon DEF SelectTestPredicate
<1> HIDE DEF candidates
<1>3. Min(candidates) \in candidates
  BY <1>1, MinIsLeast
<1> QED  BY <1>1, <1>2, <1>3

\* Where all required tests were made, one input fires and another does not.
LEMMA TestsMade ==
    ASSUME NEW c, IsCondition(c), MissingTests(BuildCanonicalRuleTests(c)) = {}
    PROVE  /\ \E m \in BuildWitness(c) : m \in TestInputs(c) /\ EvaluateCondition(c, m)
           /\ \E x \in TestInputs(c) : ~EvaluateCondition(c, x)
<1> DEFINE primary == SelectTestPredicate(c)
           match == BuildWitness(c)
           targeted == {WithPath(m, primary.path, CounterexampleValue(primary)) : m \in match}
           noMatch == IF \E x \in targeted : ~EvaluateCondition(c, x)
                      THEN targeted
                      ELSE BuildCounterexample(c)
           fails == \/ \A m \in match : ~EvaluateCondition(c, m)
                    \/ \A x \in noMatch : EvaluateCondition(c, x)
<1>1. BuildCanonicalRuleTests(c) # <<>>
  <2>1. \E i \in DOMAIN BuildCanonicalRuleTests(c) : TRUE
    <3>1. "match" \in {BuildCanonicalRuleTests(c)[i].kind : i \in DOMAIN BuildCanonicalRuleTests(c)}
      BY DEF MissingTests, RequiredTests
    <3> QED  BY <3>1
  <2>2. DOMAIN <<>> = {}
    OBVIOUS
  <2> QED  BY <2>1, <2>2
<1>2. fails => BuildCanonicalRuleTests(c) = <<>>
  BY Zenon DEF BuildCanonicalRuleTests
<1>3. match \subseteq TestInputs(c) /\ BuildCounterexample(c) \subseteq TestInputs(c)
  <2>1. Len(c) \in 1..Len(c)
    BY Nodes
  <2>2. \A goal \in BOOLEAN : BuildInputs(c)[Len(c)][goal] \subseteq TestInputs(c)
    BY <2>1, Built
  <2> QED  BY <2>2 DEF BuildWitness, BuildCounterexample
<1>4. targeted \subseteq TestInputs(c)
  <2>1. PICK i \in Leaves(c) : primary = c[i]
    BY Primary
  <2> HIDE DEF primary, match
  <2> QED  BY <2>1, <1>3, WithMadeUp
<1>5. noMatch \subseteq TestInputs(c)
  BY <1>3, <1>4
<1>6. (\E m \in match : EvaluateCondition(c, m)) /\ (\E x \in noMatch : ~EvaluateCondition(c, x))
  <2> HIDE DEF match, noMatch
  <2> QED  BY <1>1, <1>2
<1> HIDE DEF noMatch
<1> QED  BY <1>3, <1>5, <1>6

\* A condition that reaches review tells cases apart.
LEMMA Discriminates ==
    ASSUME NEW c, IsCondition(c), MissingTests(BuildCanonicalRuleTests(c)) = {}
    PROVE  /\ \E input \in Inputs(c) : Fires(c, input)
           /\ \E input \in Inputs(c) : ~Fires(c, input)
<1>1. PICK m \in TestInputs(c) : EvaluateCondition(c, m)
  BY TestsMade
<1>2. PICK x \in TestInputs(c) : ~EvaluateCondition(c, x)
  BY TestsMade
<1>3. PICK y \in Inputs(c) : EvaluateCondition(c, y) = EvaluateCondition(c, m)
  BY Completed
<1>4. PICK z \in Inputs(c) : EvaluateCondition(c, z) = EvaluateCondition(c, x)
  BY Completed
<1> QED  BY <1>1, <1>2, <1>3, <1>4 DEF Fires

-----------------------------------------------------------------------------
\* Two more items at the end of a list.
LEMMA TwoMore ==
    ASSUME NEW s, IsList(s), NEW a, NEW b
    PROVE  /\ IsList(s \o <<a, b>>) /\ Len(s \o <<a, b>>) = Len(s) + 2
           /\ \A i \in 1..Len(s) : (s \o <<a, b>>)[i] = s[i]
           /\ (s \o <<a, b>>)[Len(s) + 1] = a /\ (s \o <<a, b>>)[Len(s) + 2] = b
<1> DEFINE S == ToSet(s) \cup {a, b}
           t == s \o <<a, b>>
<1>1. s \in Seq(S) /\ <<a, b>> \in Seq(S) /\ Len(s) \in Nat
  <2>1. s \in Seq(ToSet(s)) /\ ToSet(s) \subseteq S
    BY ListItems
  <2> HIDE DEF S
  <2>2. s \in Seq(S)
    BY <2>1
  <2> QED  BY <2>2, ListItems DEF S
<1>2. t \in Seq(S) /\ Len(t) = Len(s) + 2
  <2> HIDE DEF S
  <2> QED  BY <1>1
<1>3. /\ \A i \in 1..Len(s) : t[i] = s[i]
      /\ t[Len(s) + 1] = a /\ t[Len(s) + 2] = b
  <2> HIDE DEF S
  <2> QED  BY <1>1
<1> HIDE DEF t, S
<1>4. t = [i \in 1..(Len(s) + 2) |-> t[i]] /\ Len(s) + 2 \in Nat
  BY <1>1, <1>2
<1>5. IsList(t)
  BY <1>4, ListMade
<1> QED  BY <1>2, <1>3, <1>5 DEF t

\* What makes a list of nodes a condition.
IsNode(c, i) ==
  \/ IsPredicate(c[i])
  \/ /\ DOMAIN c[i] = {"op", "of"} /\ c[i].op \in Combinators
     /\ c[i].of # {} /\ c[i].of \subseteq 1..(i - 1)
     /\ c[i].op = "not" => Cardinality(c[i].of) = 1

Apart(c) ==
  \A i, j \in DOMAIN c : i # j /\ c[i].op \in Combinators /\ c[j].op \in Combinators =>
    c[i].of \cap c[j].of = {}

LEMMA ConditionIs ==
    ASSUME NEW c
    PROVE  IsCondition(c) <=> IsList(c) /\ c # <<>> /\ (\A i \in DOMAIN c : IsNode(c, i)) /\ Apart(c)
BY DEF IsCondition, IsNode, Apart

LEMMA BelowTyped ==
    ASSUME NEW path, NEW minimum \in Nat
    PROVE  /\ IsPredicate(BelowMinimum(path, minimum))
           /\ BelowMinimum(path, minimum).op = "lte" /\ BelowMinimum(path, minimum).path = path
           /\ BelowMinimum(path, minimum).value = Num(minimum - 1)
           /\ BelowMinimum(path, minimum).op \notin Combinators
<1>1. IsScalar(Num(minimum - 1))
  BY DEF IsScalar, Num
<1>2. /\ BelowMinimum(path, minimum).op = "lte" /\ BelowMinimum(path, minimum).path = path
      /\ BelowMinimum(path, minimum).value = Num(minimum - 1)
      /\ DOMAIN BelowMinimum(path, minimum) = {"op", "path", "value"}
  BY DEF BelowMinimum
<1> QED  BY <1>1, <1>2 DEF IsPredicate, Operators, Combinators

\* A comparison and a node that joins it with the rest.
Joined(r, c, path, minimum) ==
  LET L == Len(r)
  IN /\ L \in Nat /\ L >= 2
     /\ r[L].op = "all" /\ L - 1 \in r[L].of /\ r[L].of \subseteq 1..(L - 1)
     /\ r[L - 1] = BelowMinimum(path, minimum)
     /\ \A i \in 1..(L - 2) : i \in DOMAIN c /\ r[i] = c[i]

LEMMA OrTheLast ==
    ASSUME NEW n \in Nat \ {0}, NEW i \in 1..(n + 1), i # n
    PROVE  i \in 1..(n - 1) \/ i = n + 1
OBVIOUS

LEMMA JoinedUnderRoot ==
    ASSUME NEW c, IsCondition(c), NEW path, NEW minimum \in Nat, c[Len(c)].op = "all",
           NEW r, r = SubSeq(c, 1, Len(c) - 1)
                      \o <<BelowMinimum(path, minimum), [c[Len(c)] EXCEPT !.of = @ \cup {Len(c)}]>>
    PROVE  IsCondition(r) /\ Joined(r, c, path, minimum)
<1> DEFINE n == Len(c)
           front == SubSeq(c, 1, n - 1)
           below == BelowMinimum(path, minimum)
           root == [c[n] EXCEPT !.of = @ \cup {n}]
<1>1. /\ n \in Nat \ {0} /\ DOMAIN c = 1..n /\ IsList(c) /\ n \in 1..n
      /\ (\A i \in 1..n : IsNode(c, i)) /\ Apart(c)
  BY Nodes, ConditionIs
<1>2. /\ c[n].of # {} /\ c[n].of \subseteq 1..(n - 1) /\ DOMAIN c[n] = {"op", "of"}
      /\ c[n].op = "all" /\ c[n].op \in Combinators
  BY <1>1, Nodes DEF Combinators
<1> HIDE DEF n
<1>3. n >= 2
  BY <1>1, <1>2
<1>4. /\ IsList(front) /\ Len(front) = n - 1 /\ \A k \in 1..(n - 1) : front[k] = c[k]
  <2>1. PICK m \in Nat : m = n - 1
    BY <1>3, <1>1
  <2>2. 1 <= m /\ m <= Len(c)
    BY <2>1, <1>1, <1>3 DEF n
  <2>3. IsList(SubSeq(c, 1, m)) /\ Len(SubSeq(c, 1, m)) = m - 1 + 1
        /\ \A k \in 1..(m - 1 + 1) : SubSeq(c, 1, m)[k] = c[1 + k - 1]
    BY <1>1, <2>2, PartOf
  <2>4. m - 1 + 1 = n - 1 /\ \A k \in 1..(n - 1) : 1 + k - 1 = k
    BY <2>1, <1>1
  <2> QED  BY <2>1, <2>3, <2>4
<1>5. /\ DOMAIN root = {"op", "of"} /\ root.op = "all" /\ root.of = c[n].of \cup {n}
  BY <1>2
<1>6. r = front \o <<below, root>>
  BY DEF n
<1> HIDE DEF front, below, root
<1>7. /\ IsList(r) /\ Len(r) = n + 1 /\ \A i \in 1..(n - 1) : r[i] = c[i]
      /\ r[n] = below /\ r[n + 1] = root
  <2>1. /\ IsList(r) /\ Len(r) = Len(front) + 2 /\ \A i \in 1..Len(front) : r[i] = front[i]
        /\ r[Len(front) + 1] = below /\ r[Len(front) + 2] = root
    <3>1. PICK s : s = front
      OBVIOUS
    <3>2. IsList(s)
      BY <3>1, <1>4
    <3>3. /\ IsList(s \o <<below, root>>) /\ Len(s \o <<below, root>>) = Len(s) + 2
          /\ \A i \in 1..Len(s) : (s \o <<below, root>>)[i] = s[i]
          /\ (s \o <<below, root>>)[Len(s) + 1] = below /\ (s \o <<below, root>>)[Len(s) + 2] = root
      BY <3>2, TwoMore
    <3>4. r = s \o <<below, root>>
      BY <1>6, <3>1
    <3> QED  BY <3>1, <3>3, <3>4
  <2>2. Len(front) + 2 = n + 1 /\ Len(front) + 1 = n
    BY <1>4, <1>1
  <2> QED  BY <2>1, <2>2, <1>4
<1>8. IsPredicate(below) /\ below.op \notin Combinators
  BY BelowTyped DEF below
<1>9. DOMAIN r = 1..(n + 1) /\ r # <<>>
  <2>1. DOMAIN r = 1..(n + 1)
    BY <1>7, ListItems
  <2>2. DOMAIN <<>> = {}
    OBVIOUS
  <2> QED  BY <2>1, <2>2, <1>1
<1>10. ASSUME NEW i \in 1..(n + 1) PROVE IsNode(r, i)
  <2>1. CASE i \in 1..(n - 1)
    <3>1. r[i] = c[i] /\ IsNode(c, i)
      BY <2>1, <1>1, <1>7
    <3> QED  BY <3>1 DEF IsNode
  <2>2. CASE i = n
    BY <2>2, <1>7, <1>8 DEF IsNode
  <2>3. CASE i = n + 1
    <3>1. root.of # {} /\ root.of \subseteq 1..(i - 1)
      BY <2>3, <1>1, <1>2, <1>5
    <3> QED  BY <2>3, <3>1, <1>5, <1>7 DEF IsNode, Combinators
  <2> QED  BY <2>1, <2>2, <2>3, <1>1
<1>11. ASSUME NEW i \in 1..(n - 1), c[i].op \in Combinators
       PROVE  c[i].of \cap root.of = {}
  <2>1. i \in 1..n /\ i # n
    BY <1>1
  <2>2. c[i].of \cap c[n].of = {}
    BY <2>1, <1>1, <1>2, <1>11 DEF Apart
  <2>3. c[i].of \subseteq 1..(i - 1)
    BY <2>1, <1>11, Nodes DEF n
  <2>4. n \notin c[i].of
    BY <2>1, <2>3, <1>1
  <2> QED  BY <2>2, <2>4, <1>5
<1>12. Apart(r)
  <2> SUFFICES ASSUME NEW i \in 1..(n + 1), NEW j \in 1..(n + 1), i # j,
                      r[i].op \in Combinators, r[j].op \in Combinators
               PROVE  r[i].of \cap r[j].of = {}
    BY <1>9 DEF Apart
  <2>1. i # n /\ j # n
    BY <1>7, <1>8
  <2>2. CASE i \in 1..(n - 1) /\ j \in 1..(n - 1)
    <3>1. i \in 1..n /\ j \in 1..n
      BY <2>2, <1>1
    <3> QED  BY <2>2, <3>1, <1>1, <1>7 DEF Apart
  <2>3. CASE i \in 1..(n - 1) /\ j = n + 1
    BY <2>3, <1>7, <1>11
  <2>4. CASE j \in 1..(n - 1) /\ i = n + 1
    BY <2>4, <1>7, <1>11
  <2>5. (i \in 1..(n - 1) \/ i = n + 1) /\ (j \in 1..(n - 1) \/ j = n + 1)
    <3>1. n \in Nat \ {0} /\ i \in 1..(n + 1) /\ j \in 1..(n + 1) /\ i # n /\ j # n
      BY <2>1, <1>1
    <3> QED  BY <3>1, OrTheLast
  <2> QED  BY <2>2, <2>3, <2>4, <2>5
<1>13. IsCondition(r)
  BY <1>7, <1>9, <1>10, <1>12, ConditionIs
<1>14. Joined(r, c, path, minimum)
  <2>1. PICK L \in Nat : L = n + 1
    BY <1>1
  <2>5. Len(r) = L /\ L - 1 = n /\ L - 2 = n - 1 /\ L >= 2
    BY <1>1, <1>3, <1>7, <2>1
  <2>2. root.of \subseteq 1..n /\ n \in root.of
    BY <1>1, <1>2, <1>5
  <2>3. \A i \in 1..(n - 1) : i \in DOMAIN c /\ r[i] = c[i]
    BY <1>1, <1>7
  <2>4. r[L] = root /\ r[L - 1] = below
    BY <1>7, <2>1, <2>5
  <2> HIDE DEF below
  <2>6. /\ L \in Nat /\ L >= 2 /\ r[L].op = "all" /\ L - 1 \in r[L].of /\ r[L].of \subseteq 1..(L - 1)
        /\ r[L - 1] = below /\ \A i \in 1..(L - 2) : i \in DOMAIN c /\ r[i] = c[i]
    BY <2>1, <2>2, <2>3, <2>4, <2>5, <1>5
  <2> QED  BY Zenon, <2>5, <2>6 DEF Joined, below
<1> QED  BY <1>13, <1>14

LEMMA JoinedAbove ==
    ASSUME NEW c, IsCondition(c), NEW path, NEW minimum \in Nat,
           NEW r, r = c \o <<BelowMinimum(path, minimum), [op |-> "all", of |-> {Len(c), Len(c) + 1}]>>
    PROVE  IsCondition(r) /\ Joined(r, c, path, minimum)
<1> DEFINE n == Len(c)
           below == BelowMinimum(path, minimum)
           root == [op |-> "all", of |-> {n, n + 1}]
<1>1. /\ n \in Nat \ {0} /\ DOMAIN c = 1..n /\ IsList(c) /\ n \in 1..n
      /\ (\A i \in 1..n : IsNode(c, i)) /\ Apart(c)
  BY Nodes, ConditionIs
<1>2. \A i \in 1..n : c[i].op \in Combinators => c[i].of \subseteq 1..(i - 1)
  BY Nodes
<1>6. r = c \o <<below, root>>
  OBVIOUS
<1> HIDE DEF n
<1>5. /\ DOMAIN root = {"op", "of"} /\ root.op = "all" /\ root.of = {n, n + 1}
  OBVIOUS
<1> HIDE DEF below, root
<1>7. /\ IsList(r) /\ Len(r) = n + 2 /\ \A i \in 1..n : r[i] = c[i]
      /\ r[n + 1] = below /\ r[n + 2] = root
  BY <1>1, <1>6, TwoMore DEF n
<1>8. IsPredicate(below) /\ below.op \notin Combinators
  BY BelowTyped DEF below
<1>9. DOMAIN r = 1..(n + 2) /\ r # <<>>
  <2>1. DOMAIN r = 1..(n + 2)
    BY <1>7, ListItems
  <2>2. DOMAIN <<>> = {}
    OBVIOUS
  <2> QED  BY <2>1, <2>2, <1>1
<1>10. ASSUME NEW i \in 1..(n + 2) PROVE IsNode(r, i)
  <2>1. CASE i \in 1..n
    <3>1. r[i] = c[i] /\ IsNode(c, i)
      BY <2>1, <1>1, <1>7
    <3> QED  BY <3>1 DEF IsNode
  <2>2. CASE i = n + 1
    BY <2>2, <1>7, <1>8 DEF IsNode
  <2>3. CASE i = n + 2
    <3>1. root.of # {} /\ root.of \subseteq 1..(i - 1)
      BY <2>3, <1>1, <1>5
    <3> QED  BY <2>3, <3>1, <1>5, <1>7 DEF IsNode, Combinators
  <2> QED  BY <2>1, <2>2, <2>3, <1>1
<1>11. ASSUME NEW i \in 1..n, c[i].op \in Combinators
       PROVE  c[i].of \cap root.of = {}
  <2>1. c[i].of \subseteq 1..(i - 1)
    BY <1>2, <1>11
  <2>2. n \notin c[i].of /\ n + 1 \notin c[i].of
    BY <2>1, <1>1
  <2> QED  BY <2>2, <1>5
<1>12. Apart(r)
  <2> SUFFICES ASSUME NEW i \in 1..(n + 2), NEW j \in 1..(n + 2), i # j,
                      r[i].op \in Combinators, r[j].op \in Combinators
               PROVE  r[i].of \cap r[j].of = {}
    BY <1>9 DEF Apart
  <2>1. i # n + 1 /\ j # n + 1
    BY <1>7, <1>8
  <2>2. CASE i \in 1..n /\ j \in 1..n
    BY <2>2, <1>1, <1>7 DEF Apart
  <2>3. CASE i \in 1..n /\ j = n + 2
    BY <2>3, <1>7, <1>11
  <2>4. CASE j \in 1..n /\ i = n + 2
    BY <2>4, <1>7, <1>11
  <2> QED  BY <2>1, <2>2, <2>3, <2>4, <1>1
<1>13. IsCondition(r)
  BY <1>7, <1>9, <1>10, <1>12, ConditionIs
<1>14. Joined(r, c, path, minimum)
  <2>1. n + 2 - 1 = n + 1 /\ n + 2 - 2 = n /\ n + 2 \in Nat /\ n + 2 >= 2
    BY <1>1
  <2>2. root.of \subseteq 1..(n + 1) /\ n + 1 \in root.of
    BY <1>1, <1>5
  <2>3. \A i \in 1..n : i \in DOMAIN c /\ r[i] = c[i]
    BY <1>1, <1>7
  <2> QED  BY <2>1, <2>2, <2>3, <1>5, <1>7 DEF Joined, below
<1> QED  BY <1>13, <1>14

-----------------------------------------------------------------------------
LEMMA MustBeSetTyped ==
    ASSUME NEW p, IsPredicate(p)
    PROVE  /\ IsPredicate(MustBeSet(p))
           /\ MustBeSet(p) = p \/ (p.path \in ConflictPaths /\ MustBeSet(p).path = p.path)
           /\ p.op # "exists" => MustBeSet(p) = p
<1>1. CASE p.op = "exists" /\ p.value[2] /\ p.path \in ConflictPaths
  <2> DEFINE q == [p EXCEPT !.op = "eq", !.value = Bool(TRUE)]
  <2>1. MustBeSet(p) = q
    BY <1>1 DEF MustBeSet
  <2>2. DOMAIN p = {"op", "path", "value"}
    BY DEF IsPredicate
  <2>3. DOMAIN q = {"op", "path", "value"} /\ q.op = "eq" /\ q.path = p.path /\ q.value = Bool(TRUE)
    BY <2>2
  <2>4. IsScalar(Bool(TRUE))
    BY DEF IsScalar, Bool
  <2> HIDE DEF q
  <2>5. IsPredicate(q)
    BY <2>3, <2>4 DEF IsPredicate, Operators
  <2> QED  BY <1>1, <2>1, <2>3, <2>5
<1>2. CASE ~(p.op = "exists" /\ p.value[2] /\ p.path \in ConflictPaths)
  BY Zenon, <1>2 DEF MustBeSet
<1> QED  BY <1>1, <1>2

\* Setting the conflict flags keeps the shape of a condition.
LEMMA MappedCondition ==
    ASSUME NEW c, IsCondition(c)
    PROVE  /\ IsCondition(MapCondition(c)) /\ Len(MapCondition(c)) = Len(c)
           /\ \A i \in 1..Len(c) : MapCondition(c)[i] = IF i \in Leaves(c) THEN MustBeSet(c[i]) ELSE c[i]
<1> DEFINE n == Len(c)
           r == MapCondition(c)
<1>1. /\ n \in Nat \ {0} /\ DOMAIN c = 1..n
      /\ (\A i \in 1..n : IsNode(c, i)) /\ Apart(c)
  BY Nodes, ConditionIs
<1>2. \A i \in Leaves(c) : i \in 1..n /\ IsPredicate(c[i]) /\ c[i].op \notin Combinators
  BY <1>1, Nodes DEF Leaves
<1>3. \A i \in 1..n : i \notin Leaves(c) => c[i].op \in Combinators
  BY <1>1 DEF Leaves
<1>4. r = [i \in 1..n |-> IF i \in Leaves(c) THEN MustBeSet(c[i]) ELSE c[i]]
  BY <1>1 DEF MapCondition
<1> HIDE DEF n, r
<1>5. \A i \in 1..n : r[i] = IF i \in Leaves(c) THEN MustBeSet(c[i]) ELSE c[i]
  BY <1>4
<1>6. r = [i \in 1..n |-> r[i]] /\ DOMAIN r = 1..n
  BY <1>4
<1>7. IsList(r) /\ Len(r) = n
  BY <1>1, <1>6, ListMade
<1>8. r # <<>>
  BY <1>1, <1>6
<1>9. ASSUME NEW i \in 1..n PROVE IsNode(r, i) /\ (r[i].op \in Combinators => r[i] = c[i])
  <2>1. CASE i \in Leaves(c)
    <3>1. IsPredicate(r[i])
      BY <2>1, <1>2, <1>5, MustBeSetTyped
    <3>2. r[i].op \notin Combinators
      BY <3>1 DEF IsPredicate, Operators, Combinators
    <3> QED  BY <3>1, <3>2 DEF IsNode
  <2>2. CASE i \notin Leaves(c)
    <3>1. r[i] = c[i] /\ IsNode(c, i)
      BY <2>2, <1>1, <1>5
    <3> QED  BY <3>1 DEF IsNode
  <2> QED  BY <2>1, <2>2
<1>10. Apart(r)
  BY <1>1, <1>6, <1>9 DEF Apart
<1>11. IsCondition(r)
  BY <1>6, <1>7, <1>8, <1>9, <1>10, ConditionIs
<1> QED  BY <1>5, <1>7, <1>11 DEF n, r

LEMMA MinimumTyped ==
    ASSUME NEW citations, IsList(citations), \A i \in DOMAIN citations : IsList(citations[i].quote)
    PROVE  MinimumCurrency(citations) \in Nat
<1> DEFINE quotes == [i \in DOMAIN citations |-> citations[i].quote]
           words == FlattenSeq(quotes)
           sets == {k \in DOMAIN words : words[k] \in DOMAIN Amounts}
<1>1. IsList(words)
  <2>1. Len(citations) \in Nat /\ DOMAIN citations = 1..Len(citations)
    BY ListItems
  <2>2. quotes = [i \in 1..Len(citations) |-> quotes[i]] /\ \A i \in DOMAIN quotes : IsList(quotes[i])
    BY <2>1
  <2> HIDE DEF quotes
  <2> QED  BY <2>1, <2>2, ListMade, FlatList
<1>2. DOMAIN words \subseteq Nat
  <2> HIDE DEF words
  <2>1. Len(words) \in Nat /\ DOMAIN words = 1..Len(words)
    BY <1>1, ListItems
  <2> QED  BY <2>1
<1>3. MinimumCurrency(citations) = IF sets = {} THEN 0 ELSE Amounts[words[Min(sets)]]
  BY Zenon DEF MinimumCurrency
<1> HIDE DEF words
<1>4. CASE sets = {}
  BY <1>3, <1>4
<1>5. CASE sets # {}
  <2>1. Min(sets) \in sets
    BY <1>2, <1>5, MinIsLeast
  <2>2. words[Min(sets)] \in DOMAIN Amounts
    BY <2>1
  <2> HIDE DEF sets
  <2> QED  BY <1>3, <1>5, <2>2, WordsAssumption
<1> QED  BY <1>4, <1>5

\* The root of a condition joins a comparison with a minimum to the rest.
AsksForMinimum(w, minimum) ==
  \E path \in CurrencyPaths :
    /\ Len(w) >= 2 /\ w[Len(w)].op = "all"
    /\ Len(w) - 1 \in w[Len(w)].of /\ w[Len(w)].of \subseteq 1..(Len(w) - 1)
    /\ w[Len(w) - 1] = BelowMinimum(path, minimum)

\* Adding a minimum either leaves the condition alone or makes its root ask for the minimum.
LEMMA MinimumAdded ==
    ASSUME NEW c, IsCondition(c), NEW citations, MinimumCurrency(citations) \in Nat
    PROVE  LET r == NormalizeMinimumCurrencyRequirement(c, citations)
           IN /\ IsCondition(r)
              /\ r = c \/ AsksForMinimum(r, MinimumCurrency(citations))
<1> DEFINE minimum == MinimumCurrency(citations)
           present == {i \in Leaves(c) : c[i].op = "exists" /\ c[i].path \in CurrencyPaths}
           path == c[Min(present)].path
           below == BelowMinimum(path, minimum)
           n == Len(c)
           r == NormalizeMinimumCurrencyRequirement(c, citations)
           under == SubSeq(c, 1, n - 1) \o <<below, [c[n] EXCEPT !.of = @ \cup {n}]>>
           above == c \o <<below, [op |-> "all", of |-> {n, n + 1}]>>
           same == minimum = 0 \/ HasNumericComparison(c) \/ Cardinality(present) # 1
<1>1. r = IF same THEN c ELSE IF c[n].op = "all" THEN under ELSE above
  BY Zenon DEF NormalizeMinimumCurrencyRequirement
<1>2. CASE same
  BY <1>1, <1>2
<1>3. CASE ~same
  <2>1. path \in CurrencyPaths
    <3>1. present \subseteq Leaves(c) /\ Leaves(c) \subseteq Nat
      BY Nodes
    <3>2. present # {}
      BY <1>3, FS_EmptySet
    <3>3. present \subseteq Nat
      BY <3>1
    <3> HIDE DEF present
    <3>4. Min(present) \in present
      BY <3>2, <3>3, MinIsLeast
    <3> QED  BY <3>4 DEF present
  <2>2. IsCondition(r) /\ Joined(r, c, path, minimum)
    <3>1. CASE c[n].op = "all"
      <4>1. r = under
        BY <1>1, <1>3, <3>1
      <4> HIDE DEF r, path, minimum
      <4> QED  BY <3>1, <4>1, JoinedUnderRoot DEF minimum
    <3>2. CASE c[n].op # "all"
      <4>1. r = above
        BY <1>1, <1>3, <3>2
      <4> HIDE DEF r, path, minimum
      <4> QED  BY <4>1, JoinedAbove DEF minimum
    <3> QED  BY <3>1, <3>2
  <2> HIDE DEF path, minimum, r
  <2>3. AsksForMinimum(r, minimum)
    BY <2>1, <2>2 DEF AsksForMinimum, Joined
  <2> QED  BY <2>2, <2>3 DEF minimum, r
<1> QED  BY <1>2, <1>3

\* The normalized condition is a condition; its predicates are those of the draft, with flags set,
\* unless its root asks for the minimum.
LEMMA Normalized ==
    ASSUME NEW c, IsCondition(c), NEW citations, MinimumCurrency(citations) \in Nat
    PROVE  /\ IsCondition(NormalizePolicyCondition(c, citations))
           /\ \/ AsksForMinimum(NormalizePolicyCondition(c, citations), MinimumCurrency(citations))
              \/ \A p \in Predicates(NormalizePolicyCondition(c, citations)) :
                   p \in Predicates(c) \/ p.path \in ConflictPaths
<1> DEFINE minimum == MinimumCurrency(citations)
           r == NormalizeMinimumCurrencyRequirement(c, citations)
           w == NormalizePolicyCondition(c, citations)
<1>1. IsCondition(r) /\ (r = c \/ AsksForMinimum(r, minimum))
  BY MinimumAdded
<1>2. w = r \/ w = MapCondition(r)
  BY Zenon DEF NormalizePolicyCondition
<1> HIDE DEF r, w, minimum
<1>3. CASE w = r
  BY <1>1, <1>3 DEF minimum, w
<1>4. CASE w = MapCondition(r)
  <2>1. /\ IsCondition(w) /\ Len(w) = Len(r) /\ Len(r) \in Nat \ {0}
        /\ \A i \in 1..Len(r) : w[i] = IF i \in Leaves(r) THEN MustBeSet(r[i]) ELSE r[i]
    BY <1>1, <1>4, MappedCondition, Nodes
  <2>2. CASE AsksForMinimum(r, minimum)
    <3>1. PICK path \in CurrencyPaths :
              /\ Len(r) >= 2 /\ r[Len(r)].op = "all"
              /\ Len(r) - 1 \in r[Len(r)].of /\ r[Len(r)].of \subseteq 1..(Len(r) - 1)
              /\ r[Len(r) - 1] = BelowMinimum(path, minimum)
      BY <2>2 DEF AsksForMinimum
    <3>2. w[Len(r)] = r[Len(r)]
      BY <2>1, <3>1 DEF Leaves, Combinators
    <3>3. w[Len(r) - 1] = r[Len(r) - 1]
      <4>1. IsPredicate(r[Len(r) - 1]) /\ r[Len(r) - 1].op = "lte"
        BY <3>1, BelowTyped DEF minimum
      <4>2. MustBeSet(r[Len(r) - 1]) = r[Len(r) - 1]
        BY <4>1, MustBeSetTyped
      <4>3. Len(r) - 1 \in 1..Len(r)
        BY <2>1, <3>1
      <4> QED  BY <2>1, <4>2, <4>3
    <3>4. AsksForMinimum(w, minimum)
      BY <2>1, <3>1, <3>2, <3>3 DEF AsksForMinimum
    <3> QED  BY <2>1, <3>4 DEF minimum, w
  <2>3. CASE r = c
    <3>1. ASSUME NEW p \in Predicates(w) PROVE p \in Predicates(c) \/ p.path \in ConflictPaths
      <4>1. PICK i \in Leaves(w) : p = w[i]
        BY DEF Predicates
      <4>2. i \in 1..Len(c) /\ w[i].op \notin Combinators
        BY <4>1, <2>1, <2>3, Nodes DEF Leaves
      <4>3. i \in Leaves(c)
        <5>1. i \notin Leaves(c) => w[i] = c[i] /\ i \in DOMAIN c
          BY <2>1, <2>3, <4>2, Nodes
        <5> QED  BY <5>1, <4>2 DEF Leaves
      <4>4. p = MustBeSet(c[i]) /\ IsPredicate(c[i])
        <5>1. IsPredicate(c[i])
          BY <4>2, <4>3, Nodes DEF Leaves
        <5> QED  BY <5>1, <2>1, <2>3, <4>1, <4>2, <4>3
      <4>5. p = c[i] \/ p.path \in ConflictPaths
        BY <4>4, MustBeSetTyped
      <4> QED  BY <4>3, <4>5 DEF Predicates
    <3> QED  BY <2>1, <3>1 DEF w
  <2> QED  BY <1>1, <2>2, <2>3
<1> QED  BY <1>2, <1>3, <1>4

-----------------------------------------------------------------------------
\* A value below a minimum is below it, and only amounts are.
IsAmount(v) == Ordered(v) => v[1] = "num" /\ v[2] \in Int

LEMMA AmountOutside ==
    ASSUME NEW items, IsList(items), items # <<>>,
           \A i \in DOMAIN items : items[i][1] = "num" /\ items[i][2] \in Int
    PROVE  IsAmount(ValueOutsideSet(items))
<1> DEFINE n == Len(items)
           h == [i \in 1..n |-> items[i][2]]
           amounts == {items[i][2] : i \in DOMAIN items}
<1>1. ValueOutsideSet(items) = Num(100 + Max(amounts))
  BY Zenon DEF ValueOutsideSet
<1>2. DOMAIN items = 1..n /\ n \in Nat \ {0}
  BY ListItems
<1> HIDE DEF n
<1>3. h \in [1..n -> Int] /\ \A i \in 1..n : h[i] = items[i][2]
  BY <1>2
<1>4. PICK m \in 1..n : \A k \in 1..n : h[k] <= h[m]
  <2> HIDE DEF h
  <2> QED  BY <1>2, <1>3, GreatestEntry
<1>5. h[m] \in amounts /\ \A y \in amounts : h[m] >= y
  BY <1>2, <1>3, <1>4
<1>6. amounts \subseteq Int
  BY <1>2
<1> HIDE DEF amounts
<1>7. Max(amounts) \in amounts
  BY Zenon, <1>5 DEF Max
<1>8. PICK most \in Int : most = Max(amounts)
  BY <1>6, <1>7
<1>9. ValueOutsideSet(items) = <<"num", 100 + most>>
  BY <1>1, <1>8 DEF Num
<1> QED  BY <1>9 DEF IsAmount

\* What the tests make up for an amount is an amount, or nothing that is compared.
LEMMA MadeUpAmount ==
    ASSUME NEW p, IsPredicate(p), p.path \in CurrencyPaths, PredicateIssue(p) = {},
           NEW v \in {WitnessValue(p), CounterexampleValue(p)}
    PROVE  IsAmount(v)
<1>1. p.path \in DOMAIN Facts /\ Facts[p.path].type = "currency"
  BY DEF CurrencyPaths
<1>2. p.op \in {"exists", "eq", "neq", "in", "gte", "lte"} /\ ValueAllowed("currency", p.op, p.value)
  BY <1>1 DEF PredicateIssue, OperatorAllowed
<1>3. IsAmount(Undefined) /\ IsAmount(Bool(TRUE))
  BY DEF IsAmount, Ordered, Undefined, Bool
<1>4. CASE p.op = "exists"
  BY <1>3, <1>4 DEF WitnessValue, CounterexampleValue
<1>5. CASE p.op = "in"
  <2> DEFINE items == p.value[2]
  <2>1. IsList(items) /\ items # <<>> /\ \A i \in DOMAIN items : IsScalar(items[i])
    BY <1>5 DEF IsPredicate
  <2>2. \A i \in DOMAIN items : items[i][1] = "num"
    BY <1>2, <1>5 DEF ValueAllowed, ScalarAllowed
  <2> HIDE DEF items
  <2>3. \A i \in DOMAIN items : items[i][1] = "num" /\ items[i][2] \in Int
    BY <2>1, <2>2 DEF IsScalar, Null
  <2>4. IsAmount(ValueOutsideSet(items))
    BY <2>1, <2>3, AmountOutside
  <2>5. 1 \in DOMAIN items
    BY <2>1, ListItems
  <2>6. v = items[1] \/ v = ValueOutsideSet(items)
    BY <1>5 DEF WitnessValue, CounterexampleValue, items
  <2> QED  BY <2>3, <2>4, <2>5, <2>6 DEF IsAmount
<1>6. CASE p.op \in {"eq", "neq", "gte", "lte"}
  <2>1. IsScalar(p.value)
    BY <1>6 DEF IsPredicate
  <2>2. p.value[1] = "num"
    BY <1>2, <1>6 DEF ValueAllowed, ScalarAllowed
  <2>3. p.value[2] \in Int
    BY <2>1, <2>2 DEF IsScalar, Null
  <2>4. v \in {p.value, Undefined, Num(p.value[2] + 100), Num(p.value[2] + 1), Num(p.value[2] - 1)}
    BY <1>6, <2>2 DEF WitnessValue, CounterexampleValue, DifferentValue
  <2> QED  BY <1>3, <2>2, <2>3, <2>4 DEF IsAmount, Num
<1> QED  BY <1>2, <1>4, <1>5, <1>6

LEMMA AmountsRead ==
    ASSUME NEW w, IsCondition(w), \A p \in Predicates(w) : PredicateIssue(p) = {},
           NEW path \in CurrencyPaths, NEW v \in Values(w, path)
    PROVE  IsAmount(v)
<1>1. CASE v \in Samples[path]
  <2>1. path \in DOMAIN Facts /\ Facts[path].type = "currency"
    BY DEF CurrencyPaths
  <2>2. ScalarAllowed("currency", v) /\ (v[1] = "num" => v[2] \in Int)
    BY <1>1, <2>1, SamplesAssumption
  <2> QED  BY <2>2 DEF ScalarAllowed, IsAmount
<1>2. CASE v = Undefined
  BY <1>2 DEF IsAmount, Ordered, Undefined
<1>3. ASSUME NEW p \in Predicates(w), p.path = path, v \in {WitnessValue(p), CounterexampleValue(p)}
      PROVE  IsAmount(v)
  <2>1. PICK i \in Leaves(w) : p = w[i]
    BY DEF Predicates
  <2>2. IsPredicate(p)
    BY <2>1, Nodes DEF Leaves
  <2> QED  BY <1>3, <2>2, MadeUpAmount
<1> QED  BY <1>1, <1>2, <1>3 DEF Values

-----------------------------------------------------------------------------
\* A rule fires on the inputs the tests show; where its root asks for a minimum it fires only
\* below it, and just below it.
LEMMA MinimumKept ==
    ASSUME NEW w, IsCondition(w), MissingTests(BuildCanonicalRuleTests(w)) = {},
           \A p \in Predicates(w) : PredicateIssue(p) = {},
           NEW minimum \in Nat, AsksForMinimum(w, minimum)
    PROVE  \E path \in Paths(w) \cap CurrencyPaths :
             /\ \A input \in Inputs(w) :
                  Fires(w, input) => input[path][1] = "num" /\ input[path][2] < minimum
             /\ \E input \in Inputs(w) : Fires(w, input) /\ input[path] = Num(minimum - 1)
<1> DEFINE L == Len(w)
<1>1. PICK path \in CurrencyPaths :
          /\ L >= 2 /\ w[L].op = "all" /\ L - 1 \in w[L].of /\ w[L].of \subseteq 1..(L - 1)
          /\ w[L - 1] = BelowMinimum(path, minimum)
  BY DEF AsksForMinimum
<1>2. L \in Nat /\ DOMAIN w = 1..L /\ L \in 1..L /\ L - 1 \in 1..L /\ L - 1 \in Nat
  BY <1>1, Nodes
<1>3. /\ w[L - 1].op = "lte" /\ w[L - 1].path = path /\ w[L - 1].value = Num(minimum - 1)
      /\ w[L - 1].op \notin Combinators
  BY <1>1, BelowTyped
<1>4. L - 1 \in Leaves(w) /\ path \in Paths(w)
  <2>1. L - 1 \in Leaves(w)
    BY <1>2, <1>3 DEF Leaves
  <2> QED  BY <2>1, <1>3 DEF Paths, Predicates
<1>5. ASSUME NEW input \in Inputs(w), Fires(w, input)
      PROVE  input[path][1] = "num" /\ input[path][2] < minimum
  <2> DEFINE h == Evaluation(w, input)
             v == input[path]
  <2>1. h[L] = NodeHolds(w, input, L, h) /\ h[L - 1] = NodeHolds(w, input, L - 1, h)
    BY <1>2, Evaluated
  <2>2. h[L]
    BY <1>5 DEF Fires, EvaluateCondition
  <2> HIDE DEF h
  <2>3. h[L - 1]
    BY <1>1, <2>1, <2>2 DEF NodeHolds
  <2>4. NodeHolds(w, input, L - 1, h) = Satisfies(ResolvePath(input, path), w[L - 1])
    BY <1>3 DEF NodeHolds, Combinators
  <2>5. /\ DOMAIN input = Paths(w) /\ input[path] \in Values(w, path)
    BY <1>4 DEF Inputs, Paths
  <2>6. ResolvePath(input, path) = v
    BY <1>4, <2>5 DEF ResolvePath
  <2>7. IsAmount(v)
    BY <2>5, AmountsRead
  <2> HIDE DEF v
  <2>8. Satisfies(v, w[L - 1])
    BY <2>1, <2>3, <2>4, <2>6
  <2>9. Ordered(v) /\ v[2] <= Num(minimum - 1)[2]
    BY <2>8, <1>3 DEF Satisfies
  <2>10. Num(minimum - 1)[2] = minimum - 1
    BY DEF Num
  <2>11. v[1] = "num" /\ v[2] \in Int
    BY <2>7, <2>9 DEF IsAmount
  <2>12. v[2] < minimum
    BY <2>9, <2>10, <2>11
  <2> QED  BY <2>11, <2>12 DEF v
<1>6. \E input \in Inputs(w) : Fires(w, input) /\ input[path] = Num(minimum - 1)
  <2>1. PICK m \in BuildWitness(w) : m \in TestInputs(w) /\ EvaluateCondition(w, m)
    BY TestsMade
  <2> DEFINE b == BuildInputs(w)
             parts == PartsOf(w, L, TRUE, b)
             Input(k) == InputOf(parts, k)
  <2>2. BuildWitness(w) = Merged(parts)
    <3>1. b[L][TRUE] = MadeInputs(w, L, TRUE, b)
      BY <1>2, Built
    <3>2. MadeInputs(w, L, TRUE, b) = Merged(parts)
      BY <1>1, MadeMerged
    <3> QED  BY <3>1, <3>2 DEF BuildWitness
  <2>3. DOMAIN parts = w[L].of /\ DOMAIN parts \subseteq 1..L /\ parts[L - 1] = b[L - 1][TRUE]
    BY <1>1, <1>2 DEF PartsOf
  <2>4. parts[L - 1] = LeafInputs(w, L - 1, TRUE)
    <3>1. b[L - 1][TRUE] = MadeInputs(w, L - 1, TRUE, b)
      BY <1>2, Built
    <3>2. MadeInputs(w, L - 1, TRUE, b) = LeafInputs(w, L - 1, TRUE)
      BY <1>3, MadeLeaf
    <3> QED  BY <2>3, <3>1, <3>2
  <2>5. \A x \in parts[L - 1] : path \in DOMAIN x /\ x[path] = Num(minimum - 1)
    <3> SUFFICES ASSUME NEW x \in parts[L - 1]
                 PROVE  path \in DOMAIN x /\ x[path] = Num(minimum - 1)
      OBVIOUS
    <3>1. x = WithPath(<<>>, path, LeafValue(w, L - 1, TRUE))
      BY <1>3, <2>4 DEF LeafInputs
    <3>2. LeafValue(w, L - 1, TRUE) = Num(minimum - 1)
      BY <1>3 DEF LeafValue, WitnessValue
    <3>3. Num(minimum - 1) \in {WitnessValue(w[L - 1]), CounterexampleValue(w[L - 1])}
      BY <1>3 DEF WitnessValue
    <3>4. /\ DOMAIN WithPath(<<>>, w[L - 1].path, Num(minimum - 1)) = {w[L - 1].path}
          /\ WithPath(<<>>, w[L - 1].path, Num(minimum - 1))[w[L - 1].path] = Num(minimum - 1)
      BY <1>4, <3>3, MadeOfLeaf
    <3> QED  BY <1>3, <3>1, <3>2, <3>4
  <2> HIDE DEF b, parts
  <2>6. \A k \in DOMAIN parts : parts[k] # {}
    BY Zenon, <2>1, <2>2 DEF Merged
  <2>7. /\ \A k \in DOMAIN parts : Input(k) \in parts[k]
        /\ \E y : Merged(parts) = {y} /\ IsMerge(y, parts)
    BY <1>2, <2>3, <2>6, Merges
  <2>8. /\ DOMAIN m = UNION {DOMAIN Input(k) : k \in DOMAIN parts}
        /\ \A q \in DOMAIN m : \E k \in DOMAIN parts :
             /\ q \in DOMAIN Input(k) /\ m[q] = Input(k)[q]
             /\ \A j \in DOMAIN parts : q \in DOMAIN Input(j) => j <= k
    <3>1. IsMerge(m, parts)
      BY <2>1, <2>2, <2>7
    <3> QED  BY <3>1 DEF IsMerge
  <2> HIDE DEF Input
  <2>9. L - 1 \in DOMAIN parts /\ Input(L - 1) \in parts[L - 1]
    BY <1>1, <2>3, <2>7
  <2>10. path \in DOMAIN Input(L - 1) /\ Input(L - 1)[path] = Num(minimum - 1)
    BY <2>5, <2>9
  <2>11. path \in DOMAIN m
    BY <2>8, <2>9, <2>10
  <2>12. PICK k \in DOMAIN parts : /\ m[path] = Input(k)[path]
                                   /\ \A j \in DOMAIN parts : path \in DOMAIN Input(j) => j <= k
    BY <2>8, <2>11
  <2>13. k = L - 1
    <3>1. k \in 1..(L - 1) /\ L - 1 <= k
      BY <1>1, <2>3, <2>9, <2>10, <2>12
    <3> QED  BY <3>1, <1>2
  <2>14. ResolvePath(m, path) = Num(minimum - 1)
    BY <2>10, <2>11, <2>12, <2>13 DEF ResolvePath
  <2>15. PICK input \in Inputs(w) : /\ EvaluateCondition(w, input) = EvaluateCondition(w, m)
                                    /\ \A q \in Paths(w) : input[q] = ResolvePath(m, q)
    <3>1. PICK x \in TestInputs(w) : x = m
      BY <2>1
    <3>2. \E input \in Inputs(w) : /\ EvaluateCondition(w, input) = EvaluateCondition(w, x)
                                   /\ \A q \in Paths(w) : input[q] = ResolvePath(x, q)
      BY Completed
    <3> QED  BY <3>1, <3>2
  <2> QED  BY <1>4, <2>1, <2>14, <2>15 DEF Fires
<1> QED  BY <1>1, <1>4, <1>5, <1>6

\* A minimum that is cited, and that the draft does not compare with, is asked for by the root.
LEMMA MinimumAsked ==
    ASSUME NEW c, IsCondition(c), NEW citations, MinimumCurrency(citations) \in Nat,
           MinimumCurrency(citations) > 0, ~HasNumericComparison(c),
           NumericRequirementCovered(NormalizePolicyCondition(c, citations), citations),
           \A p \in Predicates(NormalizePolicyCondition(c, citations)) : PredicateIssue(p) = {}
    PROVE  AsksForMinimum(NormalizePolicyCondition(c, citations), MinimumCurrency(citations))
<1> DEFINE w == NormalizePolicyCondition(c, citations)
<1>1. PICK p \in Predicates(w) : p.path \in CurrencyPaths /\ p.op \in {"lte", "gte", "eq"}
  BY DEF NumericRequirementCovered
<1>2. PredicateIssue(p) = {}
  BY <1>1
<1> HIDE DEF w
<1>3. p.path \in DOMAIN Facts /\ Facts[p.path].type = "currency" /\ p.path \notin ConflictPaths
  BY <1>1 DEF CurrencyPaths
<1>4. ValueAllowed("currency", p.op, p.value)
  BY <1>2, <1>3 DEF PredicateIssue
<1>5. p.value[1] = "num"
  BY <1>1, <1>4 DEF ValueAllowed, ScalarAllowed
<1>6. p \notin Predicates(c)
  BY <1>1, <1>5 DEF HasNumericComparison
<1>7. ~\A q \in Predicates(w) : q \in Predicates(c) \/ q.path \in ConflictPaths
  BY <1>1, <1>3, <1>6
<1> QED  BY <1>7, Normalized DEF w

LEMMA RulesHold == ASSUME StagesInv PROVE ReviewableRulesHold
<1>1. ReviewableRulesAreCited
  BY RulesAreCited
<1> SUFFICES ASSUME RuleReviewable PROVE ReviewableRulesDiscriminate /\ MinimumIsEnforced
  BY <1>1 DEF ReviewableRulesHold, ReviewableRulesDiscriminate, MinimumIsEnforced
<1> DEFINE c == work.draft.when
           w == work.rule.when
           citations == work.rule.citations
<1>2. /\ work.draft \in Drafts /\ w = NormalizePolicyCondition(c, citations)
      /\ work.rule.tests = BuildCanonicalRuleTests(w)
      /\ IsList(citations) /\ (\A i \in DOMAIN citations : IsList(citations[i].quote))
      /\ \A p \in Predicates(w) : PredicateIssue(p) = {}
      /\ MissingTests(work.rule.tests) = {}
      /\ NumericRequirementCovered(w, citations)
  BY ReviewedRule
<1>3. IsCondition(c)
  BY <1>2, DraftsAssumption
<1> HIDE DEF c, w, citations
<1>4. MinimumCurrency(citations) \in Nat
  BY <1>2, MinimumTyped
<1>5. IsCondition(w) /\ MissingTests(BuildCanonicalRuleTests(w)) = {}
  BY <1>2, <1>3, <1>4, Normalized
<1>6. ReviewableRulesDiscriminate
  BY <1>5, Discriminates DEF ReviewableRulesDiscriminate, w
<1>7. MinimumIsEnforced
  <2> DEFINE minimum == MinimumCurrency(citations)
  <2> SUFFICES ASSUME minimum > 0, ~HasNumericComparison(c)
               PROVE  \E path \in Paths(w) \cap CurrencyPaths :
                        /\ \A input \in Inputs(w) :
                             Fires(w, input) => input[path][1] = "num" /\ input[path][2] < minimum
                        /\ \E input \in Inputs(w) : Fires(w, input) /\ input[path] = Num(minimum - 1)
    BY DEF MinimumIsEnforced, Paths, c, w, citations
  <2>1. AsksForMinimum(w, minimum)
    BY <1>2, <1>3, <1>4, MinimumAsked
  <2> HIDE DEF minimum
  <2>2. minimum \in Nat
    BY <1>4 DEF minimum
  <2> QED  BY <1>2, <1>5, <2>1, <2>2, MinimumKept
<1> QED  BY <1>6, <1>7

\* Every rule that reaches review is cited word for word, fires on some case and not on another,
\* and enforces the minimum its citation names.
THEOREM ReviewedRulesHold == StagesSpec => []ReviewableRulesHold
<1>1. StagesInv => ReviewableRulesHold
  BY RulesHold
<1> QED  BY <1>1, StagesInvHolds, PTL

-----------------------------------------------------------------------------
\* The nodes below a node, itself among them: the least set with the node that has the parts of
\* what it has.
HasParts(c, S) == \A k \in S : c[k].op \in Combinators => c[k].of \subseteq S

Below(c, i) ==
  {j \in 1..Len(c) : \A S \in SUBSET (1..Len(c)) : i \in S /\ HasParts(c, S) => j \in S}

LEMMA BelowIs ==
    ASSUME NEW c, IsCondition(c), NEW i \in 1..Len(c)
    PROVE  /\ i \in Below(c, i) /\ Below(c, i) \subseteq 1..i /\ Below(c, i) \subseteq 1..Len(c)
           /\ HasParts(c, Below(c, i))
           /\ \A S \in SUBSET (1..Len(c)) : i \in S /\ HasParts(c, S) => Below(c, i) \subseteq S
<1> DEFINE N == Len(c)
<1>1. N \in Nat /\ \A k \in 1..N : c[k].op \in Combinators => /\ c[k].of \subseteq 1..(k - 1)
                                                                /\ c[k].of \subseteq 1..N
  BY Nodes
<1>2. i \in Below(c, i) /\ Below(c, i) \subseteq 1..N
  BY DEF Below
<1>3. \A S \in SUBSET (1..N) : i \in S /\ HasParts(c, S) => Below(c, i) \subseteq S
  BY DEF Below
<1>4. HasParts(c, Below(c, i))
  <2> SUFFICES ASSUME NEW k \in Below(c, i), c[k].op \in Combinators, NEW j \in c[k].of
               PROVE  j \in Below(c, i)
    BY DEF HasParts
  <2>1. j \in 1..N
    BY <1>1, <1>2
  <2>2. ASSUME NEW S \in SUBSET (1..N), i \in S, HasParts(c, S) PROVE j \in S
    <3>1. k \in S
      BY <1>3, <2>2
    <3> QED  BY <2>2, <3>1 DEF HasParts
  <2> QED  BY <2>1, <2>2 DEF Below
<1>5. Below(c, i) \subseteq 1..i
  <2> HIDE DEF N
  <2>1. i \in 1..N
    BY DEF N
  <2>2. 1..i \in SUBSET (1..N) /\ i \in 1..i
    BY <1>1, <2>1
  <2>3. HasParts(c, 1..i)
    <3> SUFFICES ASSUME NEW k \in 1..i, c[k].op \in Combinators PROVE c[k].of \subseteq 1..i
      BY DEF HasParts
    <3>1. k \in 1..N
      BY <2>2
    <3>2. c[k].of \subseteq 1..(k - 1)
      BY <1>1, <3>1
    <3>3. i \in Nat /\ k \in Nat /\ k <= i
      BY <2>1, <1>1
    <3> QED  BY <3>2, <3>3
  <2> QED  BY <2>2, <2>3, <1>3
<1> QED  BY <1>2, <1>3, <1>4, <1>5

\* What is below a node and is not the node is part of something below it.
LEMMA PartOfSome ==
    ASSUME NEW c, IsCondition(c), NEW i \in 1..Len(c), NEW j \in Below(c, i), j # i
    PROVE  \E p \in Below(c, i) : c[p].op \in Combinators /\ j \in c[p].of
<1> DEFINE B == Below(c, i)
           S == {i} \cup {k \in B : \E p \in B : c[p].op \in Combinators /\ k \in c[p].of}
<1>1. /\ i \in B /\ B \subseteq 1..Len(c) /\ HasParts(c, B)
      /\ \A T \in SUBSET (1..Len(c)) : i \in T /\ HasParts(c, T) => B \subseteq T
  BY BelowIs
<1> HIDE DEF B
<1>2. S \in SUBSET (1..Len(c)) /\ i \in S /\ S \subseteq B
  BY <1>1
<1>3. HasParts(c, S)
  <2> SUFFICES ASSUME NEW k \in S, c[k].op \in Combinators, NEW m \in c[k].of PROVE m \in S
    BY DEF HasParts
  <2>1. k \in B /\ m \in B
    BY <1>1, <1>2 DEF HasParts
  <2> QED  BY <2>1
<1>4. B \subseteq S
  <2> HIDE DEF S
  <2> QED  BY <1>1, <1>2, <1>3
<1> QED  BY <1>4 DEF B

\* The parts of a node have nothing below them in common.
LEMMA BelowSubset ==
    ASSUME NEW c, IsCondition(c), NEW i \in 1..Len(c), c[i].op \in Combinators, NEW k \in c[i].of
    PROVE  Below(c, k) \subseteq Below(c, i) /\ k \in 1..Len(c) /\ i \notin Below(c, k)
<1>1. c[i].of \subseteq 1..Len(c) /\ c[i].of \subseteq 1..(i - 1)
  BY Nodes
<1>2. k \in 1..Len(c) /\ k \in 1..(i - 1)
  BY <1>1
<1>3. Below(c, i) \in SUBSET (1..Len(c)) /\ HasParts(c, Below(c, i)) /\ i \in Below(c, i)
  BY BelowIs
<1>4. k \in Below(c, i)
  BY <1>3 DEF HasParts
<1>5. Below(c, k) \subseteq Below(c, i) /\ Below(c, k) \subseteq 1..k
  BY <1>2, <1>3, <1>4, BelowIs
<1>6. i \notin 1..k
  BY <1>2
<1> QED  BY <1>2, <1>5, <1>6

LEMMA NotBelow ==
    ASSUME NEW c, IsCondition(c), NEW i \in 1..Len(c), c[i].op \in Combinators,
           NEW k \in c[i].of, NEW m \in c[i].of, k # m
    PROVE  k \notin Below(c, m)
<1> SUFFICES ASSUME k \in Below(c, m) PROVE FALSE
  OBVIOUS
<1>1. m \in 1..Len(c) /\ i \notin Below(c, m)
  BY BelowSubset
<1>2. PICK p \in Below(c, m) : c[p].op \in Combinators /\ k \in c[p].of
  BY <1>1, PartOfSome
<1>3. p \in 1..Len(c) /\ p # i
  BY <1>1, <1>2, BelowIs
<1>4. Apart(c) /\ DOMAIN c = 1..Len(c)
  BY ConditionIs, Nodes
<1>5. c[p].of \cap c[i].of = {}
  BY <1>2, <1>3, <1>4 DEF Apart
<1> QED  BY <1>2, <1>5

LEMMA BelowApart ==
    ASSUME NEW c, IsCondition(c), NEW i \in 1..Len(c), c[i].op \in Combinators,
           NEW k \in c[i].of, NEW m \in c[i].of, k # m
    PROVE  Below(c, k) \cap Below(c, m) = {}
<1> DEFINE T == Below(c, k) \cap Below(c, m)
<1> SUFFICES ASSUME T # {} PROVE FALSE
  OBVIOUS
<1>1. k \in 1..Len(c) /\ m \in 1..Len(c) /\ k \notin Below(c, m) /\ m \notin Below(c, k)
  BY BelowSubset, NotBelow
<1>2. T \subseteq 1..Len(c) /\ Len(c) \in Nat
  BY <1>1, BelowIs, Nodes
<1>3. PICK j \in T : \A x \in T : x <= j
  <2> HIDE DEF T
  <2>1. Max(T) \in T /\ \A x \in T : x <= Max(T)
    BY <1>2, MaxIsLast
  <2> QED  BY <2>1
<1>4. j \in Below(c, k) /\ j \in Below(c, m) /\ j # k /\ j # m
  BY <1>1
<1>5. PICK p \in Below(c, k) : c[p].op \in Combinators /\ j \in c[p].of
  BY <1>1, <1>4, PartOfSome
<1>6. PICK q \in Below(c, m) : c[q].op \in Combinators /\ j \in c[q].of
  BY <1>1, <1>4, PartOfSome
<1>7. p \in 1..Len(c) /\ q \in 1..Len(c)
  BY <1>1, BelowIs
<1>8. p = q
  <2>1. Apart(c) /\ DOMAIN c = 1..Len(c)
    BY ConditionIs, Nodes
  <2>2. p # q => c[p].of \cap c[q].of = {}
    BY <1>5, <1>6, <1>7, <2>1 DEF Apart
  <2> QED  BY <1>5, <1>6, <2>2
<1>9. p \in T
  BY <1>8
<1>10. p <= j
  BY <1>3, <1>9
<1>11. j \in 1..(p - 1)
  BY <1>5, <1>7, Nodes
<1> QED  BY <1>7, <1>10, <1>11

\* The paths read below a node; the parts of one read different ones if no two predicates of the
\* condition read the same.
PathsBelow(c, i) == {c[j].path : j \in Below(c, i) \cap Leaves(c)}

OnePathEach(c) == \A i, j \in Leaves(c) : c[i].path = c[j].path => i = j

LEMMA PathsOfParts ==
    ASSUME NEW c, IsCondition(c), NEW i \in 1..Len(c), c[i].op \in Combinators, NEW k \in c[i].of
    PROVE  /\ PathsBelow(c, k) \subseteq PathsBelow(c, i)
           /\ OnePathEach(c) => \A m \in c[i].of : k # m => PathsBelow(c, k) \cap PathsBelow(c, m) = {}
<1>1. Below(c, k) \subseteq Below(c, i)
  BY BelowSubset
<1>2. \A m \in c[i].of : k # m => Below(c, k) \cap Below(c, m) = {}
  BY BelowApart
<1> QED  BY <1>1, <1>2 DEF PathsBelow, OnePathEach

-----------------------------------------------------------------------------
\* An input forces a node to a goal when every input that has its values takes the node there.
Agrees(y, x) == \A q \in DOMAIN x : ResolvePath(y, q) = x[q]

Forces(c, i, goal, x) ==
  /\ DOMAIN x \subseteq PathsBelow(c, i)
  /\ \A y : Agrees(y, x) => Evaluation(c, y)[i] = goal

OneForces(c, i, goal, made) == \E x : made = {x} /\ Forces(c, i, goal, x)

\* The values made up for each predicate do what they are made for.
Decided(p) == Satisfies(WitnessValue(p), p) = TRUE /\ Satisfies(CounterexampleValue(p), p) = FALSE

Decisive(c) == OnePathEach(c) /\ \A i \in Leaves(c) : Decided(c[i])

LEMMA AgreesWithItself == ASSUME NEW x PROVE Agrees(x, x)
BY DEF Agrees, ResolvePath

LEMMA NodeIs ==
    ASSUME NEW c, IsCondition(c), NEW i \in 1..Len(c), NEW y
    PROVE  Evaluation(c, y)[i] = NodeHolds(c, y, i, Evaluation(c, y)) /\ Evaluation(c, y)[i] \in BOOLEAN
BY Evaluated

LEMMA ForcedLeaf ==
    ASSUME NEW c, IsCondition(c), NEW i \in Leaves(c), Decided(c[i]), NEW goal \in BOOLEAN
    PROVE  OneForces(c, i, goal, LeafInputs(c, i, goal))
<1> DEFINE v == LeafValue(c, i, goal)
           x == WithPath(<<>>, c[i].path, v)
           path == c[i].path
<1>1. v \in {WitnessValue(c[i]), CounterexampleValue(c[i])} /\ Satisfies(v, c[i]) = goal
  BY DEF LeafValue, Decided
<1> HIDE DEF v
<1>2. DOMAIN x = {path} /\ x[path] = v
  BY <1>1, MadeOfLeaf
<1>3. LeafInputs(c, i, goal) = {z \in {x} : Evaluation(c, z)[i] = goal}
  BY DEF LeafInputs, v
<1> HIDE DEF x
<1>4. i \in 1..Len(c) /\ c[i].op \notin Combinators
  BY Nodes DEF Leaves
<1>5. i \in Below(c, i)
  BY <1>4, BelowIs
<1>6. DOMAIN x \subseteq PathsBelow(c, i)
  BY <1>2, <1>5 DEF PathsBelow
<1>7. ASSUME NEW y, Agrees(y, x) PROVE Evaluation(c, y)[i] = goal
  <2>1. ResolvePath(y, path) = v
    BY <1>2, <1>7 DEF Agrees
  <2>2. Evaluation(c, y)[i] = NodeHolds(c, y, i, Evaluation(c, y))
    BY <1>4, NodeIs
  <2>3. NodeHolds(c, y, i, Evaluation(c, y)) = Satisfies(ResolvePath(y, path), c[i])
    BY <1>4 DEF NodeHolds, Combinators
  <2> QED  BY <1>1, <2>1, <2>2, <2>3
<1>8. Evaluation(c, x)[i] = goal
  BY <1>7, AgreesWithItself
<1>9. LeafInputs(c, i, goal) = {x}
  BY <1>3, <1>8
<1> QED  BY <1>6, <1>7, <1>9 DEF OneForces, Forces

MergeForces(c, i, goal, parts) ==
  \E m : /\ Merged(parts) = {m} /\ DOMAIN m \subseteq PathsBelow(c, i)
         /\ \A y : Agrees(y, m) => \A k \in c[i].of : Evaluation(c, y)[k] = goal

\* Merged, the inputs that force the parts of a node force all of them: no path is in two.
LEMMA ForcedMerge ==
    ASSUME NEW c, IsCondition(c), OnePathEach(c), NEW i \in 1..Len(c), c[i].op \in Combinators,
           NEW goal, NEW parts, DOMAIN parts = c[i].of,
           \A k \in c[i].of : OneForces(c, k, goal, parts[k])
    PROVE  MergeForces(c, i, goal, parts)
<1> DEFINE N == Len(c)
           Input(k) == InputOf(parts, k)
<1>1. N \in Nat /\ DOMAIN parts \subseteq 1..N
  BY Nodes
<1>2. \A k \in DOMAIN parts : parts[k] # {}
  BY DEF OneForces
<1>3. /\ \A k \in DOMAIN parts : InputOf(parts, k) \in parts[k]
      /\ \E m : Merged(parts) = {m} /\ IsMerge(m, parts)
  <2> HIDE DEF N
  <2> QED  BY <1>1, <1>2, Merges
<1>4. PICK m : Merged(parts) = {m} /\ IsMerge(m, parts)
  BY <1>3
<1>5. ASSUME NEW k \in c[i].of PROVE Forces(c, k, goal, Input(k))
  <2>1. PICK x : parts[k] = {x} /\ Forces(c, k, goal, x)
    BY DEF OneForces
  <2>2. InputOf(parts, k) = x
    BY <1>3, <2>1
  <2> QED  BY <2>1, <2>2
<1> HIDE DEF Input
<1>6. /\ DOMAIN m = UNION {DOMAIN Input(k) : k \in c[i].of}
      /\ \A q \in DOMAIN m : \E k \in c[i].of : q \in DOMAIN Input(k) /\ m[q] = Input(k)[q]
  BY <1>4 DEF IsMerge, Input
<1>7. \A k \in c[i].of : DOMAIN Input(k) \subseteq PathsBelow(c, k)
  BY <1>5 DEF Forces
<1>8. DOMAIN m \subseteq PathsBelow(c, i)
  <2>1. \A k \in c[i].of : PathsBelow(c, k) \subseteq PathsBelow(c, i)
    BY PathsOfParts
  <2> QED  BY <1>6, <1>7, <2>1
<1>9. ASSUME NEW y, Agrees(y, m), NEW k \in c[i].of PROVE Evaluation(c, y)[k] = goal
  <2>1. ASSUME NEW q \in DOMAIN Input(k) PROVE ResolvePath(y, q) = Input(k)[q]
    <3>1. q \in DOMAIN m
      BY <1>6
    <3>2. PICK j \in c[i].of : q \in DOMAIN Input(j) /\ m[q] = Input(j)[q]
      BY <1>6, <3>1
    <3>3. q \in PathsBelow(c, k) \cap PathsBelow(c, j)
      BY <1>7, <3>2
    <3>4. j = k
      BY <3>3, PathsOfParts
    <3> QED  BY <1>9, <3>1, <3>2, <3>4 DEF Agrees
  <2>2. Agrees(y, Input(k))
    BY <2>1 DEF Agrees
  <2> QED  BY <1>5, <2>2 DEF Forces
<1> QED  BY <1>4, <1>8, <1>9 DEF MergeForces

\* What its parts come to decides a node.
LEMMA PartsDecide ==
    ASSUME NEW c, IsCondition(c), NEW i \in 1..Len(c), NEW y
    PROVE  /\ c[i].op = "all" => /\ (\A k \in c[i].of : Evaluation(c, y)[k] = TRUE) => Evaluation(c, y)[i] = TRUE
                                 /\ (\E k \in c[i].of : Evaluation(c, y)[k] = FALSE) => Evaluation(c, y)[i] = FALSE
           /\ c[i].op = "any" => /\ (\A k \in c[i].of : Evaluation(c, y)[k] = FALSE) => Evaluation(c, y)[i] = FALSE
                                 /\ (\E k \in c[i].of : Evaluation(c, y)[k] = TRUE) => Evaluation(c, y)[i] = TRUE
           /\ c[i].op = "not" => \A k : c[i].of = {k} => Evaluation(c, y)[i] = ~Evaluation(c, y)[k]
<1> DEFINE h == Evaluation(c, y)
<1>1. h[i] = NodeHolds(c, y, i, h) /\ h[i] \in BOOLEAN
  BY NodeIs
<1>2. c[i].op \in Combinators => c[i].of \subseteq 1..Len(c)
  BY Nodes
<1>3. \A k \in 1..Len(c) : h[k] \in BOOLEAN
  BY NodeIs
<1> HIDE DEF h
<1>4. CASE c[i].op = "all"
  <2>1. NodeHolds(c, y, i, h) = \A k \in c[i].of : h[k]
    BY <1>4 DEF NodeHolds
  <2>2. \A k \in c[i].of : h[k] \in BOOLEAN
    BY <1>2, <1>3, <1>4 DEF Combinators
  <2> QED  BY <1>1, <1>4, <2>1, <2>2 DEF h
<1>5. CASE c[i].op = "any"
  <2>1. NodeHolds(c, y, i, h) = \E k \in c[i].of : h[k]
    BY <1>5 DEF NodeHolds
  <2>2. \A k \in c[i].of : h[k] \in BOOLEAN
    BY <1>2, <1>3, <1>5 DEF Combinators
  <2> QED  BY <1>1, <1>5, <2>1, <2>2 DEF h
<1>6. CASE c[i].op = "not"
  <2>1. NodeHolds(c, y, i, h) = \A k \in c[i].of : ~h[k]
    BY <1>6 DEF NodeHolds
  <2>2. \A k \in c[i].of : h[k] \in BOOLEAN
    BY <1>2, <1>3, <1>6 DEF Combinators
  <2> QED  BY <1>1, <1>6, <2>1, <2>2 DEF h
<1> QED  BY <1>4, <1>5, <1>6

\* One input is made for a node and a goal, and it forces the node to the goal, if one is made
\* for each of the parts and does.
LEMMA ForcedMade ==
    ASSUME NEW c, IsCondition(c), Decisive(c), NEW i \in 1..Len(c), NEW b,
           c[i].op \in Combinators =>
             \A k \in c[i].of, g \in BOOLEAN : OneForces(c, k, g, b[k][g]),
           NEW goal \in BOOLEAN
    PROVE  OneForces(c, i, goal, MadeInputs(c, i, goal, b))
<1> DEFINE parts == PartsOf(c, i, goal, b)
           made == MadeInputs(c, i, goal, b)
<1>1. CASE c[i].op \notin Combinators
  <2>1. i \in Leaves(c) /\ Decided(c[i])
    BY <1>1, Nodes DEF Leaves, Decisive
  <2>2. made = LeafInputs(c, i, goal)
    BY <1>1, MadeLeaf
  <2> QED  BY <2>1, <2>2, ForcedLeaf
<1>2. ASSUME c[i].op \in Combinators
      PROVE  /\ DOMAIN parts = c[i].of /\ c[i].of # {}
             /\ \A k \in c[i].of : OneForces(c, k, goal, parts[k])
  BY <1>2, Nodes DEF PartsOf
<1>3. ASSUME c[i].op \in Combinators
      PROVE  MergeForces(c, i, goal, parts)
  <2>1. DOMAIN parts = c[i].of /\ \A k \in c[i].of : OneForces(c, k, goal, parts[k])
    BY <1>2, <1>3
  <2>2. OnePathEach(c)
    BY DEF Decisive
  <2> HIDE DEF parts
  <2> QED  BY <1>3, <2>1, <2>2, ForcedMerge
<1>4. CASE c[i].op = "not"
  <2>1. PICK k \in c[i].of : c[i].of = {k} /\ made = b[k][~goal]
    BY <1>4, MadeNot
  <2>2. OneForces(c, k, ~goal, made)
    BY <1>4, <2>1 DEF Combinators
  <2> HIDE DEF made
  <2>3. PICK x : made = {x} /\ Forces(c, k, ~goal, x)
    BY <2>2 DEF OneForces
  <2>4. \A y : Evaluation(c, y)[i] = ~Evaluation(c, y)[k]
    BY <1>4, <2>1, PartsDecide
  <2>5. PathsBelow(c, k) \subseteq PathsBelow(c, i)
    BY <1>4, PathsOfParts DEF Combinators
  <2>6. Forces(c, i, goal, x)
    BY <2>3, <2>4, <2>5 DEF Forces
  <2> QED  BY <2>3, <2>6 DEF OneForces, made
<1>5. CASE c[i].op = "all" /\ goal = TRUE
  <2>1. PICK m : /\ Merged(parts) = {m} /\ DOMAIN m \subseteq PathsBelow(c, i)
                 /\ \A y : Agrees(y, m) => \A k \in c[i].of : Evaluation(c, y)[k] = goal
    BY <1>3, <1>5 DEF Combinators, MergeForces
  <2>2. \A y : Agrees(y, m) => Evaluation(c, y)[i] = goal
    BY <1>5, <2>1, PartsDecide
  <2>3. made = {m}
    BY <1>5, <2>1, MadeMerged
  <2> QED  BY <2>1, <2>2, <2>3 DEF OneForces, Forces
<1>6. CASE c[i].op = "any" /\ goal = FALSE
  <2>1. PICK m : /\ Merged(parts) = {m} /\ DOMAIN m \subseteq PathsBelow(c, i)
                 /\ \A y : Agrees(y, m) => \A k \in c[i].of : Evaluation(c, y)[k] = goal
    BY <1>3, <1>6 DEF Combinators, MergeForces
  <2>2. \A y : Agrees(y, m) => Evaluation(c, y)[i] = goal
    BY <1>6, <2>1, PartsDecide
  <2>3. \A x : x \in made <=> x \in Merged(parts) /\ Evaluation(c, x)[i] = FALSE
    BY <1>6, MadeMergedFalse
  <2> HIDE DEF made, parts
  <2>4. m \in made
    BY <1>6, <2>1, <2>2, <2>3, AgreesWithItself
  <2>5. made = {m}
    BY <2>1, <2>3, <2>4
  <2> QED  BY <2>1, <2>2, <2>5 DEF OneForces, Forces, made
<1>7. CASE c[i].op = (IF goal THEN "any" ELSE "all")
  <2>1. c[i].op \in Combinators
    BY <1>7 DEF Combinators
  <2>2. ASSUME NEW k \in c[i].of PROVE k \in Suited(c, i, goal, b)
    <3>1. PICK x : parts[k] = {x} /\ Forces(c, k, goal, x)
      BY <1>2, <2>1 DEF OneForces
    <3>2. Evaluation(c, x)[k] = goal
      BY <3>1, AgreesWithItself DEF Forces
    <3> QED  BY <3>1, <3>2 DEF Suited
  <2>3. PICK k \in c[i].of : made = parts[k]
    BY <1>2, <1>7, <2>1, <2>2, MadeFirst DEF Suited
  <2> HIDE DEF made, parts
  <2>4. PICK x : made = {x} /\ Forces(c, k, goal, x)
    BY <1>2, <2>1, <2>3 DEF OneForces
  <2>5. \A y : Evaluation(c, y)[k] = goal => Evaluation(c, y)[i] = goal
    <3> SUFFICES ASSUME NEW y, Evaluation(c, y)[k] = goal PROVE Evaluation(c, y)[i] = goal
      OBVIOUS
    <3>1. CASE goal = TRUE
      <4>1. c[i].op = "any" /\ \E j \in c[i].of : Evaluation(c, y)[j] = TRUE
        BY <1>7, <3>1
      <4> QED  BY <3>1, <4>1, PartsDecide
    <3>2. CASE goal = FALSE
      <4>1. c[i].op = "all" /\ \E j \in c[i].of : Evaluation(c, y)[j] = FALSE
        BY <1>7, <3>2
      <4> QED  BY <3>2, <4>1, PartsDecide
    <3> QED  BY <3>1, <3>2
  <2>6. PathsBelow(c, k) \subseteq PathsBelow(c, i)
    BY <2>1, PathsOfParts
  <2>7. Forces(c, i, goal, x)
    BY <2>4, <2>5, <2>6 DEF Forces
  <2> QED  BY <2>4, <2>7 DEF OneForces, made
<1> QED  BY <1>1, <1>4, <1>5, <1>6, <1>7 DEF Combinators

LEMMA Forced ==
    ASSUME NEW c, IsCondition(c), Decisive(c)
    PROVE  \A i \in 1..Len(c), goal \in BOOLEAN : OneForces(c, i, goal, BuildInputs(c)[i][goal])
<1> DEFINE N == Len(c)
           b == BuildInputs(c)
           Good == {i \in 1..N : \A goal \in BOOLEAN : OneForces(c, i, goal, b[i][goal])}
<1>1. N \in Nat
  BY Nodes
<1> HIDE DEF b
<1>2. ASSUME NEW i \in 1..N, \A j \in 1..(i - 1) : j \in Good PROVE i \in Good
  <2> SUFFICES ASSUME NEW goal \in BOOLEAN PROVE OneForces(c, i, goal, b[i][goal])
    OBVIOUS
  <2>1. c[i].op \in Combinators => \A k \in c[i].of, g \in BOOLEAN : OneForces(c, k, g, b[k][g])
    BY <1>2, Nodes
  <2>2. OneForces(c, i, goal, MadeInputs(c, i, goal, b))
    BY <2>1, ForcedMade
  <2>3. b[i][goal] = MadeInputs(c, i, goal, b)
    BY Built DEF b
  <2> QED  BY <2>2, <2>3
<1> HIDE DEF N, Good
<1>3. \A i \in 1..N : i \in Good
  BY <1>1, <1>2, EntryByEntry
<1> QED  BY <1>3 DEF Good, N, b

-----------------------------------------------------------------------------
\* The predicate the tests turn on is a comparison if the condition has one.
Telling(ps) ==
  LET comparisons == {p \in ps : p.op # "exists"} IN IF comparisons = {} THEN ps ELSE comparisons

LEMMA PrimaryTells ==
    ASSUME NEW c, IsCondition(c)
    PROVE  \E i \in Leaves(c) : SelectTestPredicate(c) = c[i] /\ c[i] \in Telling(Predicates(c))
<1> DEFINE comparisons == {i \in Leaves(c) : c[i].op # "exists"}
           candidates == IF comparisons = {} THEN Leaves(c) ELSE comparisons
<1>1. Leaves(c) # {} /\ Leaves(c) \subseteq Nat
  BY Nodes
<1>2. candidates # {} /\ candidates \subseteq Leaves(c) /\ candidates \subseteq Nat
  BY <1>1
<1>3. SelectTestPredicate(c) = c[Min(candidates)]
  BY Zenon DEF SelectTestPredicate
<1>4. Min(candidates) \in candidates
  <2> HIDE DEF candidates
  <2> QED  BY <1>2, MinIsLeast
<1>5. PICK i \in candidates : SelectTestPredicate(c) = c[i]
  BY <1>3, <1>4
<1>6. i \in Leaves(c) /\ c[i] \in Predicates(c)
  BY <1>2 DEF Predicates
<1>7. c[i] \in Telling(Predicates(c))
  <2>1. CASE comparisons = {}
    <3>1. {p \in Predicates(c) : p.op # "exists"} = {}
      BY <2>1 DEF Predicates
    <3> QED  BY <1>6, <3>1 DEF Telling
  <2>2. CASE comparisons # {}
    <3>1. c[i].op # "exists"
      BY <2>2
    <3>2. c[i] \in {p \in Predicates(c) : p.op # "exists"}
      BY <1>6, <3>1
    <3> QED  BY <3>2 DEF Telling
  <2> QED  BY <2>1, <2>2
<1> QED  BY <1>5, <1>6, <1>7

\* A value on the edge of a predicate, as the governance rules judge it.
OnEdge(input, p) ==
  LET Actual == ResolvePath(input, p.path)
  IN CASE p.op = "exists" -> p.value[2] = (Actual # Undefined)
       [] p.op # "exists" /\ Actual = Undefined -> FALSE
       [] p.op = "in" /\ Actual # Undefined -> Contains(p.value[2], Actual)
       [] p.op = "contains" /\ Actual # Undefined -> Satisfies(Actual, p)
       [] OTHER -> Actual = p.value

Edged(p) == \A input : ResolvePath(input, p.path) = BoundaryValue(p) => OnEdge(input, p)

LEMMA EdgeFound ==
    ASSUME NEW input, NEW ps, NEW p \in Telling(ps), OnEdge(input, p)
    PROVE  HasBoundaryValue(input, ps)
<1>1. HasBoundaryValue(input, ps) = \E q \in Telling(ps) : OnEdge(input, q)
  BY Zenon DEF HasBoundaryValue, OnEdge, Telling
<1> QED  BY <1>1

\* The four tests of a condition.
TestOf(c, kind, input) == [kind |-> kind, input |-> input, expected |-> EvaluateCondition(c, input)]

FourTests(c, m, n, path, edge) ==
  << TestOf(c, "match", m), TestOf(c, "no_match", n),
     TestOf(c, "missing_value", WithoutPath(m, path)),
     TestOf(c, "boundary", WithPath(m, path, edge)) >>

LEMMA TestsAre ==
    ASSUME NEW c, IsCondition(c), Decisive(c)
    PROVE  \E m, n : /\ BuildCanonicalRuleTests(c) =
                          FourTests(c, m, n, SelectTestPredicate(c).path, BoundaryValue(SelectTestPredicate(c)))
                     /\ EvaluateCondition(c, m) = TRUE /\ EvaluateCondition(c, n) = FALSE
<1> DEFINE primary == SelectTestPredicate(c)
           match == BuildWitness(c)
           targeted == {WithPath(m, primary.path, CounterexampleValue(primary)) : m \in match}
           misses == \E x \in targeted : ~EvaluateCondition(c, x)
           noMatch == IF misses THEN targeted ELSE BuildCounterexample(c)
           fails == \/ \A m \in match : ~EvaluateCondition(c, m)
                    \/ \A x \in noMatch : EvaluateCondition(c, x)
           M == CHOOSE x \in match : TRUE
           K == CHOOSE x \in noMatch : TRUE
<1>1. BuildCanonicalRuleTests(c) =
        IF fails THEN <<>> ELSE FourTests(c, M, K, primary.path, BoundaryValue(primary))
  BY Zenon DEF BuildCanonicalRuleTests, FourTests, TestOf
<1>2. Len(c) \in 1..Len(c)
  BY Nodes
<1>3. \A x : EvaluateCondition(c, x) = Evaluation(c, x)[Len(c)] /\ EvaluateCondition(c, x) \in BOOLEAN
  BY <1>2, NodeIs DEF EvaluateCondition
<1>4. PICK m : match = {m} /\ Forces(c, Len(c), TRUE, m)
  BY <1>2, Forced DEF BuildWitness, OneForces
<1>5. EvaluateCondition(c, m) = TRUE
  BY <1>3, <1>4, AgreesWithItself DEF Forces
<1>6. PICK x : BuildCounterexample(c) = {x} /\ Forces(c, Len(c), FALSE, x)
  BY <1>2, Forced DEF BuildCounterexample, OneForces
<1>7. EvaluateCondition(c, x) = FALSE
  BY <1>3, <1>6, AgreesWithItself DEF Forces
<1> HIDE DEF primary, match
<1>8. \E n : noMatch = {n} /\ EvaluateCondition(c, n) = FALSE
  <2>1. targeted = {WithPath(m, primary.path, CounterexampleValue(primary))}
    BY <1>4
  <2> HIDE DEF targeted
  <2>2. CASE misses
    <3>1. EvaluateCondition(c, WithPath(m, primary.path, CounterexampleValue(primary))) = FALSE
      BY <1>3, <2>1, <2>2
    <3> QED  BY <2>1, <2>2, <3>1
  <2>3. CASE ~misses
    <3>1. noMatch = {x}
      BY Zenon, <1>6, <2>3
    <3> QED  BY <1>7, <3>1
  <2> QED  BY <2>2, <2>3
<1> HIDE DEF noMatch
<1>9. PICK n : noMatch = {n} /\ EvaluateCondition(c, n) = FALSE
  BY <1>8
<1>10. ~fails /\ M = m /\ K = n
  BY <1>4, <1>5, <1>9
<1> HIDE DEF fails, M, K
<1>11. BuildCanonicalRuleTests(c) = FourTests(c, m, n, primary.path, BoundaryValue(primary))
  BY <1>1, <1>10
<1> QED  BY <1>5, <1>9, <1>11 DEF primary

\* Each of them is of its kind.
LEMMA TestsPass ==
    ASSUME NEW c, IsCondition(c), Decisive(c),
           \A i \in Leaves(c) : Edged(c[i])
    PROVE  /\ MissingTests(BuildCanonicalRuleTests(c)) = {}
           /\ TestsHold(c, BuildCanonicalRuleTests(c))
<1> DEFINE primary == SelectTestPredicate(c)
           tests == BuildCanonicalRuleTests(c)
           path == primary.path
           edge == BoundaryValue(primary)
<1>1. PICK i \in Leaves(c) : primary = c[i] /\ c[i] \in Telling(Predicates(c))
  BY PrimaryTells
<1>2. PICK m, n : /\ tests = FourTests(c, m, n, path, edge)
                  /\ EvaluateCondition(c, m) = TRUE /\ EvaluateCondition(c, n) = FALSE
  BY TestsAre
<1> HIDE DEF primary, tests, edge
<1>3. DOMAIN tests = {1, 2, 3, 4}
      /\ tests[1] = TestOf(c, "match", m) /\ tests[2] = TestOf(c, "no_match", n)
      /\ tests[3] = TestOf(c, "missing_value", WithoutPath(m, path))
      /\ tests[4] = TestOf(c, "boundary", WithPath(m, path, edge))
  <2> HIDE DEF path
  <2>1. \A t1, t2, t3, t4 : DOMAIN <<t1, t2, t3, t4>> = {1, 2, 3, 4}
    OBVIOUS
  <2> QED  BY <1>2, <2>1 DEF FourTests
<1>4. \A kind, x : /\ TestOf(c, kind, x).kind = kind /\ TestOf(c, kind, x).input = x
                   /\ TestOf(c, kind, x).expected = EvaluateCondition(c, x)
  BY DEF TestOf
<1>5. MissingTests(tests) = {}
  BY <1>3, <1>4 DEF MissingTests, RequiredTests
<1>6. ValidateTestKindSemantics(c, tests[1])
  <2>1. tests[1].kind = "match" /\ tests[1].expected = TRUE
    BY <1>2, <1>3, <1>4
  <2>2. \A t : t.kind = "match" => ValidateTestKindSemantics(c, t) = t.expected
    BY Zenon DEF ValidateTestKindSemantics
  <2> QED  BY Zenon, <2>1, <2>2
<1>7. ValidateTestKindSemantics(c, tests[2])
  <2>1. tests[2].kind = "no_match" /\ tests[2].expected = FALSE
    BY <1>2, <1>3, <1>4
  <2>2. \A t : t.kind = "no_match" => ValidateTestKindSemantics(c, t) = ~t.expected
    <3>1. "no_match" # "match"
      OBVIOUS
    <3> QED  BY Zenon, <3>1 DEF ValidateTestKindSemantics
  <2> QED  BY Zenon, <2>1, <2>2
<1>8. ValidateTestKindSemantics(c, tests[3])
  <2>1. c[i] \in Predicates(c) /\ c[i].path = path
    BY <1>1 DEF Predicates
  <2>2. path \notin DOMAIN WithoutPath(m, path)
    BY DEF WithoutPath, Restrict
  <2>3. ResolvePath(WithoutPath(m, path), path) = Undefined
    BY <2>2 DEF ResolvePath
  <2>4. tests[3].kind = "missing_value" /\ tests[3].input = WithoutPath(m, path)
    BY <1>3, <1>4
  <2> QED  BY <2>1, <2>3, <2>4 DEF ValidateTestKindSemantics
<1>9. ValidateTestKindSemantics(c, tests[4])
  <2> DEFINE x == WithPath(m, path, edge)
  <2>1. path \in DOMAIN x /\ x[path] = edge
    BY DEF WithPath, Put
  <2> HIDE DEF x
  <2>2. ResolvePath(x, c[i].path) = BoundaryValue(c[i])
    BY <1>1, <2>1 DEF ResolvePath, edge
  <2>3. OnEdge(x, c[i])
    BY <2>2 DEF Edged
  <2>4. HasBoundaryValue(x, Predicates(c))
    BY <1>1, <2>3, EdgeFound
  <2>5. tests[4].kind = "boundary" /\ tests[4].input = x
    BY <1>3, <1>4 DEF x
  <2> QED  BY <2>4, <2>5 DEF ValidateTestKindSemantics
<1>10. \A k \in DOMAIN tests : EvaluateCondition(c, tests[k].input) = tests[k].expected
  BY <1>3, <1>4
<1>11. TestsHold(c, tests)
  BY <1>3, <1>6, <1>7, <1>8, <1>9, <1>10 DEF TestsHold
<1> QED  BY <1>5, <1>11 DEF tests

-----------------------------------------------------------------------------
\* The kinds of values a plain predicate compares with.
LEMMA PlainValue ==
    ASSUME NEW p, IsPredicate(p), PredicateIssue(p) = {}, Plain(p)
    PROVE  /\ p.op \in {"exists", "eq", "neq", "contains", "gte", "lte", "before", "after"}
           /\ p.op = "exists" => p.value = Bool(TRUE) \/ p.value = Bool(FALSE)
           /\ p.op # "exists" => IsScalar(p.value) /\ p.value # Undefined
           /\ p.op \in {"gte", "lte"} => p.value = Num(p.value[2]) /\ p.value[2] \in Int
           /\ p.op \in {"before", "after"} => p.value = Date(p.value[2]) /\ p.value[2] \in Int
           /\ p.op = "contains" => p.value = Text(p.value[2]) /\ IsList(p.value[2]) /\ p.value[2] # <<>>
<1>1. p.op \in {"exists", "eq", "neq", "contains", "gte", "lte", "before", "after"}
  BY DEF IsPredicate, Operators, Plain
<1>2. p.op = "exists" => p.value = Bool(TRUE) \/ p.value = Bool(FALSE)
  BY DEF IsPredicate
<1>3. p.op # "exists" => IsScalar(p.value)
  BY <1>1 DEF IsPredicate
<1>4. IsScalar(p.value) => p.value # Undefined
  BY DEF IsScalar, Undefined, Null
<1> DEFINE type == Facts[p.path].type
<1>5. OperatorAllowed(type, p.op) /\ ValueAllowed(type, p.op, p.value)
  BY DEF PredicateIssue
<1> HIDE DEF type
<1>6. ASSUME p.op \in {"gte", "lte"} PROVE p.value = Num(p.value[2]) /\ p.value[2] \in Int
  <2>1. type \in {"number", "currency"}
    BY <1>5, <1>6 DEF OperatorAllowed
  <2>2. ScalarAllowed(type, p.value)
    BY <1>5, <1>6 DEF ValueAllowed
  <2>3. p.value[1] = "num"
    BY <2>1, <2>2 DEF ScalarAllowed
  <2> QED  BY <1>3, <1>6, <2>3 DEF IsScalar, Num, Null
<1>7. ASSUME p.op \in {"before", "after"} PROVE p.value = Date(p.value[2]) /\ p.value[2] \in Int
  <2>1. type = "date"
    BY <1>5, <1>7 DEF OperatorAllowed
  <2>2. ScalarAllowed(type, p.value)
    BY <1>5, <1>7 DEF ValueAllowed
  <2>3. p.value[1] = "date"
    BY <2>1, <2>2 DEF ScalarAllowed
  <2> QED  BY <1>3, <1>7, <2>3 DEF IsScalar, Date, Null
<1>8. ASSUME p.op = "contains" PROVE p.value = Text(p.value[2]) /\ IsList(p.value[2]) /\ p.value[2] # <<>>
  BY <1>3, <1>8 DEF Plain, IsScalar, Text, Null
<1> QED  BY <1>1, <1>2, <1>3, <1>4, <1>6, <1>7, <1>8

\* A text is in itself, and no words are in the empty one.
LEMMA IncludesItself ==
    ASSUME NEW s, IsList(s), s # <<>>
    PROVE  Includes(s, s) /\ ~Includes(<<>>, s)
<1>1. Len(s) \in Nat \ {0} /\ s \in Seq(ToSet(s))
  BY ListItems DEF IsList
<1>2. SubSeq(s, 0 + 1, 0 + Len(s)) = s
  BY <1>1
<1>3. Includes(s, s)
  <2>1. 0 \in 0..(Len(s) - Len(s))
    BY <1>1
  <2> QED  BY <1>2, <2>1 DEF Includes
<1>4. ~Includes(<<>>, s)
  <2>1. Len(<<>>) = 0
    OBVIOUS
  <2>2. 0..(Len(<<>>) - Len(s)) = {}
    BY <1>1, <2>1
  <2> QED  BY <2>2 DEF Includes
<1> QED  BY <1>3, <1>4

\* A different value is a different one.
LEMMA Differs == ASSUME NEW v, IsScalar(v) PROVE DifferentValue(v) # v
<1>1. v = <<v[1], v[2]>>
  BY DEF IsScalar
<1>2. CASE v[1] = "num"
  <2>1. v[2] \in Int
    BY <1>2 DEF IsScalar, Null
  <2>2. v[2] + 100 # v[2]
    BY <2>1
  <2>3. DifferentValue(v) = <<"num", v[2] + 100>>
    BY <1>2 DEF DifferentValue, Num
  <2> QED  BY <1>1, <2>2, <2>3
<1>3. CASE v[1] = "bool"
  <2>1. v[2] \in BOOLEAN
    BY <1>3 DEF IsScalar, Null
  <2>2. (~v[2]) # v[2]
    BY <2>1
  <2>3. DifferentValue(v) = <<"bool", ~v[2]>>
    BY <1>3 DEF DifferentValue, Bool
  <2>4. DifferentValue(v)[2] = ~v[2]
    BY <2>3
  <2> QED  BY <2>2, <2>4
<1>4. CASE v[1] = "text"
  <2>1. IsList(v[2])
    BY <1>4 DEF IsScalar, Null
  <2>2. v[2] \in Seq(ToSet(v[2]) \cup {"(different)"})
    BY <2>1 DEF IsList
  <2>3. Len(Append(v[2], "(different)")) = Len(v[2]) + 1 /\ Len(v[2]) \in Nat
    BY <2>2
  <2>4. DifferentValue(v) = <<"text", Append(v[2], "(different)")>>
    BY <1>4 DEF DifferentValue, Text
  <2>5. Append(v[2], "(different)") # v[2]
    BY <2>3
  <2> QED  BY <1>1, <2>4, <2>5
<1>5. CASE v[1] \notin {"num", "bool", "text"}
  <2>1. DifferentValue(v) = <<"text", <<"__different__">>>>
    BY <1>5 DEF DifferentValue, Text
  <2>2. DifferentValue(v)[1] = "text"
    BY <2>1
  <2> QED  BY <1>5, <2>2
<1> QED  BY <1>2, <1>3, <1>4, <1>5

\* How values of a kind that is ordered compare.
LEMMA AtLeast ==
    ASSUME NEW p, p.op = "gte", Ordered(p.value), p.value[2] \in Int,
           NEW x, Ordered(x), x[2] \in Int
    PROVE  (x[2] >= p.value[2] => Satisfies(x, p) = TRUE) /\ (~(x[2] >= p.value[2]) => Satisfies(x, p) = FALSE)
BY DEF Satisfies

LEMMA AtMost ==
    ASSUME NEW p, p.op = "lte", Ordered(p.value), p.value[2] \in Int,
           NEW x, Ordered(x), x[2] \in Int
    PROVE  (x[2] <= p.value[2] => Satisfies(x, p) = TRUE) /\ (~(x[2] <= p.value[2]) => Satisfies(x, p) = FALSE)
BY DEF Satisfies

LEMMA Before ==
    ASSUME NEW p, p.op = "before", Ordered(p.value), p.value[2] \in Int,
           NEW x, Ordered(x), x[2] \in Int
    PROVE  (x[2] < p.value[2] => Satisfies(x, p) = TRUE) /\ (~(x[2] < p.value[2]) => Satisfies(x, p) = FALSE)
BY DEF Satisfies

LEMMA After ==
    ASSUME NEW p, p.op = "after", Ordered(p.value), p.value[2] \in Int,
           NEW x, Ordered(x), x[2] \in Int
    PROVE  (x[2] > p.value[2] => Satisfies(x, p) = TRUE) /\ (~(x[2] > p.value[2]) => Satisfies(x, p) = FALSE)
BY DEF Satisfies

-----------------------------------------------------------------------------
LEMMA ExistsDecided ==
    ASSUME NEW p, p.op = "exists", p.value = Bool(TRUE) \/ p.value = Bool(FALSE)
    PROVE  Decided(p) /\ Edged(p)
<1>1. /\ Bool(TRUE)[2] = TRUE /\ Bool(FALSE)[2] = FALSE /\ Bool(TRUE)[1] = "bool"
      /\ Undefined[1] = "undefined" /\ Null[1] = "null" /\ Text(<<>>)[1] = "text"
  BY DEF Bool, Undefined, Null, Text
<1>2. Bool(TRUE) \notin {Undefined, Null, Text(<<>>)} /\ Undefined \in {Undefined, Null, Text(<<>>)}
  BY <1>1
<1>3. \A v : Satisfies(v, p) = ((v \notin {Undefined, Null, Text(<<>>)}) = p.value[2])
  BY DEF Satisfies
<1>4. CASE p.value = Bool(TRUE)
  <2>1. p.value[2] = TRUE
    BY <1>1, <1>4
  <2>2. WitnessValue(p) = Bool(TRUE) /\ CounterexampleValue(p) = Undefined
    BY <2>1 DEF WitnessValue, CounterexampleValue
  <2>3. BoundaryValue(p) = Bool(TRUE)
    BY <2>2 DEF BoundaryValue
  <2>4. Decided(p)
    BY <1>2, <1>3, <2>1, <2>2 DEF Decided
  <2>5. Edged(p)
    BY <1>2, <2>1, <2>3 DEF Edged, OnEdge
  <2> QED  BY <2>4, <2>5
<1>5. CASE p.value = Bool(FALSE)
  <2>1. p.value[2] = FALSE
    BY <1>1, <1>5
  <2>2. WitnessValue(p) = Undefined /\ CounterexampleValue(p) = Bool(TRUE)
    BY <2>1 DEF WitnessValue, CounterexampleValue
  <2>3. BoundaryValue(p) = Undefined
    BY <2>2 DEF BoundaryValue
  <2>4. Decided(p)
    BY <1>2, <1>3, <2>1, <2>2 DEF Decided
  <2>5. Edged(p)
    BY <2>1, <2>3 DEF Edged, OnEdge
  <2> QED  BY <2>4, <2>5
<1> QED  BY <1>4, <1>5

\* The values made up for a plain predicate decide it, and its own value is its edge.
LEMMA PlainDecided ==
    ASSUME NEW p, IsPredicate(p), PredicateIssue(p) = {}, Plain(p)
    PROVE  Decided(p) /\ Edged(p)
<1> DEFINE v == p.value
<1>1. /\ p.op \in {"exists", "eq", "neq", "contains", "gte", "lte", "before", "after"}
      /\ p.op = "exists" => v = Bool(TRUE) \/ v = Bool(FALSE)
      /\ p.op # "exists" => IsScalar(v) /\ v # Undefined
      /\ p.op \in {"gte", "lte"} => v = Num(v[2]) /\ v[2] \in Int
      /\ p.op \in {"before", "after"} => v = Date(v[2]) /\ v[2] \in Int
      /\ p.op = "contains" => v = Text(v[2]) /\ IsList(v[2]) /\ v[2] # <<>>
  BY PlainValue
<1>2. \A n : /\ Num(n)[1] = "num" /\ Num(n)[2] = n /\ Date(n)[1] = "date" /\ Date(n)[2] = n
             /\ Text(n)[1] = "text" /\ Text(n)[2] = n
  BY DEF Num, Date, Text
<1>3. CASE p.op = "exists"
  BY <1>1, <1>3, ExistsDecided
<1>4. ASSUME p.op \notin {"exists", "contains", "in"}, v # Undefined PROVE Edged(p)
  BY <1>4 DEF Edged, OnEdge, BoundaryValue
<1>5. CASE p.op = "eq"
  <2>1. WitnessValue(p) = v /\ CounterexampleValue(p) = DifferentValue(v)
    BY <1>5 DEF WitnessValue, CounterexampleValue
  <2>2. DifferentValue(v) # v
    BY <1>1, <1>5, Differs
  <2>3. \A x : Satisfies(x, p) = (x = v)
    BY <1>5 DEF Satisfies
  <2> QED  BY <1>1, <1>4, <1>5, <2>1, <2>2, <2>3 DEF Decided
<1>6. CASE p.op = "neq"
  <2>1. WitnessValue(p) = DifferentValue(v) /\ CounterexampleValue(p) = v
    BY <1>6 DEF WitnessValue, CounterexampleValue
  <2>2. DifferentValue(v) # v
    BY <1>1, <1>6, Differs
  <2>3. \A x : Satisfies(x, p) = (x # v)
    BY <1>6 DEF Satisfies
  <2> QED  BY <1>1, <1>4, <1>6, <2>1, <2>2, <2>3 DEF Decided
<1>7. CASE p.op = "contains"
  <2>1. v[1] = "text"
    BY <1>1, <1>2, <1>7
  <2>2. WitnessValue(p) = v /\ CounterexampleValue(p) = Text(<<>>)
    BY <1>7, <2>1 DEF WitnessValue, CounterexampleValue
  <2>3. \A x : Satisfies(x, p) = (\/ x[1] = "text" /\ v[1] = "text" /\ Includes(x[2], v[2])
                                  \/ x[1] = "list" /\ Contains(x[2], v))
    BY <1>7 DEF Satisfies
  <2>4. Includes(v[2], v[2]) /\ ~Includes(<<>>, v[2])
    BY <1>1, <1>7, IncludesItself
  <2>5. Satisfies(v, p) = TRUE
    BY <2>1, <2>3, <2>4
  <2>6. Satisfies(Text(<<>>), p) = FALSE
    BY <1>2, <2>3, <2>4
  <2>7. Edged(p)
    BY <1>1, <1>7, <2>5 DEF Edged, OnEdge, BoundaryValue
  <2> QED  BY <2>2, <2>5, <2>6, <2>7 DEF Decided
<1>8. CASE p.op = "gte"
  <2>1. v[1] = "num" /\ v[2] \in Int
    BY <1>1, <1>2, <1>8
  <2>2. PICK x : x = Num(v[2] - 1)
    OBVIOUS
  <2>3. x[1] = "num" /\ x[2] = v[2] - 1
    BY <1>2, <2>2
  <2>4. WitnessValue(p) = v /\ CounterexampleValue(p) = x
    BY <1>8, <2>1, <2>2 DEF WitnessValue, CounterexampleValue
  <2>5. Ordered(v) /\ Ordered(x) /\ x[2] \in Int
    BY <2>1, <2>3 DEF Ordered
  <2>6. Satisfies(v, p) = TRUE /\ Satisfies(x, p) = FALSE
    <3>1. ~(x[2] >= v[2]) /\ (v[2] >= v[2])
      BY <2>1, <2>3
    <3> QED  BY Zenon, <1>8, <2>1, <2>5, <3>1, AtLeast
  <2> QED  BY <1>1, <1>4, <1>8, <2>4, <2>6 DEF Decided
<1>9. CASE p.op = "lte"
  <2>1. v[1] = "num" /\ v[2] \in Int
    BY <1>1, <1>2, <1>9
  <2>2. PICK x : x = Num(v[2] + 1)
    OBVIOUS
  <2>3. x[1] = "num" /\ x[2] = v[2] + 1
    BY <1>2, <2>2
  <2>4. WitnessValue(p) = v /\ CounterexampleValue(p) = x
    BY <1>9, <2>1, <2>2 DEF WitnessValue, CounterexampleValue
  <2>5. Ordered(v) /\ Ordered(x) /\ x[2] \in Int
    BY <2>1, <2>3 DEF Ordered
  <2>6. Satisfies(v, p) = TRUE /\ Satisfies(x, p) = FALSE
    <3>1. ~(x[2] <= v[2]) /\ (v[2] <= v[2])
      BY <2>1, <2>3
    <3> QED  BY Zenon, <1>9, <2>1, <2>5, <3>1, AtMost
  <2> QED  BY <1>1, <1>4, <1>9, <2>4, <2>6 DEF Decided
<1>10. CASE p.op = "before"
  <2>1. v[1] = "date" /\ v[2] \in Int
    BY <1>1, <1>2, <1>10
  <2>2. PICK x : x = Date(v[2] - 1)
    OBVIOUS
  <2>3. x[1] = "date" /\ x[2] = v[2] - 1
    BY <1>2, <2>2
  <2>4. WitnessValue(p) = x /\ CounterexampleValue(p) = v
    BY <1>10, <2>1, <2>2 DEF WitnessValue, CounterexampleValue
  <2>5. Ordered(v) /\ Ordered(x) /\ x[2] \in Int
    BY <2>1, <2>3 DEF Ordered
  <2>6. Satisfies(x, p) = TRUE /\ Satisfies(v, p) = FALSE
    <3>1. (x[2] < v[2]) /\ ~(v[2] < v[2])
      BY <2>1, <2>3
    <3> QED  BY Zenon, <1>10, <2>1, <2>5, <3>1, Before
  <2> QED  BY <1>1, <1>4, <1>10, <2>4, <2>6 DEF Decided
<1>11. CASE p.op = "after"
  <2>1. v[1] = "date" /\ v[2] \in Int
    BY <1>1, <1>2, <1>11
  <2>2. PICK x : x = Date(v[2] + 1)
    OBVIOUS
  <2>3. x[1] = "date" /\ x[2] = v[2] + 1
    BY <1>2, <2>2
  <2>4. WitnessValue(p) = x /\ CounterexampleValue(p) = v
    BY <1>11, <2>1, <2>2 DEF WitnessValue, CounterexampleValue
  <2>5. Ordered(v) /\ Ordered(x) /\ x[2] \in Int
    BY <2>1, <2>3 DEF Ordered
  <2>6. Satisfies(x, p) = TRUE /\ Satisfies(v, p) = FALSE
    <3>1. (x[2] > v[2]) /\ ~(v[2] > v[2])
      BY <2>1, <2>3
    <3> QED  BY Zenon, <1>11, <2>1, <2>5, <3>1, After
  <2> QED  BY <1>1, <1>4, <1>11, <2>4, <2>6 DEF Decided
<1> QED  BY <1>1, <1>3, <1>5, <1>6, <1>7, <1>8, <1>9, <1>10, <1>11

\* A flag that must be set is a plain predicate of the vocabulary, as any other.
LEMMA PlainSet ==
    ASSUME NEW p, IsPredicate(p), PredicateIssue(p) = {}, Plain(p)
    PROVE  /\ IsPredicate(MustBeSet(p)) /\ MustBeSet(p).path = p.path
           /\ PredicateIssue(MustBeSet(p)) = {} /\ Plain(MustBeSet(p))
<1>1. CASE p.op = "exists" /\ p.value[2] /\ p.path \in ConflictPaths
  <2> DEFINE q == [p EXCEPT !.op = "eq", !.value = Bool(TRUE)]
  <2>1. MustBeSet(p) = q
    BY <1>1 DEF MustBeSet
  <2>2. DOMAIN p = {"op", "path", "value"}
    BY DEF IsPredicate
  <2>3. q.op = "eq" /\ q.path = p.path /\ q.value = Bool(TRUE)
    BY <2>2
  <2> HIDE DEF q
  <2>4. IsPredicate(q)
    BY <2>1, MustBeSetTyped
  <2>5. q.path \in DOMAIN Facts /\ Facts[q.path].type = "boolean"
    BY <1>1, <2>3, FactsAssumption
  <2>6. OperatorAllowed(Facts[q.path].type, q.op) /\ ValueAllowed(Facts[q.path].type, q.op, q.value)
    BY <2>3, <2>5 DEF OperatorAllowed, ValueAllowed, ScalarAllowed, Bool
  <2>7. PredicateIssue(q) = {}
    BY <2>5, <2>6 DEF PredicateIssue
  <2>8. Plain(q)
    BY <2>3 DEF Plain
  <2> QED  BY <2>1, <2>3, <2>4, <2>7, <2>8
<1>2. CASE ~(p.op = "exists" /\ p.value[2] /\ p.path \in ConflictPaths)
  <2>1. MustBeSet(p) = p
    BY Zenon, <1>2 DEF MustBeSet
  <2> QED  BY <2>1
<1> QED  BY <1>1, <1>2

IsPlain(c) ==
  OnePathEach(c) /\ \A i \in Leaves(c) : PredicateIssue(c[i]) = {} /\ Plain(c[i])

LEMMA PlainKept ==
    ASSUME NEW c, IsCondition(c), IsPlain(c), NEW citations, MinimumCurrency(citations) = 0
    PROVE  IsCondition(NormalizePolicyCondition(c, citations)) /\ IsPlain(NormalizePolicyCondition(c, citations))
<1> DEFINE w == NormalizePolicyCondition(c, citations)
           r == NormalizeMinimumCurrencyRequirement(c, citations)
<1>1. r = c
  BY Zenon DEF NormalizeMinimumCurrencyRequirement
<1>2. w = r \/ w = MapCondition(r)
  BY Zenon DEF NormalizePolicyCondition
<1> HIDE DEF w, r
<1>3. CASE w = c
  BY <1>3 DEF w
<1>4. CASE w = MapCondition(c)
  <2>1. /\ IsCondition(w) /\ Len(w) = Len(c)
        /\ \A i \in 1..Len(c) : w[i] = IF i \in Leaves(c) THEN MustBeSet(c[i]) ELSE c[i]
    BY <1>4, MappedCondition
  <2>2. DOMAIN w = 1..Len(c) /\ DOMAIN c = 1..Len(c)
    BY <2>1, Nodes
  <2>3. ASSUME NEW i \in Leaves(c)
        PROVE  /\ i \in 1..Len(c) /\ w[i].path = c[i].path
               /\ PredicateIssue(w[i]) = {} /\ Plain(w[i])
    <3>1. i \in 1..Len(c) /\ IsPredicate(c[i])
      BY <2>2, Nodes DEF Leaves
    <3>2. PredicateIssue(c[i]) = {} /\ Plain(c[i])
      BY DEF IsPlain
    <3>3. w[i] = MustBeSet(c[i])
      BY <2>1, <3>1
    <3> QED  BY <3>1, <3>2, <3>3, PlainSet
  <2>4. Leaves(w) \subseteq Leaves(c)
    <3> SUFFICES ASSUME NEW i \in Leaves(w), i \notin Leaves(c) PROVE FALSE
      OBVIOUS
    <3>1. i \in 1..Len(c) /\ w[i].op \notin Combinators
      BY <2>2 DEF Leaves
    <3>2. w[i] = c[i]
      BY <2>1, <3>1
    <3> QED  BY <2>2, <3>1, <3>2 DEF Leaves
  <2>5. IsPlain(w)
    BY <2>3, <2>4 DEF IsPlain, OnePathEach
  <2> QED  BY <2>1, <2>5 DEF w
<1> QED  BY <1>1, <1>2, <1>3, <1>4

\* The tests made up for a plain condition pass.
LEMMA PlainTested ==
    ASSUME NEW c, IsCondition(c), IsPlain(c)
    PROVE  /\ MissingTests(BuildCanonicalRuleTests(c)) = {}
           /\ TestsHold(c, BuildCanonicalRuleTests(c))
<1>1. ASSUME NEW i \in Leaves(c) PROVE Decided(c[i]) /\ Edged(c[i])
  <2>1. IsPredicate(c[i])
    BY Nodes DEF Leaves
  <2>2. PredicateIssue(c[i]) = {} /\ Plain(c[i])
    BY DEF IsPlain
  <2> QED  BY <2>1, <2>2, PlainDecided
<1>2. Decisive(c)
  BY <1>1 DEF Decisive, IsPlain
<1> QED  BY <1>1, <1>2, TestsPass

\* No issue is found with a rule none of whose parts has one.
LEMMA NoIssue ==
    ASSUME NEW rule, \A p \in Predicates(rule.when) : PredicateIssue(p) = {},
           rule.citations # <<>>, MissingTests(rule.tests) = {}, TestsHold(rule.when, rule.tests)
    PROVE  ValidateRuleProposal(rule, Uploader, NoApprover, FALSE) = {}
<1> DEFINE unfit == UNION {PredicateIssue(p) : p \in Predicates(rule.when)}
           cited == {x \in {"citation_required"} : rule.citations = <<>>}
           untested == {x \in {"test_required"} : MissingTests(rule.tests) # {}}
           unequal == {x \in {"test_mismatch"} : ~TestsHold(rule.when, rule.tests)}
           own == {x \in {"self_approval_forbidden"} : Uploader = NoApprover /\ ~FALSE}
<1>1. ValidateRuleProposal(rule, Uploader, NoApprover, FALSE) = unfit \cup cited \cup untested \cup unequal \cup own
  BY Zenon DEF ValidateRuleProposal
<1>2. unfit = {}
  OBVIOUS
<1>3. cited = {} /\ untested = {} /\ unequal = {}
  OBVIOUS
<1>4. own = {}
  BY UploaderAssumption
<1> HIDE DEF unfit, cited, untested, unequal, own
<1> QED  BY <1>1, <1>2, <1>3, <1>4

LEMMA PlainReachesReview == ASSUME StagesInv PROVE PlainRulesReachReview
<1> DEFINE draft == work.draft
           citations == [i \in DOMAIN draft.citations |-> Relocate(draft.citations[i], chunks)]
           when == NormalizePolicyCondition(draft.when, citations)
           rule == [when |-> when, citations |-> citations, tests |-> BuildCanonicalRuleTests(when)]
           valid == ValidateRuleProposal(rule, Uploader, NoApprover, FALSE)
           numeric == {x \in {"numeric_requirement_missing"} : ~NumericRequirementCovered(when, citations)}
           miscited == {x \in {"invalid_citation"} :
                          \E i \in DOMAIN citations : ~CitationHolds(citations[i], chunks)}
           ungrounded == ConditionGrounding(when, citations)
           issues == valid \cup numeric \cup miscited \cup ungrounded
           made == PolicyProposal(draft, chunks, Uploader)
<1> SUFFICES ASSUME Drafted,
                    \A p \in Predicates(work.draft.when) : PredicateIssue(p) = {} /\ Plain(p),
                    OnePathEach(work.draft.when),
                    \A i \in DOMAIN work.rule.citations : CitationHolds(work.rule.citations[i], chunks),
                    ConditionGrounding(work.rule.when, work.rule.citations) = {},
                    MinimumCurrency(work.rule.citations) = 0
             PROVE  work.status \in {"proposed", "approved"}
  BY DEF PlainRulesReachReview, RuleReviewable, OnePathEach
<1>1. made = [rule |-> rule, issues |-> issues, status |-> IF issues = {} THEN "proposed" ELSE "invalid"]
  BY Zenon DEF PolicyProposal
<1>2. /\ draft \in Drafts /\ work.rule = made.rule
      /\ work.status = made.status \/ work.status = "approved"
  BY DEF StagesInv, RuleOK
<1> HIDE DEF made
<1>3. work.rule = rule /\ made.status = IF issues = {} THEN "proposed" ELSE "invalid"
  <2> HIDE DEF rule, issues
  <2> QED  BY <1>1, <1>2
<1>4. rule.when = when /\ rule.citations = citations /\ rule.tests = BuildCanonicalRuleTests(when)
  OBVIOUS
<1> HIDE DEF rule, issues
<1>5. /\ \A i \in DOMAIN citations : CitationHolds(citations[i], chunks)
      /\ ungrounded = {} /\ MinimumCurrency(citations) = 0
  <2> HIDE DEF citations, when
  <2> QED  BY <1>3, <1>4
<1>6. IsCondition(draft.when) /\ IsPlain(draft.when)
  <2>1. IsCondition(draft.when)
    BY <1>2, DraftsAssumption
  <2> QED  BY <2>1 DEF IsPlain, Predicates
<1> HIDE DEF citations, draft
<1>7. IsCondition(when) /\ IsPlain(when)
  BY <1>5, <1>6, PlainKept
<1> HIDE DEF when
<1>8. MissingTests(rule.tests) = {} /\ TestsHold(rule.when, rule.tests)
  BY <1>4, <1>7, PlainTested
<1>9. \A p \in Predicates(rule.when) : PredicateIssue(p) = {}
  BY <1>4, <1>7 DEF IsPlain, Predicates
<1>10. rule.citations # <<>>
  <2>1. 1 \in Leaves(when)
    BY <1>7, Nodes
  <2>2. when[1] \in Predicates(when)
    BY <2>1 DEF Predicates
  <2>3. when[1].path \in DOMAIN Facts
    BY <1>4, <1>9, <2>2, KnownPath
  <2>4. Facts[when[1].path].terms \cap Quoted(citations) # {}
    <3> DEFINE unnamed == {p \in Predicates(when) : /\ p.path \in DOMAIN Facts
                                                     /\ Facts[p.path].terms \cap Quoted(citations) = {}}
               ungroundedFor == {x \in {"citation_condition_mismatch"} : unnamed # {}}
    <3>1. ungroundedFor \subseteq ConditionGrounding(when, citations)
      BY Zenon DEF ConditionGrounding
    <3>2. unnamed = {}
      <4> HIDE DEF unnamed
      <4> QED  BY <1>5, <3>1
    <3> QED  BY <2>2, <2>3, <3>2
  <2>5. citations # <<>>
    BY <2>4 DEF Quoted
  <2> QED  BY <1>4, <2>5
<1>11. valid = {}
  BY <1>8, <1>9, <1>10, NoIssue
<1>12. numeric = {}
  BY <1>5 DEF NumericRequirementCovered
<1>13. miscited = {}
  BY <1>5
<1>14. issues = {}
  <2> HIDE DEF valid, numeric, miscited, ungrounded
  <2> QED  BY <1>5, <1>11, <1>12, <1>13 DEF issues
<1> QED  BY <1>2, <1>3, <1>14

\* A draft of the pack's vocabulary, cited, grounded and plain, reaches review.
THEOREM PlainRulesReach == StagesSpec => []PlainRulesReachReview
<1>1. StagesInv => PlainRulesReachReview
  BY PlainReachesReview
<1> QED  BY <1>1, StagesInvHolds, PTL
=============================================================================
