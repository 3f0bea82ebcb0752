--------------------------- MODULE CaseWorkerProofs ---------------------------
(***************************************************************************)
(* Proofs about the case worker: CaseJobs for any number of keys, workers  *)
(* and API requests, any number of attempts, and any number of faults, and *)
(* CaseExtraction for any pages, answers, rules and limits.                *)
(***************************************************************************)
EXTENDS CaseJobs, CaseExtraction, ListLemmas, TLAPS

\* A run that goes on has not passed the nodes that end one.
GoesOn(s) == s.status = "running" => s.phase \notin {"review", "complete"}

\* What a worker holds of the case is a past case, or the case as it is.
ReadOK(w) ==
    LET read == worker[w].read IN
    /\ read.version <= case.version
    /\ read.version = case.version => read = case

\* What it holds of the run is a past checkpoint, or the checkpoint as it is; a run that
\* ended for it has ended.
RunOK(w) ==
    LET stored == checkpoint[worker[w].key] IN
    /\ worker[w].revision <= stored.revision
    /\ worker[w].step = "run" =>
          /\ worker[w].state.status = "running"
          /\ worker[w].revision = stored.revision => worker[w].state = stored.state
    /\ worker[w].step = "ran" =>
          worker[w].state = stored.state /\ worker[w].state.status # "running"

Inside == {"ready", "run", "ran", "error"}

IInv ==
    /\ TypeOK
    /\ \A k \in Keys : GoesOn(checkpoint[k].state)
    /\ \A w \in Workers : worker[w].step \in Inside => ReadOK(w) /\ RunOK(w)
    /\ ApprovedOnResolved
    /\ OutcomeIsReal

-----------------------------------------------------------------------------
(* The graph. *)

LEMMA Phases ==
    /\ DOMAIN Rank = {"queued", "validate", "extract", "classify", "reconcile", "retrieve",
                      "evaluate", "review", "summarize", "complete"}
    /\ Rank["queued"] = 0 /\ Rank["validate"] = 1 /\ Rank["extract"] = 2 /\ Rank["classify"] = 3
    /\ Rank["reconcile"] = 4 /\ Rank["retrieve"] = 5 /\ Rank["evaluate"] = 6
    /\ Rank["review"] = 7 /\ Rank["summarize"] = 7 /\ Rank["complete"] = 8
BY DEF Rank

LEMMA DefaultTyped == DefaultState \in RunState /\ GoesOn(DefaultState)
BY Phases DEF DefaultState, RunState, RunStatus, Findings, GoesOn

\* A node leaves a state of the graph, further on, and one that goes on can go on.
LEMMA NodeMovesOn ==
    ASSUME NEW s \in RunState, s.status = "running", GoesOn(s), NEW t \in NodeResults(s)
    PROVE  t \in RunState /\ Rank[t.phase] > Rank[s.phase] /\ GoesOn(t)
<1> DEFINE Onward(p) == t \in RunState /\ t.phase = p /\ GoesOn(t)
<1>1. CASE s.phase = "queued"
  <2>1. t \in Validate(s)
    BY <1>1 DEF NodeResults
  <2>2. Onward("validate")
    BY <2>1, Phases DEF Validate, Failed, RunState, RunStatus, Findings, GoesOn
  <2> QED  BY <1>1, <2>2, Phases
<1>2. ASSUME NEW p \in {"extract", "classify", "reconcile"}, t \in Provided(s, p)
      PROVE  Onward(p)
  <2>1. CASE t = Failed(s, p)
    BY <2>1, Phases DEF Failed, RunState, RunStatus, Findings, GoesOn
  <2>2. CASE \E r \in BOOLEAN : t = [s EXCEPT !.phase = p, !.reasons = r]
    BY <2>2, Phases DEF RunState, RunStatus, Findings, GoesOn
  <2>3. s.reasons \in BOOLEAN
    BY DEF RunState
  <2> QED  BY <1>2, <2>1, <2>2, <2>3, Zenon DEF Provided
<1>3. CASE s.phase \in {"validate", "extract", "classify"}
  <2>1. \E p \in {"extract", "classify", "reconcile"} :
            t \in Provided(s, p) /\ Rank[p] > Rank[s.phase]
    BY <1>3, Phases DEF NodeResults
  <2> QED  BY <1>2, <2>1
<1>4. CASE s.phase = "reconcile"
  <2>1. t \in Retrieve(s)
    BY <1>4 DEF NodeResults
  <2>2. Onward("retrieve")
    BY <2>1, Phases DEF Retrieve, RunState, RunStatus, Findings, GoesOn
  <2> QED  BY <1>4, <2>2, Phases
<1>5. CASE s.phase = "retrieve"
  <2>1. t \in Evaluate(s)
    BY <1>5 DEF NodeResults
  <2>2. PICK f \in Findings, r \in BOOLEAN :
            t = [s EXCEPT !.phase = "evaluate", !.findings = f, !.reasons = r]
    <3>1. ASSUME NEW f \in Findings,
                 t = [s EXCEPT !.phase = "evaluate", !.findings = f,
                               !.reasons = @ \/ f = "material"]
          PROVE  \E r \in BOOLEAN :
                    t = [s EXCEPT !.phase = "evaluate", !.findings = f, !.reasons = r]
      BY <3>1, Zenon
    <3>2. ASSUME t = [s EXCEPT !.phase = "evaluate", !.reasons = TRUE]
          PROVE  t = [s EXCEPT !.phase = "evaluate", !.findings = s.findings, !.reasons = TRUE]
      BY <3>2 DEF RunState
    <3>3. s.findings \in Findings
      BY DEF RunState
    <3> QED  BY <2>1, <3>1, <3>2, <3>3, Zenon DEF Evaluate
  <2>3. Onward("evaluate")
    BY <2>2, Phases DEF RunState, RunStatus, GoesOn
  <2> QED  BY <1>5, <2>3, Phases
<1>6. CASE s.phase = "evaluate"
  <2>1. t \in Review(s) \/ t \in Summarize(s)
    BY <1>6 DEF NodeResults
  <2>2. Onward("review") \/ Onward("summarize")
    BY <2>1, Phases DEF Review, Summarize, RunState, RunStatus, Findings, GoesOn
  <2> QED  BY <1>6, <2>2, Phases
<1>7. CASE s.phase = "summarize"
  <2>1. t \in Complete(s)
    BY <1>7 DEF NodeResults
  <2>2. Onward("complete")
    BY <2>1, Phases DEF Complete, RunState, RunStatus, Findings, GoesOn
  <2> QED  BY <1>7, <2>2, Phases
<1>8. s.phase \in DOMAIN Rank
  BY DEF RunState
<1> QED  BY <1>1, <1>3, <1>4, <1>5, <1>6, <1>7, <1>8, Phases DEF GoesOn

-----------------------------------------------------------------------------
(* Workers. *)

\* The step of a worker says what it holds.
LEMMA Holding ==
    ASSUME TypeOK, NEW w \in Workers
    PROVE  /\ worker[w].step \in Inside => worker[w] \in InJob
           /\ worker[w].step \in {"claimed", "done", "thrown"} => worker[w] \in AtRecord
           /\ worker[w].step \in Inside \union {"claimed", "done", "thrown", "idle"}
<1>1. worker[w] \in AtRecord \union InJob \union {NoWork}
  BY DEF TypeOK
<1> QED  BY <1>1 DEF AtRecord, InJob, NoWork, Inside
-----------------------------------------------------------------------------
(* What the steps have in common. *)

Reported == {"needs_review", "completed"}

\* Rows of jobs change, and none comes to report a result.
JobsMove ==
    /\ jobs' \in [Keys -> JobRow]
    /\ \A k \in Keys : jobs'[k].status \in Reported => jobs'[k].status = jobs[k].status

\* Only a record that is being worked on has an owner.
RecordsOK ==
    /\ records \in [Keys -> QueueRecord]
    /\ \A k \in Keys : (records[k].state = "active") <=> (records[k].owner # Nobody)

QueueMoves == RecordsOK' /\ notices' \subseteq Keys

LEMMA StatusSet ==
    ASSUME TypeOK, NEW k, NEW status \in {"queued", "processing", "failed", "cancelled"},
           SetStatus(k, status)
    PROVE  JobsMove
BY DEF TypeOK, SetStatus, JobsMove, JobRow, Reported

LEMMA JobsRest == ASSUME TypeOK, UNCHANGED jobs PROVE JobsMove
BY DEF TypeOK, JobsMove

LEMMA QueueRests == ASSUME TypeOK, UNCHANGED <<records, notices>> PROVE QueueMoves
BY DEF TypeOK, QueueMoves, RecordsOK

\* Requests, failed events and BullMQ leave the case and the run alone.
LEMMA AsideKeepsIInv ==
    ASSUME IInv, JobsMove, QueueMoves, UNCHANGED <<case, checkpoint, worker>>
    PROVE  IInv'
<1>1. TypeOK'
  BY DEF IInv, TypeOK, JobsMove, QueueMoves, RecordsOK
<1>2. \A w \in Workers : worker'[w].step \in Inside => ReadOK(w)' /\ RunOK(w)'
  BY DEF IInv, ReadOK, RunOK
<1>3. OutcomeIsReal'
  BY DEF IInv, OutcomeIsReal, JobsMove, Reported
<1> QED  BY <1>1, <1>2, <1>3 DEF IInv, ApprovedOnResolved, GoesOn

\* The case changes under a new version and keeps the results it has.
CaseMoves ==
    /\ case' \in CaseRow
    /\ case'.version = case.version + 1
    /\ case.applied \subseteq case'.applied
    /\ ApprovedOnResolved'

\* A change of the case makes every copy of it a past one.
LEMMA CopiesAge ==
    ASSUME IInv, CaseMoves, NEW w \in Workers, worker[w].step \in Inside, worker'[w] = worker[w]
    PROVE  ReadOK(w)'
<1>1. worker[w].read.version \in Nat /\ case.version \in Nat
  BY Holding DEF IInv, TypeOK, InJob, CaseRow
<1> QED  BY <1>1 DEF IInv, ReadOK, CaseMoves

LEMMA EditKeepsIInv ==
    ASSUME IInv, CaseMoves, UNCHANGED <<jobs, checkpoint, records, notices, worker>>
    PROVE  IInv'
<1>1. TypeOK'
  BY DEF IInv, TypeOK, CaseMoves
<1>2. \A w \in Workers : worker'[w].step \in Inside => ReadOK(w)' /\ RunOK(w)'
  BY CopiesAge DEF IInv, RunOK
<1>3. OutcomeIsReal'
  BY DEF IInv, OutcomeIsReal, CaseMoves
<1> QED  BY <1>1, <1>2, <1>3 DEF IInv, CaseMoves, GoesOn

\* One worker takes a step that leaves case and checkpoints alone.
LEMMA WorkKeepsIInv ==
    ASSUME IInv, JobsMove, QueueMoves, UNCHANGED <<case, checkpoint>>,
           NEW w \in Workers, NEW x \in AtRecord \union InJob \union {NoWork},
           worker' = [worker EXCEPT ![w] = x],
           x.step \in Inside => ReadOK(w)' /\ RunOK(w)'
    PROVE  IInv'
<1>1. TypeOK'
  BY DEF IInv, TypeOK, JobsMove, QueueMoves, RecordsOK
<1>2. ASSUME NEW v \in Workers, worker'[v].step \in Inside
      PROVE  ReadOK(v)' /\ RunOK(v)'
  <2>1. CASE v = w
    BY <1>2, <2>1 DEF IInv, TypeOK
  <2>2. CASE v # w
    <3>1. worker'[v] = worker[v]
      BY <2>2 DEF IInv, TypeOK
    <3> QED  BY <1>2, <3>1 DEF IInv, ReadOK, RunOK
  <2> QED  BY <2>1, <2>2
<1>3. OutcomeIsReal'
  BY DEF IInv, OutcomeIsReal, JobsMove, Reported
<1> QED  BY <1>1, <1>2, <1>3 DEF IInv, ApprovedOnResolved, GoesOn
-----------------------------------------------------------------------------
(* Requests. *)

\* Putting a record into the queue or taking it out, while nobody works on it.
LEMMA RecordSet ==
    ASSUME TypeOK, NEW k,
           NEW x \in {Absent, Removed, [Absent EXCEPT !.state = "waiting"]},
           records' = [records EXCEPT ![k] = x], UNCHANGED notices
    PROVE  QueueMoves
<1>1. x \in QueueRecord /\ x.state # "active" /\ x.owner = Nobody
  <2>1. PICK st \in {"absent", "removed", "waiting"} :
            x = [state |-> st, owner |-> Nobody, made |-> 0, stalled |-> FALSE]
    BY DEF Absent, Removed
  <2> QED  BY <2>1 DEF QueueRecord
<1> QED  BY <1>1 DEF TypeOK, QueueMoves, RecordsOK

LEMMA SubmitKeepsIInv ==
    ASSUME IInv, NEW c, NEW k \in Keys,
           Submit(c, k) \/ AskCancel(c, k) \/ AskRetry(c, k)
    PROVE  IInv'
<1>1. TypeOK
  BY DEF IInv
<1>2. JobsMove
  <2>1. CASE Submit(c, k)
    BY <1>1, <2>1, StatusSet, JobsRest DEF Submit, CreateJob
  <2>2. CASE AskCancel(c, k) \/ AskRetry(c, k)
    BY <1>1, <2>2, JobsRest DEF AskCancel, AskRetry, Ask, store
  <2> QED  BY <2>1, <2>2
<1>3. UNCHANGED <<case, checkpoint, records, notices, worker>>
  BY DEF Submit, AskCancel, AskRetry, Ask, store
<1> QED  BY <1>1, <1>2, <1>3, QueueRests, AsideKeepsIInv

\* The audit entry is written only over the version the request read.
LEMMA TouchKeepsIInv ==
    ASSUME IInv, NEW c, Touch(c)
    PROVE  IInv'
<1>1. case \in CaseRow
  BY DEF IInv, TypeOK
<1>2. CASE case.version = api[c].version
  <2>1. case' = [case EXCEPT !.version = @ + 1]
    BY <1>2 DEF Touch
  <2>2. CaseMoves
    BY <1>1, <2>1 DEF CaseMoves, CaseRow, IInv, ApprovedOnResolved
  <2> QED  BY <2>2, EditKeepsIInv DEF Touch
<1>3. CASE case.version # api[c].version
  BY <1>3, JobsRest, QueueRests, AsideKeepsIInv DEF Touch, IInv
<1> QED  BY <1>2, <1>3

LEMMA RequestKeepsIInv ==
    ASSUME IInv, NEW c, Request(c) \/ ApiDies(c)
    PROVE  IInv'
<1> USE DEF store
<1>1. TypeOK
  BY DEF IInv
<1>2. CASE Enqueue(c)
  <2>1. QueueMoves
    BY <1>1, <1>2, RecordSet, QueueRests DEF Enqueue
  <2> QED  BY <1>1, <1>2, <2>1, JobsRest, AsideKeepsIInv DEF Enqueue
<1>3. CASE EnqueueFails(c)
  BY <1>1, <1>3, StatusSet, QueueRests, AsideKeepsIInv DEF EnqueueFails
<1>4. CASE Announce(c)
  <2>1. JobsMove
    BY <1>1, <1>4 DEF Announce, TypeOK, JobsMove, JobRow, Reported
  <2> QED  BY <1>1, <1>4, <2>1, QueueRests, AsideKeepsIInv DEF Announce
<1>5. CASE Touch(c)
  BY <1>5, TouchKeepsIInv
<1>6. CASE RequestCancel(c)
  BY <1>1, <1>6, StatusSet, QueueRests, AsideKeepsIInv DEF RequestCancel
<1>7. CASE RemoveRecord(c)
  <2>1. QueueMoves
    BY <1>1, <1>7, RecordSet, QueueRests DEF RemoveRecord
  <2> QED  BY <1>1, <1>7, <2>1, JobsRest, AsideKeepsIInv DEF RemoveRecord
<1>8. CASE RecordCancelled(c)
  BY <1>1, <1>8, StatusSet, QueueRests, AsideKeepsIInv DEF RecordCancelled
<1>9. CASE RetryRecord(c)
  <2>1. CASE records[api[c].key].state = "failed"
    <3>1. records' = [records EXCEPT ![api[c].key].state = "waiting"] /\ UNCHANGED notices
      BY <1>9, <2>1 DEF RetryRecord
    <3>2. QueueMoves
      <4>1. CASE api[c].key \in Keys
        <5>1. records[api[c].key] \in QueueRecord /\ records[api[c].key].owner = Nobody
          BY <1>1, <2>1, <4>1 DEF TypeOK
        <5>2. [records[api[c].key] EXCEPT !.state = "waiting"] \in QueueRecord
          BY <5>1 DEF QueueRecord
        <5> QED  BY <1>1, <3>1, <4>1, <5>1, <5>2 DEF TypeOK, QueueMoves, RecordsOK, QueueRecord
      <4>2. CASE api[c].key \notin Keys
        BY <1>1, <3>1, <4>2 DEF TypeOK, QueueMoves, RecordsOK
      <4> QED  BY <4>1, <4>2
    <3> QED  BY <1>1, <1>9, <3>2, JobsRest, AsideKeepsIInv DEF RetryRecord
  <2>2. CASE records[api[c].key].state # "failed"
    BY <1>1, <1>9, <2>2, JobsRest, QueueRests, AsideKeepsIInv DEF RetryRecord
  <2> QED  BY <2>1, <2>2
<1>10. CASE RecordRetry(c)
  BY <1>1, <1>10, StatusSet, QueueRests, AsideKeepsIInv DEF RecordRetry
<1>11. CASE ApiDies(c)
  BY <1>1, <1>11, JobsRest, QueueRests, AsideKeepsIInv DEF ApiDies
<1> QED
  BY <1>2, <1>3, <1>4, <1>5, <1>6, <1>7, <1>8, <1>9, <1>10, <1>11 DEF Request

-----------------------------------------------------------------------------
(* Changes by people. *)

LEMMA PeopleKeepIInv ==
    ASSUME IInv,
           \/ CorrectFact \/ ResolveFinding \/ ReEvaluate \/ UploadDocument
           \/ \E outcome \in DOMAIN DecidedStatus : Decide(outcome)
    PROVE  IInv'
<1>1. case \in CaseRow
  BY DEF IInv, TypeOK
<1>2. ASSUME NEW change \in CaseRow, Save(change), change.applied = case.applied,
             change.status = "approved" => change.findings # "material"
      PROVE  IInv'
  <2>1. CaseMoves
    BY <1>1, <1>2 DEF Save, CaseMoves, CaseRow, ApprovedOnResolved
  <2> QED  BY <1>2, <2>1, EditKeepsIInv DEF Save
<1>3. case.status = "approved" => case.findings # "material"
  BY DEF IInv, ApprovedOnResolved
<1>4. CASE CorrectFact
  <2>1. [case EXCEPT !.facts = "corrected"] \in CaseRow
    BY <1>1 DEF CaseRow
  <2> QED  BY <1>1, <1>2, <1>3, <1>4, <2>1 DEF CorrectFact, CaseRow
<1>5. CASE ResolveFinding
  <2>1. [case EXCEPT !.findings = "resolved"] \in CaseRow
    BY <1>1 DEF CaseRow
  <2> QED  BY <1>1, <1>2, <1>5, <2>1 DEF ResolveFinding, CaseRow
<1>6. CASE ReEvaluate
  <2>1. [case EXCEPT !.status = "needs_review"] \in CaseRow
    BY <1>1 DEF CaseRow
  <2> QED  BY <1>1, <1>2, <1>6, <2>1 DEF ReEvaluate, CaseRow
<1>7. CASE UploadDocument
  BY <1>1, <1>2, <1>3, <1>7 DEF UploadDocument
<1>8. ASSUME NEW outcome \in DOMAIN DecidedStatus, Decide(outcome)
      PROVE  IInv'
  <2>1. /\ DecidedStatus[outcome] \in {"approved", "rejected", "request_information"}
        /\ DecidedStatus[outcome] = "approved" => outcome = "approve"
    BY DEF DecidedStatus
  <2>2. [case EXCEPT !.status = DecidedStatus[outcome]] \in CaseRow
    BY <1>1, <2>1 DEF CaseRow
  <2> QED  BY <1>1, <1>2, <1>8, <2>1, <2>2 DEF Decide, CaseRow
<1> QED  BY <1>4, <1>5, <1>6, <1>7, <1>8
-----------------------------------------------------------------------------
(* The queue. *)

LEMMA ClaimKeepsIInv ==
    ASSUME IInv, NEW w \in Workers, NEW k \in Keys, Claim(w, k)
    PROVE  IInv'
<1> DEFINE r == [records[k] EXCEPT !.state = "active", !.owner = w]
           x == [step |-> "claimed", key |-> k]
<1>1. records \in [Keys -> QueueRecord] /\ w # Nobody
  BY JobsAssumption DEF IInv, TypeOK, JobsAssumption
<1>2. r \in QueueRecord /\ r.state = "active" /\ r.owner # Nobody
  BY <1>1 DEF QueueRecord
<1>3. records' = [records EXCEPT ![k] = r]
  BY <1>1 DEF Claim
<1>4. QueueMoves
  BY <1>1, <1>2, <1>3 DEF Claim, IInv, TypeOK, QueueMoves, RecordsOK
<1>5. x \in AtRecord /\ x.step \notin Inside
  BY DEF AtRecord, Inside
<1>6. worker' = [worker EXCEPT ![w] = x] /\ UNCHANGED <<case, jobs, checkpoint>>
  BY DEF Claim, store
<1>7. JobsMove
  BY <1>6, JobsRest DEF IInv
<1> HIDE DEF x
<1> QED  BY <1>4, <1>5, <1>6, <1>7, WorkKeepsIInv

\* A worker that lays its record down, for whatever reason, holds nothing.
LEMMA LayDownKeepsIInv ==
    ASSUME IInv, QueueMoves, NEW w \in Workers, UNCHANGED store,
           worker' = [worker EXCEPT ![w] = NoWork]
    PROVE  IInv'
<1>1. JobsMove /\ UNCHANGED <<case, checkpoint>>
  BY JobsRest DEF IInv, store
<1>2. NoWork.step \notin Inside
  BY DEF NoWork, Inside
<1> QED  BY <1>1, <1>2, WorkKeepsIInv

LEMMA EndKeepsIInv ==
    ASSUME IInv, NEW w \in Workers, Finish(w) \/ FailAttempt(w) \/ WorkerDies(w)
    PROVE  IInv'
<1> DEFINE k == worker[w].key
<1>1. RecordsOK /\ notices \subseteq Keys
  BY DEF IInv, TypeOK, RecordsOK
<1>2. CASE Finish(w)
  <2>1. QueueMoves
    BY <1>2, RecordSet, QueueRests DEF Finish, IInv
  <2> QED  BY <1>2, <2>1, LayDownKeepsIInv DEF Finish
<1>3. CASE FailAttempt(w)
  <2>1. k \in Keys
    BY <1>3, Holding DEF FailAttempt, IInv, AtRecord
  <2>2. CASE Holds(w)
    <3>1. PICK st \in {"failed", "waiting"} : records' = [records EXCEPT ![k] =
              [@ EXCEPT !.state = st, !.owner = Nobody, !.made = records[k].made + 1]]
      BY <1>3, <2>2 DEF FailAttempt
    <3> DEFINE r == [records[k] EXCEPT !.state = st, !.owner = Nobody, !.made = records[k].made + 1]
    <3>2. r \in QueueRecord /\ r.state # "active" /\ r.owner = Nobody
      <4>1. records[k] \in QueueRecord
        BY <1>1, <2>1 DEF RecordsOK
      <4>2. records[k].made + 1 \in Nat
        BY <4>1 DEF QueueRecord
      <4> QED  BY <4>1, <4>2 DEF QueueRecord
    <3>3. records' = [records EXCEPT ![k] = r]
      BY <3>1
    <3>4. RecordsOK'
      BY <1>1, <2>1, <3>2, <3>3 DEF RecordsOK
    <3>5. notices' \subseteq Keys
      BY <1>1, <1>3, <2>1, <2>2 DEF FailAttempt
    <3> QED  BY <3>4, <3>5, <1>3, LayDownKeepsIInv DEF FailAttempt, QueueMoves
  <2>3. CASE ~Holds(w)
    BY <1>3, <2>3, QueueRests, LayDownKeepsIInv DEF FailAttempt, IInv
  <2> QED  BY <2>2, <2>3
<1>4. CASE WorkerDies(w)
  BY <1>4, QueueRests, LayDownKeepsIInv DEF WorkerDies, IInv
<1> QED  BY <1>2, <1>3, <1>4

LEMMA StalledKeepsIInv ==
    ASSUME IInv, NEW k \in Keys, NoteRetry(k) \/ RecoverStalled(k) \/ LoseLock(k)
    PROVE  IInv'
<1>1. TypeOK
  BY DEF IInv
<1>2. CASE NoteRetry(k)
  <2>1. QueueMoves
    BY <1>1, <1>2 DEF NoteRetry, TypeOK, QueueMoves, RecordsOK
  <2> QED  BY <1>1, <1>2, <2>1, StatusSet, AsideKeepsIInv DEF NoteRetry
<1>3. CASE Requeue(k)
  <2>1. PICK st \in {"failed", "waiting"} : records' = [records EXCEPT ![k] =
            [@ EXCEPT !.state = st, !.owner = Nobody, !.stalled = TRUE]]
    BY <1>1, <1>3 DEF Requeue, TypeOK
  <2> DEFINE r == [records[k] EXCEPT !.state = st, !.owner = Nobody, !.stalled = TRUE]
  <2>2. r \in QueueRecord /\ r.state # "active" /\ r.owner = Nobody
    BY <1>1 DEF QueueRecord, TypeOK
  <2>3. records' = [records EXCEPT ![k] = r]
    BY <2>1
  <2>4. QueueMoves
    BY <1>1, <1>3, <2>2, <2>3 DEF Requeue, TypeOK, QueueMoves, RecordsOK
  <2> QED  BY <1>1, <1>3, <2>4, JobsRest, AsideKeepsIInv DEF Requeue, store
<1> QED  BY <1>2, <1>3 DEF RecoverStalled, LoseLock
-----------------------------------------------------------------------------
(* The job. *)

LEMMA StartKeepsIInv ==
    ASSUME IInv, NEW w \in Workers, Start(w)
    PROVE  IInv'
<1> DEFINE x == [step |-> "ready", key |-> worker[w].key, read |-> case,
                 changed |-> FALSE, revision |-> 0, state |-> DefaultState]
<1>1. TypeOK /\ worker[w].key \in Keys
  BY Holding DEF IInv, Start, AtRecord
<1>2. x \in InJob
  BY <1>1, DefaultTyped DEF InJob, TypeOK
<1>3. worker' = [worker EXCEPT ![w] = x] /\ UNCHANGED <<case, checkpoint>>
  BY DEF Start
<1>4. worker'[w] = x
  BY <1>1, <1>3 DEF TypeOK
<1>5. case.version \in Nat /\ checkpoint[worker[w].key].revision \in Nat
  BY <1>1 DEF TypeOK, CaseRow, CheckpointRow
<1>6. ReadOK(w)' /\ RunOK(w)'
  BY <1>3, <1>4, <1>5 DEF ReadOK, RunOK
<1>7. JobsMove /\ QueueMoves
  BY <1>1, StatusSet, QueueRests DEF Start
<1> HIDE DEF x
<1> QED  BY <1>2, <1>3, <1>6, <1>7, WorkKeepsIInv

LEMMA LoadKeepsIInv ==
    ASSUME IInv, NEW w \in Workers, LoadCheckpoint(w)
    PROVE  IInv'
<1> DEFINE stored == checkpoint[worker[w].key]
<1>1. TypeOK /\ worker[w] \in InJob /\ worker[w].step = "ready"
  BY Holding DEF IInv, LoadCheckpoint, Inside
<1>2. stored.revision \in Nat /\ stored.state \in RunState
  BY <1>1 DEF TypeOK, InJob, CheckpointRow
<1>3. PICK step \in {"run", "ran"} :
          /\ step = "run" <=> stored.state.status = "running"
          /\ worker' = [worker EXCEPT ![w].revision = stored.revision,
                                      ![w].state = stored.state, ![w].step = step]
  BY DEF LoadCheckpoint
<1> DEFINE x == [worker[w] EXCEPT !.revision = stored.revision, !.state = stored.state,
                                  !.step = step]
<1>4. x \in InJob /\ x.read = worker[w].read /\ x.key = worker[w].key
        /\ x.revision = stored.revision /\ x.state = stored.state /\ x.step = step
  BY <1>1, <1>2 DEF InJob
<1>5. worker' = [worker EXCEPT ![w] = x] /\ worker'[w] = x
  BY <1>1, <1>3 DEF TypeOK
<1>6. UNCHANGED <<case, checkpoint, jobs, records, notices>>
  BY DEF LoadCheckpoint, store
<1>7. ReadOK(w)
  BY <1>1 DEF IInv, Inside
<1> HIDE DEF x
<1>8. ReadOK(w)' /\ RunOK(w)'
  BY <1>2, <1>3, <1>4, <1>5, <1>6, <1>7 DEF ReadOK, RunOK
<1>9. JobsMove /\ QueueMoves
  BY <1>1, <1>6, JobsRest, QueueRests
<1> QED  BY <1>4, <1>5, <1>6, <1>8, <1>9, WorkKeepsIInv

\* A call that fails inside the job leaves the copies as they are; the catch block follows.
LEMMA ErrorKeepsIInv ==
    ASSUME IInv, JobsMove, QueueMoves, UNCHANGED <<case, checkpoint>>,
           NEW w \in Workers, worker[w].step \in Inside, NEW b \in BOOLEAN,
           worker' = [worker EXCEPT ![w].step = "error", ![w].changed = b]
    PROVE  IInv'
<1> DEFINE x == [worker[w] EXCEPT !.step = "error", !.changed = b]
<1>1. worker[w] \in InJob
  BY Holding DEF IInv
<1>2. x \in InJob /\ x.step = "error" /\ x.read = worker[w].read /\ x.key = worker[w].key
        /\ x.revision = worker[w].revision
  BY <1>1 DEF InJob
<1>3. worker' = [worker EXCEPT ![w] = x] /\ worker'[w] = x
  BY DEF IInv, TypeOK
<1>4. ReadOK(w) /\ RunOK(w)
  BY DEF IInv
<1> HIDE DEF x
<1>5. ReadOK(w)' /\ RunOK(w)'
  BY <1>2, <1>3, <1>4 DEF ReadOK, RunOK
<1> QED  BY <1>2, <1>3, <1>5, WorkKeepsIInv

\* Thrown or done, the worker keeps the key only.
LEMMA LeaveKeepsIInv ==
    ASSUME IInv, JobsMove, QueueMoves, UNCHANGED <<case, checkpoint>>,
           NEW w \in Workers, worker[w].key \in Keys,
           NEW step \in {"done", "thrown"}, Leave(w, step)
    PROVE  IInv'
<1> DEFINE x == [step |-> step, key |-> worker[w].key]
<1>1. x \in AtRecord /\ x.step \notin Inside
  BY DEF AtRecord, Inside
<1>2. worker' = [worker EXCEPT ![w] = x]
  BY DEF Leave
<1> HIDE DEF x
<1> QED  BY <1>1, <1>2, WorkKeepsIInv

LEMMA KeyHeld ==
    ASSUME TypeOK, NEW w \in Workers, worker[w].step # "idle"
    PROVE  worker[w].key \in Keys
BY Holding DEF InJob, AtRecord

\* Where a step of the job goes to the catch block, what the worker made of its copy stays.
LEMMA StepToError ==
    ASSUME TypeOK, NEW w \in Workers, worker[w].step \in Inside, Step(w, "error")
    PROVE  \E b \in BOOLEAN :
              worker' = [worker EXCEPT ![w].step = "error", ![w].changed = b]
<1>1. worker[w] \in InJob
  BY Holding
<1>2. worker[w].changed \in BOOLEAN
  BY <1>1 DEF InJob
<1>3. [worker[w] EXCEPT !.step = "error"]
        = [worker[w] EXCEPT !.step = "error", !.changed = worker[w].changed]
  BY <1>1 DEF InJob
<1>4. worker' = [worker EXCEPT ![w].step = "error", ![w].changed = worker[w].changed]
  BY <1>1, <1>3 DEF Step, TypeOK
<1> QED  BY <1>2, <1>4

LEMMA OutageKeepsIInv ==
    ASSUME IInv, NEW w \in Workers, Outage(w)
    PROVE  IInv'
<1>1. TypeOK /\ UNCHANGED <<case, checkpoint>>
  BY DEF IInv, Outage, store
<1>2. JobsMove /\ QueueMoves
  BY <1>1, JobsRest, QueueRests DEF Outage, store
<1>3. CASE worker[w].step \in {"claimed", "error"} /\ Leave(w, "thrown")
  BY <1>1, <1>2, <1>3, KeyHeld, LeaveKeepsIInv
<1>4. CASE worker[w].step \in {"ready", "run"} /\ Step(w, "error")
  BY <1>1, <1>2, <1>4, StepToError, ErrorKeepsIInv DEF Inside
<1>5. CASE worker[w].step = "ran"
            /\ worker' = [worker EXCEPT ![w].step = "error", ![w].changed = TRUE]
  BY <1>1, <1>2, <1>5, ErrorKeepsIInv DEF Inside
<1> QED  BY <1>3, <1>4, <1>5 DEF Outage
\* The node of a worker whose checkpoint is current: it starts from that checkpoint, and
\* leaves one that is further on.
LEMMA NodeRuns ==
    ASSUME IInv, NEW w \in Workers, RunNode(w), Current(w)
    PROVE  LET k == worker[w].key IN
           /\ worker[w] \in InJob
           /\ worker[w].state = checkpoint[k].state
           /\ checkpoint[k].state.status = "running"
           /\ \E s \in RunState :
                 /\ Rank[s.phase] > Rank[checkpoint[k].state.phase]
                 /\ GoesOn(s)
                 /\ checkpoint' = [checkpoint EXCEPT
                        ![k] = [revision |-> worker[w].revision + 1, state |-> s]]
                 /\ worker' = [worker EXCEPT
                        ![w].revision = @ + 1, ![w].state = s,
                        ![w].step = IF s.status = "running" THEN "run" ELSE "ran"]
<1> DEFINE k == worker[w].key
<1>1. TypeOK /\ worker[w].step = "run" /\ worker[w] \in InJob
  BY Holding DEF IInv, RunNode, Inside
<1>2. k \in Keys /\ worker[w].state \in RunState
  BY <1>1 DEF InJob
<1>3. worker[w].state = checkpoint[k].state /\ checkpoint[k].state.status = "running"
  BY <1>1 DEF IInv, RunOK, Current, Inside
<1>4. GoesOn(worker[w].state)
  BY <1>2, <1>3 DEF IInv
<1>5. PICK s \in NodeResults(worker[w].state) :
          /\ checkpoint' = [checkpoint EXCEPT
                 ![k] = [revision |-> worker[w].revision + 1, state |-> s]]
          /\ worker' = [worker EXCEPT
                 ![w].revision = @ + 1, ![w].state = s,
                 ![w].step = IF s.status = "running" THEN "run" ELSE "ran"]
  BY DEF RunNode
<1>6. s \in RunState /\ Rank[s.phase] > Rank[worker[w].state.phase] /\ GoesOn(s)
  BY <1>2, <1>3, <1>4, NodeMovesOn
<1> QED  BY <1>1, <1>3, <1>5, <1>6

LEMMA NodeKeepsIInv ==
    ASSUME IInv, NEW w \in Workers, RunNode(w)
    PROVE  IInv'
<1> DEFINE k == worker[w].key
<1>1. TypeOK /\ worker[w].step = "run"
  BY DEF IInv, RunNode
<1>2. JobsMove /\ QueueMoves /\ UNCHANGED case
  BY <1>1, StatusSet, JobsRest, QueueRests DEF RunNode
<1>3. CASE ~Current(w)
  BY <1>1, <1>2, <1>3, StepToError, ErrorKeepsIInv DEF RunNode, Inside
<1>4. CASE Current(w)
  <2>1. worker[w] \in InJob /\ checkpoint[k].state.status = "running"
    BY <1>4, NodeRuns
  <2>2. PICK s \in RunState :
            /\ GoesOn(s)
            /\ checkpoint' = [checkpoint EXCEPT
                   ![k] = [revision |-> worker[w].revision + 1, state |-> s]]
            /\ worker' = [worker EXCEPT
                   ![w].revision = @ + 1, ![w].state = s,
                   ![w].step = IF s.status = "running" THEN "run" ELSE "ran"]
    BY <1>4, NodeRuns
  <2>3. PICK step \in {"run", "ran"} :
            /\ step = "run" <=> s.status = "running"
            /\ worker' = [worker EXCEPT
                   ![w].revision = @ + 1, ![w].state = s, ![w].step = step]
    BY <2>2
  <2> DEFINE n == worker[w].revision + 1
             x == [worker[w] EXCEPT !.revision = n, !.state = s, !.step = step]
  <2>4. k \in Keys /\ n \in Nat /\ n = checkpoint[k].revision + 1
    BY <1>4, <2>1 DEF InJob, Current
  <2>5. x \in InJob /\ x.step = step /\ x.read = worker[w].read /\ x.key = k
          /\ x.revision = n /\ x.state = s
    BY <2>1, <2>4 DEF InJob
  <2>6. worker' = [worker EXCEPT ![w] = x] /\ worker'[w] = x
    BY <1>1, <2>1, <2>3 DEF TypeOK, InJob
  <2> HIDE DEF x, n
  <2>7. checkpoint' = [checkpoint EXCEPT ![k] = [revision |-> n, state |-> s]]
    BY <2>2 DEF n
  <2>8. /\ checkpoint'[k] = [revision |-> n, state |-> s]
        /\ \A j \in Keys : j # k => checkpoint'[j] = checkpoint[j]
    BY <1>1, <2>4, <2>7 DEF TypeOK
  <2>9. TypeOK'
    <3>1. [revision |-> n, state |-> s] \in CheckpointRow
      BY <2>4 DEF CheckpointRow
    <3> QED  BY <1>1, <1>2, <2>5, <2>6, <2>7, <3>1 DEF TypeOK, JobsMove, QueueMoves, RecordsOK
  <2>10. \A j \in Keys : GoesOn(checkpoint'[j].state)
    BY <2>2, <2>8 DEF IInv
  <2>11. ASSUME NEW v \in Workers, worker'[v].step \in Inside
         PROVE  ReadOK(v)' /\ RunOK(v)'
    <3>1. CASE v = w
      <4>1. ReadOK(w)
        BY <1>1 DEF IInv, Inside
      <4>2. ReadOK(v)'
        BY <1>2, <2>5, <2>6, <3>1, <4>1 DEF ReadOK
      <4>3. RunOK(w)'
        <5>1. worker'[w].key = k /\ worker'[w].revision = n /\ worker'[w].state = s
                /\ worker'[w].step = step
          BY <2>5, <2>6
        <5>2. checkpoint'[k].revision = n /\ checkpoint'[k].state = s
          BY <2>8
        <5> QED  BY <2>3, <2>4, <5>1, <5>2 DEF RunOK
      <4> QED  BY <3>1, <4>2, <4>3
    <3>2. CASE v # w
      <4>1. worker'[v] = worker[v] /\ worker[v] \in InJob
        BY <1>1, <2>6, <2>11, <3>2, Holding DEF TypeOK
      <4>2. ReadOK(v) /\ RunOK(v)
        BY <2>11, <4>1 DEF IInv
      <4>3. ReadOK(v)'
        BY <1>2, <4>1, <4>2 DEF ReadOK
      <4>4. RunOK(v)'
        <5>1. worker[v].key \in Keys /\ worker[v].revision \in Nat /\ checkpoint[k].revision \in Nat
          BY <1>1, <2>4, <4>1 DEF InJob, TypeOK, CheckpointRow
        <5>2. CASE worker[v].key = k
          BY <2>1, <2>4, <2>8, <4>1, <4>2, <5>1, <5>2 DEF RunOK
        <5>3. CASE worker[v].key # k
          BY <2>8, <4>1, <4>2, <5>1, <5>3 DEF RunOK
        <5> QED  BY <5>2, <5>3
      <4> QED  BY <4>3, <4>4
    <3> QED  BY <3>1, <3>2
  <2>12. OutcomeIsReal'
    BY <1>2, <2>1, <2>8 DEF IInv, OutcomeIsReal, JobsMove, Reported
  <2> QED  BY <1>2, <2>9, <2>10, <2>11, <2>12 DEF IInv, ApprovedOnResolved
<1> QED  BY <1>3, <1>4

-----------------------------------------------------------------------------
(* Saving what the job made. *)

\* A save that succeeds replaces the case the worker read.
LEMMA SavedOverRead ==
    ASSUME IInv, NEW w \in Workers, worker[w].step \in Inside, Unchanged(w)
    PROVE  worker[w] \in InJob /\ worker[w].read = case
BY Holding DEF IInv, ReadOK, Unchanged

\* The case and one job's row are saved together, and the worker lays its work down.
LEMMA PersistKeepsIInv ==
    ASSUME IInv, NEW w \in Workers, worker[w].step \in Inside, Unchanged(w),
           NEW saved, NEW status, Persist(saved, worker[w].key, status), CaseMoves,
           status = "failed" \/ /\ status \in Reported
                                /\ worker[w].key \in case'.applied
                                /\ checkpoint[worker[w].key].state.status = status,
           NEW step \in {"done", "thrown"}, Leave(w, step),
           UNCHANGED <<checkpoint, records, notices>>
    PROVE  IInv'
<1> DEFINE k == worker[w].key
<1>1. TypeOK /\ k \in Keys
  BY SavedOverRead DEF IInv, InJob
<1>2. worker' = [worker EXCEPT ![w] = [step |-> step, key |-> k]]
  BY DEF Leave
<1>3. jobs' = [jobs EXCEPT ![k].status = status]
  BY DEF Persist, SetStatus
<1>4. TypeOK'
  <2>1. jobs' \in [Keys -> JobRow]
    BY <1>1, <1>3 DEF TypeOK, JobRow, Reported
  <2>2. [step |-> step, key |-> k] \in AtRecord
    BY <1>1 DEF AtRecord
  <2> QED  BY <1>1, <1>2, <2>1, <2>2 DEF TypeOK, CaseMoves
<1>5. ASSUME NEW v \in Workers, worker'[v].step \in Inside
      PROVE  ReadOK(v)' /\ RunOK(v)'
  <2>1. v # w
    BY <1>1, <1>2, <1>5 DEF TypeOK, Inside
  <2>2. worker'[v] = worker[v]
    BY <1>1, <1>2, <2>1 DEF TypeOK
  <2> QED  BY <1>5, <2>2, CopiesAge DEF IInv, RunOK
<1>6. OutcomeIsReal'
  BY <1>1, <1>3 DEF IInv, OutcomeIsReal, CaseMoves, TypeOK, Reported
<1> QED  BY <1>4, <1>5, <1>6 DEF IInv, CaseMoves, GoesOn

\* The outcome of a run is a case that waits for review, with the run's key among its results.
LEMMA OutcomeMoves ==
    ASSUME IInv, NEW w \in Workers, worker[w].step \in Inside, Unchanged(w),
           case' = Outcome(w)
    PROVE  CaseMoves /\ worker[w].key \in case'.applied
<1>1. worker[w] \in InJob /\ worker[w].read = case /\ case \in CaseRow
  BY SavedOverRead DEF IInv, TypeOK
<1>2. worker[w].key \in Keys /\ worker[w].state.findings \in Findings
  BY <1>1 DEF InJob, RunState
<1>3. case' = [case EXCEPT !.version = @ + 1, !.status = "needs_review", !.facts = "extracted",
                 !.findings = worker[w].state.findings, !.applied = @ \union {worker[w].key}]
  BY <1>1 DEF Outcome
<1>4. case.version \in Nat \ {0} /\ case.applied \in SUBSET Keys
  BY <1>1 DEF CaseRow
<1>5. case.applied \union {worker[w].key} \in SUBSET Keys
  BY <1>2, <1>4
<1>6. case' = [version |-> case.version + 1, status |-> "needs_review", facts |-> "extracted",
              findings |-> worker[w].state.findings,
              applied |-> case.applied \union {worker[w].key}]
  BY <1>1, <1>3 DEF CaseRow
<1>7. case' \in CaseRow
  BY <1>2, <1>4, <1>5, <1>6 DEF CaseRow
<1> QED  BY <1>6, <1>7 DEF CaseMoves, ApprovedOnResolved

LEMMA SaveKeepsIInv ==
    ASSUME IInv, NEW w \in Workers, SaveOutcome(w) \/ SaveFailure(w)
    PROVE  IInv'
<1>1. TypeOK
  BY DEF IInv
<1>2. CASE SaveOutcome(w)
  <2> DEFINE s == worker[w].state
  <2>1. worker[w].step = "ran" /\ worker[w] \in InJob
    BY <1>1, <1>2, Holding DEF SaveOutcome, Inside
  <2>2. CASE s.status # "failed" /\ Unchanged(w)
    <3>1. Persist(Outcome(w), worker[w].key, s.status) /\ Leave(w, "done")
      BY <1>2, <2>2 DEF SaveOutcome
    <3>2. CaseMoves /\ worker[w].key \in case'.applied
      BY <2>1, <2>2, <3>1, OutcomeMoves DEF Persist, Inside
    <3>3. s.status \in Reported /\ checkpoint[worker[w].key].state.status = s.status
      BY <2>1, <2>2 DEF IInv, RunOK, InJob, RunState, RunStatus, Reported, Inside
    <3> QED  BY <1>2, <2>1, <2>2, <3>1, <3>2, <3>3, PersistKeepsIInv DEF SaveOutcome, Inside
  <2>3. CASE ~(s.status # "failed" /\ Unchanged(w))
    <3>1. UNCHANGED <<case, jobs, checkpoint, records, notices>> /\ Step(w, "error")
      BY <1>2, <2>3 DEF SaveOutcome
    <3> QED
      BY <1>1, <2>1, <3>1, JobsRest, QueueRests, StepToError, ErrorKeepsIInv DEF Inside
  <2> QED  BY <2>2, <2>3
<1>3. CASE SaveFailure(w)
  <2>1. worker[w].step = "error" /\ worker[w] \in InJob /\ Leave(w, "thrown")
    BY <1>1, <1>3, Holding DEF SaveFailure, Inside
  <2>2. CASE Unchanged(w)
    <3>1. CaseMoves
      <4>1. CASE worker[w].changed
        BY <1>3, <2>1, <2>2, <4>1, OutcomeMoves DEF SaveFailure, Persist, Inside
      <4>2. CASE ~worker[w].changed
        <5>1. worker[w].read = case /\ case \in CaseRow
          BY <1>1, <2>1, <2>2, SavedOverRead DEF TypeOK, Inside
        <5>2. case' = [case EXCEPT !.version = @ + 1, !.status = "needs_review"]
          BY <1>3, <2>2, <4>2, <5>1 DEF SaveFailure, Persist
        <5>3. case.version \in Nat \ {0}
          BY <5>1 DEF CaseRow
        <5>4. case' = [version |-> case.version + 1, status |-> "needs_review",
                       facts |-> case.facts, findings |-> case.findings, applied |-> case.applied]
          BY <5>1, <5>2 DEF CaseRow
        <5>5. case' \in CaseRow
          BY <5>1, <5>3, <5>4 DEF CaseRow
        <5> QED  BY <5>4, <5>5 DEF CaseMoves, ApprovedOnResolved
      <4> QED  BY <4>1, <4>2
    <3>2. \E saved : Persist(saved, worker[w].key, "failed")
      BY <1>3, <2>2 DEF SaveFailure
    <3> QED  BY <1>3, <2>1, <2>2, <3>1, <3>2, PersistKeepsIInv DEF SaveFailure, Inside
  <2>3. CASE ~Unchanged(w)
    <3>1. UNCHANGED <<case, jobs, checkpoint, records, notices>>
      BY <1>3, <2>3 DEF SaveFailure
    <3> QED
      BY <1>1, <2>1, <3>1, JobsRest, QueueRests, KeyHeld, LeaveKeepsIInv
  <2> QED  BY <2>2, <2>3
<1> QED  BY <1>2, <1>3
-----------------------------------------------------------------------------
(* The invariant. *)

LEMMA InitKeepsIInv == ASSUME Init PROVE IInv
<1> USE DEF Init
<1>1. case \in CaseRow
  BY DEF CaseRow, Findings
<1>2. jobs \in [Keys -> JobRow]
  BY DEF JobRow
<1>3. checkpoint \in [Keys -> CheckpointRow] /\ \A k \in Keys : GoesOn(checkpoint[k].state)
  BY DefaultTyped DEF CheckpointRow
<1>4. /\ records \in [Keys -> QueueRecord]
      /\ \A k \in Keys : (records[k].state = "active") <=> (records[k].owner # Nobody)
  <2>1. /\ Absent \in QueueRecord /\ Absent.state # "active" /\ Absent.owner = Nobody
        /\ [Absent EXCEPT !.state = "waiting"] \in QueueRecord
        /\ [Absent EXCEPT !.state = "waiting"].state # "active"
        /\ [Absent EXCEPT !.state = "waiting"].owner = Nobody
    BY DEF Absent, QueueRecord
  <2> QED  BY <2>1
<1>5. worker \in [Workers -> AtRecord \union InJob \union {NoWork}]
        /\ \A w \in Workers : worker[w].step \notin Inside
  BY DEF NoWork, Inside
<1> QED
  BY <1>1, <1>2, <1>3, <1>4, <1>5 DEF IInv, TypeOK, ApprovedOnResolved, OutcomeIsReal

LEMMA StepKeepsIInv == ASSUME IInv, [Next]_vars PROVE IInv'
<1>1. CASE \E c \in Clients, k \in Keys : Submit(c, k) \/ AskCancel(c, k) \/ AskRetry(c, k)
  BY <1>1, SubmitKeepsIInv
<1>2. CASE \E c \in Clients : Request(c) \/ ApiDies(c)
  BY <1>2, RequestKeepsIInv
<1>3. CASE \/ CorrectFact \/ ResolveFinding \/ ReEvaluate \/ UploadDocument
           \/ \E outcome \in DOMAIN DecidedStatus : Decide(outcome)
  BY <1>3, PeopleKeepIInv
<1>4. CASE \E w \in Workers, k \in Keys : Claim(w, k)
  BY <1>4, ClaimKeepsIInv
<1>5. CASE \E w \in Workers : Work(w) \/ Outage(w) \/ WorkerDies(w)
  BY <1>5, StartKeepsIInv, LoadKeepsIInv, NodeKeepsIInv, SaveKeepsIInv, EndKeepsIInv,
     OutageKeepsIInv DEF Work
<1>6. CASE \E k \in Keys : NoteRetry(k) \/ RecoverStalled(k) \/ LoseLock(k)
  BY <1>6, StalledKeepsIInv
<1>7. CASE UNCHANGED vars
  BY <1>7, JobsRest, QueueRests, AsideKeepsIInv DEF vars, IInv
<1> QED  BY <1>1, <1>2, <1>3, <1>4, <1>5, <1>6, <1>7 DEF Next

\* What is in the hands of each worker fits the case and the checkpoint it was read from,
\* and the rows fit each other, whatever dies, stalls or is asked for.
THEOREM Invariant == Spec => []IInv
<1>1. Init => IInv
  BY InitKeepsIInv
<1>2. IInv /\ [Next]_vars => IInv'
  BY StepKeepsIInv
<1> QED  BY <1>1, <1>2, PTL DEF Spec

\* No case stands approved over an open material finding, and every row has its shape.
THEOREM SoundCases == Spec => []CasesAreSound
<1>1. IInv => CasesAreSound
  BY DEF IInv, CasesAreSound
<1> QED  BY <1>1, Invariant, PTL

\* The outcome a job's row reports was reached by its workflow and saved with the case.
THEOREM ReportedOutcomes == Spec => []OutcomeIsReal
<1>1. IInv => OutcomeIsReal
  BY DEF IInv
<1> QED  BY <1>1, Invariant, PTL

-----------------------------------------------------------------------------
(* The steps. *)

\* A worker that takes a step is the only one whose hands change.
LEMMA OthersKeepTheirs ==
    ASSUME TypeOK, NEW w \in Workers, NEW v \in Workers, v # w, NEW k \in Keys,
           Work(v) \/ Outage(v) \/ WorkerDies(v) \/ Claim(v, k)
    PROVE  worker'[w] = worker[w]
BY DEF TypeOK, Work, Outage, WorkerDies, Claim, Start, LoadCheckpoint, RunNode, SaveOutcome,
       SaveFailure, Finish, FailAttempt, Step, Leave

\* Only two steps of a worker write the case, and both write over the version it read.
LEMMA WritesOverRead ==
    ASSUME IInv, [Next]_vars, NEW w \in Workers, worker[w].step \in {"ran", "error"},
           case' # case, worker'[w].step # worker[w].step
    PROVE  case = worker[w].read
<1>1. TypeOK
  BY DEF IInv
<1>2. PICK v \in Workers : Work(v) \/ Outage(v) \/ WorkerDies(v) \/ \E k \in Keys : Claim(v, k)
  <2>1. ~(\E c \in Clients, k \in Keys : Submit(c, k) \/ AskCancel(c, k) \/ AskRetry(c, k))
    BY DEF Submit, AskCancel, AskRetry, Ask, store
  <2>2. ~(\E c \in Clients : Request(c) \/ ApiDies(c))
    BY DEF Request, ApiDies, Enqueue, EnqueueFails, Announce, Touch, RequestCancel, RemoveRecord,
           RecordCancelled, RetryRecord, RecordRetry, store
  <2>3. ~(CorrectFact \/ ResolveFinding \/ ReEvaluate \/ UploadDocument)
    BY DEF CorrectFact, ResolveFinding, ReEvaluate, UploadDocument, Save
  <2>4. ~(\E outcome \in DOMAIN DecidedStatus : Decide(outcome))
    BY DEF Decide, Save
  <2>5. ~(\E k \in Keys : NoteRetry(k) \/ RecoverStalled(k) \/ LoseLock(k))
    BY DEF NoteRetry, RecoverStalled, LoseLock, Requeue, store
  <2>6. ~(UNCHANGED vars)
    BY DEF vars
  <2> QED  BY <2>1, <2>2, <2>3, <2>4, <2>5, <2>6 DEF Next
<1>3. \E k \in Keys : k = worker[w].key
  BY <1>1, KeyHeld
<1>4. v = w
  BY <1>1, <1>2, <1>3, OthersKeepTheirs
<1>5. Unchanged(w)
  BY <1>2, <1>4 DEF Work, Outage, WorkerDies, Claim, Start, LoadCheckpoint, RunNode, SaveOutcome,
       SaveFailure, Finish, FailAttempt, store
<1> QED  BY <1>5, SavedOverRead DEF Inside

\* Nothing a reviewer saved while the documents were processed is lost to a worker's save.
THEOREM NothingOverwritten == Spec => OverwritesOnlyWhatItRead
<1>1. IInv /\ [Next]_vars =>
        [\A w \in Workers :
            (worker[w].step \in {"ran", "error"} /\ case' # case /\ worker'[w].step # worker[w].step)
                => case = worker[w].read]_vars
  BY WritesOverRead
<1> QED  BY <1>1, Invariant, PTL DEF Spec, OverwritesOnlyWhatItRead

\* Only the node of a worker that holds the current checkpoint writes the next.
LEMMA CheckpointStep ==
    ASSUME IInv, [Next]_vars, NEW k \in Keys, checkpoint'[k] # checkpoint[k]
    PROVE  /\ checkpoint[k].state.status = "running"
           /\ checkpoint'[k].revision = checkpoint[k].revision + 1
           /\ Rank[checkpoint'[k].state.phase] > Rank[checkpoint[k].state.phase]
<1>1. PICK w \in Workers : RunNode(w)
  BY DEF Next, vars, store, Submit, AskCancel, AskRetry, Ask, Request, ApiDies, Enqueue,
         EnqueueFails, Announce, Touch, RequestCancel, RemoveRecord, RecordCancelled, RetryRecord,
         RecordRetry, CorrectFact, ResolveFinding, ReEvaluate, UploadDocument, Decide, Save, Claim,
         Work, Start, LoadCheckpoint, SaveOutcome, SaveFailure, Finish, FailAttempt, Outage,
         WorkerDies, NoteRetry, RecoverStalled, LoseLock, Requeue
<1>2. Current(w)
  BY <1>1 DEF RunNode
<1>3. PICK s \in RunState :
          /\ Rank[s.phase] > Rank[checkpoint[worker[w].key].state.phase]
          /\ checkpoint' = [checkpoint EXCEPT
                 ![worker[w].key] = [revision |-> worker[w].revision + 1, state |-> s]]
  BY <1>1, <1>2, NodeRuns
<1>4. worker[w].key = k /\ checkpoint[k].state.status = "running"
  BY <1>1, <1>2, <1>3, NodeRuns DEF IInv, TypeOK
<1> QED  BY <1>2, <1>3, <1>4 DEF IInv, TypeOK, Current

\* Two workers with the same job never undo each other's progress.
THEOREM ProgressIsKept == Spec => CheckpointsMoveOn
<1>1. IInv /\ [Next]_vars =>
        [\A k \in Keys : checkpoint'[k] # checkpoint[k] =>
            /\ checkpoint[k].state.status = "running"
            /\ checkpoint'[k].revision = checkpoint[k].revision + 1
            /\ Rank[checkpoint'[k].state.phase] > Rank[checkpoint[k].state.phase]]_vars
  BY CheckpointStep
<1> QED  BY <1>1, Invariant, PTL DEF Spec, CheckpointsMoveOn

-----------------------------------------------------------------------------
(* One run: CaseExtraction. *)

Reads == (pages = <<>> /\ chunks = <<>>) \/ (pages \in Readings /\ chunks = Chunks(pages))

\* However the pages were read, they and their chunks are lists.
LEMMA ChunksAreAList ==
    ASSUME NEW read \in Readings
    PROVE  IsList(Chunks(read)) /\ IsList(read)
<1>1. PICK ocr : read = [i \in DOMAIN Pages |-> ReadPage(Pages[i], ocr[i])]
  BY DEF Readings
<1>2. Len(Pages) \in Nat /\ DOMAIN Pages = 1..Len(Pages)
  BY InputsAssumption, ListItems
<1>3. IsList(read) /\ DOMAIN read = 1..Len(Pages)
  BY <1>1, <1>2, ListMade
<1>4. ASSUME NEW i \in DOMAIN read PROVE IsList(ChunkSourcePage(read[i]))
  <2> DEFINE p == read[i]
  <2> DEFINE step == ChunkSize - Overlap
             starts == {s \in 0..(Len(p.words) - 1) :
                          s % step = 0 /\ (s = 0 \/ s - step + ChunkSize < Len(p.words))}
  <2>1. Len(p.words) \in Nat
    BY InputsAssumption, ListItems
  <2>2. Cardinality(starts) \in Nat
    <3>1. IsFiniteSet(0..(Len(p.words) - 1))
      BY <2>1, FS_Interval
    <3>2. IsFiniteSet(starts)
      BY <3>1, FS_Subset
    <3> QED  BY <3>2, FS_CardinalityType
  <2>3. PICK n : n = Cardinality(starts)
    OBVIOUS
  <2>4. ChunkSourcePage(p) = [k \in 1..n |-> ChunkSourcePage(p)[k]]
    BY <2>3 DEF ChunkSourcePage
  <2> QED  BY <2>2, <2>3, <2>4, ListMade
<1> DEFINE lists == [i \in DOMAIN read |-> ChunkSourcePage(read[i])]
<1>5. IsList(lists)
  <2>1. lists = [i \in 1..Len(Pages) |-> lists[i]]
    BY <1>3
  <2> HIDE DEF lists
  <2> QED  BY <2>1, <1>2, ListMade
<1>6. \A i \in DOMAIN lists : IsList(lists[i])
  BY <1>4
<1>7. IsList(FlattenSeq(lists))
  <2> HIDE DEF lists
  <2> QED  BY <1>5, <1>6, FlatList
<1> QED  BY <1>7, <1>3 DEF Chunks

LEMMA ChunksListed ==
    ASSUME Reads
    PROVE  IsList(chunks) /\ IsList(pages)
<1>1. IsList(<<>>)
  BY DEF IsList
<1> QED  BY <1>1, ChunksAreAList DEF Reads

-----------------------------------------------------------------------------
(* The merge. *)

Answered(results) ==
    \A i \in DOMAIN chunks :
       IsList(results[i]) /\ \A j \in DOMAIN results[i] : results[i][j].confidence \in Nat

\* Every observation of every answer, and what the gates let through.
LEMMA Observations ==
    ASSUME Reads, NEW results, Answered(results)
    PROVE  /\ IsList(Observed(chunks, results))
           /\ \A k \in DOMAIN Observed(chunks, results) :
                 /\ Observed(chunks, results)[k].saw.confidence \in Nat
                 /\ Observed(chunks, results)[k].held \in BOOLEAN
                 /\ Observed(chunks, results)[k].held => Observed(chunks, results)[k].saw.path \in DOMAIN FieldTypes
<1> DEFINE lists == [i \in DOMAIN chunks |->
                       [j \in DOMAIN results[i] |->
                          [saw |-> results[i][j], held |-> Supported(results[i][j], chunks[i])]]]
           Fine(o) == /\ o.saw.confidence \in Nat /\ o.held \in BOOLEAN
                      /\ o.held => o.saw.path \in DOMAIN FieldTypes
<1>1. Len(chunks) \in Nat /\ DOMAIN chunks = 1..Len(chunks)
  BY ChunksListed, ListItems
<1>2. IsList(lists)
  <2>1. lists = [i \in 1..Len(chunks) |-> lists[i]]
    BY <1>1
  <2> HIDE DEF lists
  <2> QED  BY <2>1, <1>1, ListMade
<1>3. ASSUME NEW i \in DOMAIN lists
      PROVE  IsList(lists[i]) /\ \A j \in DOMAIN lists[i] : Fine(lists[i][j])
  <2>1. i \in DOMAIN chunks /\ IsList(results[i])
    BY DEF Answered
  <2>2. Len(results[i]) \in Nat /\ DOMAIN results[i] = 1..Len(results[i])
    BY <2>1, ListItems
  <2>3. lists[i] = [j \in 1..Len(results[i]) |->
                      [saw |-> results[i][j], held |-> Supported(results[i][j], chunks[i])]]
    BY <2>1, <2>2
  <2>4. IsList(lists[i])
    BY <2>2, <2>3, ListMade
  <2>5. ASSUME NEW j \in DOMAIN results[i] PROVE Fine(lists[i][j])
    <3>1. lists[i][j].saw = results[i][j] /\ lists[i][j].held = Supported(results[i][j], chunks[i])
      BY <2>2, <2>3
    <3>2. results[i][j].confidence \in Nat
      BY <2>1 DEF Answered
    <3>3. Supported(results[i][j], chunks[i]) => results[i][j].path \in DOMAIN FieldTypes
      BY DEF Supported
    <3>4. Supported(results[i][j], chunks[i]) \in BOOLEAN
      BY Zenon DEF Supported
    <3> HIDE DEF lists
    <3> QED  BY <3>1, <3>2, <3>3, <3>4
  <2> QED  BY <2>2, <2>3, <2>4, <2>5
<1> HIDE DEF lists
<1>4. /\ IsList(FlattenSeq(lists))
      /\ ToSet(FlattenSeq(lists)) = UNION {ToSet(lists[i]) : i \in DOMAIN lists}
  BY <1>2, <1>3, FlatList
<1>5. FlattenSeq(lists) = Observed(chunks, results)
  BY DEF Observed, lists
<1>6. ASSUME NEW k \in DOMAIN Observed(chunks, results) PROVE Fine(Observed(chunks, results)[k])
  <2>1. PICK i \in DOMAIN lists : Observed(chunks, results)[k] \in ToSet(lists[i])
    BY <1>4, <1>5, ListItems
  <2>2. PICK j \in DOMAIN lists[i] : Observed(chunks, results)[k] = lists[i][j]
    BY <2>1 DEF ToSet
  <2> QED  BY <1>3, <2>2
<1> QED  BY <1>4, <1>5, <1>6

Fact(o) == [value |-> o.value, document |-> o.document, page |-> o.page, quote |-> o.quote,
            confidence |-> o.confidence]

\* What a single observation does to the facts.
LEMMA Kept ==
    ASSUME NEW facts, NEW o
    PROVE  /\ DOMAIN Keep(facts, o) = DOMAIN facts \union {o.path}
           /\ \A p \in DOMAIN facts : p # o.path => Keep(facts, o)[p] = facts[p]
           /\ Keep(facts, o)[o.path] = IF o.path \in DOMAIN facts /\ Outweighs(facts[o.path], o)
                                       THEN facts[o.path] ELSE Fact(o)
BY DEF Keep, Fact, Put

\* Entry m of seen is the one the first n leave for its path.
Wins(seen, n, p, m) ==
    /\ m \in 1..n /\ seen[m].held /\ seen[m].saw.path = p
    /\ \A i \in 1..n : seen[i].held /\ seen[i].saw.path = p =>
          /\ seen[i].saw.confidence <= seen[m].saw.confidence
          /\ i > m => seen[i].saw.confidence < seen[m].saw.confidence

MergedOf(facts, seen, n) ==
    /\ DOMAIN facts = {seen[i].saw.path : i \in {j \in 1..n : seen[j].held}}
    /\ \A p \in DOMAIN facts : \E m \in 1..n : Wins(seen, n, p, m) /\ facts[p] = Fact(seen[m].saw)

\* The facts after any number of observations: by induction on that number.
LEMMA Merging ==
    ASSUME Reads, NEW results, Answered(results)
    PROVE  MergedOf(MergeFacts(chunks, results), Observed(chunks, results), Len(Observed(chunks, results)))
<1> DEFINE seen == Observed(chunks, results)
           N == Len(seen)
           Is(f) == f = [n \in 0..N |->
                           IF n = 0 THEN <<>>
                           ELSE IF seen[n].held THEN Keep(f[n - 1], seen[n].saw) ELSE f[n - 1]]
           F == CHOOSE f : Is(f)
<1>1. /\ N \in Nat /\ DOMAIN seen = 1..N
      /\ \A i \in 1..N : seen[i].saw.confidence \in Nat /\ seen[i].held \in BOOLEAN
  BY Observations, ListItems
<1>2. MergeFacts(chunks, results) = F[N]
  BY Zenon DEF MergeFacts, Merge
<1> HIDE DEF seen, N
<1> DEFINE Paths == {seen[i].saw.path : i \in 1..N}
           All == {Fact(seen[i].saw) : i \in 1..N}
           S == UNION {[D -> All] : D \in SUBSET Paths}
<1>3. \E f : Is(f)
  <2> DEFINE step == [n \in 1..N |-> [x \in S |->
                        IF seen[n].held THEN Keep(x, seen[n].saw) ELSE x]]
  <2>1. <<>> \in S
    <3>1. <<>> \in [{} -> All]
      OBVIOUS
    <3> QED  BY <3>1
  <2>2. \A n \in 1..N : step[n] \in [S -> S]
    <3> SUFFICES ASSUME NEW n \in 1..N, NEW x \in S PROVE Keep(x, seen[n].saw) \in S
      <4> HIDE DEF S
      <4> QED  OBVIOUS
    <3> DEFINE o == seen[n].saw
               y == Keep(x, o)
    <3>1. PICK D \in SUBSET Paths : x \in [D -> All]
      OBVIOUS
    <3>2. o.path \in Paths /\ Fact(o) \in All
      OBVIOUS
    <3>3. DOMAIN y = D \union {o.path}
      <4> HIDE DEF o, All, Paths, S
      <4>1. DOMAIN x = D
        BY <3>1
      <4> QED  BY <4>1, Kept
    <3>4. \A p \in DOMAIN y : y[p] \in All
      <4> HIDE DEF o, All, Paths, S
      <4>1. DOMAIN x = D /\ \A p \in D : x[p] \in All
        BY <3>1
      <4>2. /\ \A p \in DOMAIN x : p # o.path => y[p] = x[p]
            /\ y[o.path] = IF o.path \in DOMAIN x /\ Outweighs(x[o.path], o)
                           THEN x[o.path] ELSE Fact(o)
        BY Kept
      <4> HIDE DEF y
      <4> QED  BY <3>2, <3>3, <4>1, <4>2
    <3>5. y = [p \in DOMAIN y |-> y[p]]
      <4> HIDE DEF o, All, Paths, S
      <4>1. x = [p \in DOMAIN x |-> x[p]]
        BY <3>1
      <4> QED  BY <4>1 DEF Keep, Put
    <3>6. y \in [D \union {o.path} -> All]
      <4> HIDE DEF y, All
      <4> QED  BY <3>3, <3>4, <3>5
    <3>7. D \union {o.path} \in SUBSET Paths
      <4> HIDE DEF o, Paths
      <4> QED  BY <3>1, <3>2
    <3>8. y \in S
      <4> HIDE DEF y, o, Paths, All
      <4> QED  BY <3>6, <3>7
    <3> QED  BY <3>8
  <2> HIDE DEF S, step
  <2>3. PICK f \in [0..N -> S] : f[0] = <<>> /\ \A n \in 1..N : f[n] = step[n][f[n - 1]]
    <3>1. \E f \in [0..N -> S] : IsFold(f, <<>>, step, N)
      BY <1>1, <2>1, <2>2, FoldBuilt
    <3> QED  BY <3>1 DEF IsFold
  <2>4. ASSUME NEW n \in 1..N
        PROVE  f[n] = IF seen[n].held THEN Keep(f[n - 1], seen[n].saw) ELSE f[n - 1]
    <3>1. n - 1 \in 0..N
      BY <1>1
    <3>2. f[n - 1] \in S
      BY <2>3, <3>1
    <3> QED  BY <2>3, <3>2 DEF step
  <2>5. f = [n \in 0..N |-> IF n = 0 THEN <<>>
                            ELSE IF seen[n].held THEN Keep(f[n - 1], seen[n].saw) ELSE f[n - 1]]
    <3>1. \A n \in 0..N : n = 0 \/ n \in 1..N
      BY <1>1
    <3> QED  BY <2>3, <2>4, <3>1
  <2> QED  BY <2>5
<1>4. Is(F)
  BY <1>3, Zenon
<1> HIDE DEF F
<1> DEFINE Good == {n \in 0..N : MergedOf(F[n], seen, n)}
<1>5. 0 \in Good
  <2>1. F[0] = <<>> /\ 0 \in 0..N
    BY <1>1, <1>4
  <2>2. DOMAIN <<>> = {} /\ {seen[i].saw.path : i \in {j \in 1..0 : seen[j].held}} = {}
    OBVIOUS
  <2> QED  BY <2>1, <2>2 DEF MergedOf
<1>6. ASSUME NEW n \in 1..N, n - 1 \in Good PROVE n \in Good
  <2> DEFINE old == F[n - 1]
             o == seen[n].saw
  <2>1. /\ n - 1 \in 0..N /\ n \in 0..N /\ n \in Nat /\ n \in 1..n /\ 1..n = 1..(n - 1) \union {n}
        /\ \A i \in 1..n : i \in 1..N /\ i \in Nat
    BY <1>1
  <2>2. F[n] = IF seen[n].held THEN Keep(old, o) ELSE old
    BY <1>4, <2>1
  <2>3. MergedOf(old, seen, n - 1)
    BY <1>6
  <2>4. CASE ~seen[n].held
    <3>1. \A p, m : Wins(seen, n - 1, p, m) => Wins(seen, n, p, m)
      BY <2>1, <2>4 DEF Wins
    <3>2. {j \in 1..n : seen[j].held} = {j \in 1..(n - 1) : seen[j].held}
      BY <2>1, <2>4
    <3>3. MergedOf(old, seen, n)
      BY <2>1, <2>3, <3>1, <3>2 DEF MergedOf
    <3> QED  BY <2>1, <2>2, <2>4, <3>3
  <2>5. CASE seen[n].held
    <3> DEFINE new == Keep(old, o)
    <3>1. /\ DOMAIN new = DOMAIN old \union {o.path}
          /\ \A p \in DOMAIN old : p # o.path => new[p] = old[p]
          /\ new[o.path] = IF o.path \in DOMAIN old /\ Outweighs(old[o.path], o)
                           THEN old[o.path] ELSE Fact(o)
      BY Kept
    <3>2. {j \in 1..n : seen[j].held} = {j \in 1..(n - 1) : seen[j].held} \union {n}
      BY <2>1, <2>5
    <3>3. DOMAIN new = {seen[i].saw.path : i \in {j \in 1..n : seen[j].held}}
      <4>1. DOMAIN old = {seen[i].saw.path : i \in {j \in 1..(n - 1) : seen[j].held}}
        BY <2>3 DEF MergedOf
      <4> HIDE DEF new, old
      <4> QED  BY <3>1, <3>2, <4>1
    <3>4. ASSUME NEW p \in DOMAIN new
          PROVE  \E m \in 1..n : Wins(seen, n, p, m) /\ new[p] = Fact(seen[m].saw)
      <4>1. CASE p # o.path
        <5>1. p \in DOMAIN old /\ new[p] = old[p]
          BY <3>1, <4>1
        <5>2. PICK m \in 1..(n - 1) : Wins(seen, n - 1, p, m) /\ old[p] = Fact(seen[m].saw)
          BY <5>1, <2>3 DEF MergedOf
        <5>3. Wins(seen, n, p, m)
          BY <5>2, <4>1, <2>1 DEF Wins
        <5>4. m \in 1..n
          BY <2>1
        <5> HIDE DEF new, old
        <5> QED  BY <5>1, <5>2, <5>3, <5>4
      <4>2. CASE p = o.path /\ o.path \in DOMAIN old /\ Outweighs(old[o.path], o)
        <5>1. new[p] = old[p]
          BY <3>1, <4>2
        <5>2. PICK m \in 1..(n - 1) : Wins(seen, n - 1, p, m) /\ old[p] = Fact(seen[m].saw)
          BY <4>2, <2>3 DEF MergedOf
        <5>3. seen[m].saw.confidence > o.confidence
          BY <4>2, <5>2 DEF Outweighs, Fact
        <5>4. Wins(seen, n, p, m)
          BY <5>2, <5>3, <4>2, <2>1, <1>1 DEF Wins
        <5>5. m \in 1..n
          BY <2>1
        <5> HIDE DEF new, old
        <5> QED  BY <5>1, <5>2, <5>4, <5>5
      <4>3. CASE p = o.path /\ ~(o.path \in DOMAIN old /\ Outweighs(old[o.path], o))
        <5>1. new[p] = Fact(o)
          BY <3>1, <4>3
        <5>2. ASSUME NEW i \in 1..n, seen[i].held, seen[i].saw.path = p
              PROVE  seen[i].saw.confidence <= o.confidence /\ ~(i > n)
          <6>1. CASE i = n
            BY <6>1, <1>1
          <6>2. CASE i \in 1..(n - 1)
            <7>1. p \in DOMAIN old
              BY <2>3, <5>2, <6>2 DEF MergedOf
            <7>2. PICK m \in 1..(n - 1) : Wins(seen, n - 1, p, m) /\ old[p] = Fact(seen[m].saw)
              BY <7>1, <2>3 DEF MergedOf
            <7>3. ~ (seen[m].saw.confidence > o.confidence)
              BY <4>3, <7>1, <7>2 DEF Outweighs, Fact
            <7>4. seen[i].saw.confidence <= seen[m].saw.confidence
              BY <7>2, <6>2, <5>2 DEF Wins
            <7>5. m \in 1..N /\ i \in 1..N
              BY <2>1
            <7>6. /\ seen[i].saw.confidence \in Nat /\ seen[m].saw.confidence \in Nat
                  /\ o.confidence \in Nat
              BY <7>5, <1>1
            <7> QED  BY <7>3, <7>4, <7>6, <2>1
          <6> QED  BY <6>1, <6>2, <2>1
        <5>3. Wins(seen, n, p, n)
          BY <5>2, <2>1, <2>5, <4>3 DEF Wins
        <5> HIDE DEF new, old
        <5> QED  BY <5>1, <5>3, <2>1
      <4> QED  BY <4>1, <4>2, <4>3
    <3>5. MergedOf(new, seen, n)
      <4> HIDE DEF new, old
      <4> QED  BY <3>3, <3>4 DEF MergedOf
    <3> QED  BY <2>1, <2>2, <2>5, <3>5
  <2> QED  BY <2>4, <2>5
<1>7. N \in Good
  <2> HIDE DEF Good
  <2>1. \A n \in 1..N : n - 1 \in Good => n \in Good
    BY <1>6
  <2>2. \A n \in 0..N : n \in Good
    BY <1>1, <1>5, <2>1, StepByStep
  <2> QED  BY <2>2, <1>1
<1>8. MergedOf(F[N], seen, N)
  BY <1>7
<1> QED  BY <1>2, <1>8 DEF seen, N

Extracted ==
    /\ Answered(extracted)
    /\ found = MergeFacts(chunks, extracted)
    /\ Quarantined(chunks, extracted) => "quarantined" \in reasons

\* The merge keeps what FactsAreBestSupported asks for.
LEMMA BestSupported ==
    ASSUME Reads, Extracted
    PROVE  FactsAreBestSupported
<1> DEFINE seen == Observed(chunks, extracted)
           N == Len(seen)
           At(p) == {i \in DOMAIN seen : seen[i].held /\ seen[i].saw.path = p}
           Confidences(p) == {seen[i].saw.confidence : i \in At(p)}
           top(p) == Max(Confidences(p))
           Top(p) == {i \in At(p) : seen[i].saw.confidence = top(p)}
           best(p) == seen[Max(Top(p))].saw
<1>1. /\ N \in Nat /\ DOMAIN seen = 1..N
      /\ \A i \in 1..N : seen[i].saw.confidence \in Nat /\ seen[i].held \in BOOLEAN
  BY Observations, ListItems DEF Extracted
<1>2. MergedOf(found, seen, N)
  BY Merging DEF Extracted
<1> HIDE DEF seen, N
<1>3. DOMAIN found = {seen[i].saw.path : i \in {j \in DOMAIN seen : seen[j].held}}
  BY <1>1, <1>2 DEF MergedOf
<1>4. ASSUME NEW p \in DOMAIN found PROVE \A k \in DOMAIN found[p] : found[p][k] = best(p)[k]
  <2>1. PICK m \in 1..N : Wins(seen, N, p, m) /\ found[p] = Fact(seen[m].saw)
    BY <1>2 DEF MergedOf
  <2> DEFINE c == seen[m].saw.confidence
  <2>2. m \in At(p) /\ At(p) \subseteq 1..N /\ c \in Nat /\ m \in Nat
    BY <2>1, <1>1 DEF Wins
  <2>3. \A i \in At(p) : seen[i].saw.confidence <= c /\ (i > m => seen[i].saw.confidence < c)
    BY <2>1, <1>1 DEF Wins
  <2>4. \A i \in At(p) : seen[i].saw.confidence \in Nat /\ i \in Nat
    BY <1>1
  <2>5. top(p) = c
    <3>1. c \in Confidences(p)
      BY <2>2
    <3>2. Confidences(p) \subseteq Nat /\ \A x \in Confidences(p) : x <= c
      BY <2>3, <2>4
    <3> HIDE DEF c, Confidences
    <3> QED  BY <3>1, <3>2, MaxIs
  <2>6. Max(Top(p)) = m
    <3>1. m \in Top(p)
      BY <2>2, <2>5
    <3>2. Top(p) \subseteq Nat /\ \A i \in Top(p) : i <= m
      <4> SUFFICES ASSUME NEW i \in Top(p) PROVE i \in Nat /\ i <= m
        OBVIOUS
      <4>1. i \in At(p) /\ seen[i].saw.confidence = c
        BY <2>5
      <4> HIDE DEF At, Top, c
      <4> QED  BY <4>1, <2>2, <2>3, <2>4
    <3> HIDE DEF Top
    <3> QED  BY <3>1, <3>2, MaxIs
  <2>7. best(p) = seen[m].saw
    BY <2>6
  <2> HIDE DEF best
  <2> QED  BY <2>1, <2>7 DEF Fact
<1> QED  BY <1>3, <1>4 DEF FactsAreBestSupported, seen

LEMMA FactsTyped ==
    ASSUME Reads, Extracted
    PROVE  \A p \in DOMAIN found : p \in DOMAIN FieldTypes /\ found[p].confidence \in Nat
<1> DEFINE seen == Observed(chunks, extracted)
           N == Len(seen)
<1>1. /\ N \in Nat /\ DOMAIN seen = 1..N
      /\ \A i \in 1..N : /\ seen[i].saw.confidence \in Nat
                         /\ seen[i].held => seen[i].saw.path \in DOMAIN FieldTypes
  BY Observations, ListItems DEF Extracted
<1>2. MergedOf(found, seen, N)
  BY Merging DEF Extracted
<1> HIDE DEF seen, N
<1> SUFFICES ASSUME NEW p \in DOMAIN found
             PROVE  p \in DOMAIN FieldTypes /\ found[p].confidence \in Nat
  OBVIOUS
<1>3. PICK m \in 1..N : Wins(seen, N, p, m) /\ found[p] = Fact(seen[m].saw)
  BY <1>2 DEF MergedOf
<1> QED  BY <1>1, <1>3 DEF Wins, Fact

-----------------------------------------------------------------------------
(* The invariant. *)

Working == phase \in {"extract", "classify"}

IsFan(f) ==
    f = [ phase |-> f.phase, attempt |-> f.attempt, next |-> f.next, calls |-> f.calls,
          reports |-> f.reports, completed |-> f.completed, results |-> f.results ]

FanOK(f) ==
    /\ IsFan(f)
    /\ f.phase \in {"extract", "classify"}
    /\ f.next \in Nat /\ f.next - 1 <= ItemsOf(f.phase)
    /\ f.calls \subseteq 1..ItemsOf(f.phase)
    /\ f.completed \in Nat
    /\ f.reports \in Seq(Nat) /\ Len(f.reports) <= f.completed
    /\ \A k \in 1..Len(f.reports) : f.reports[k] = f.completed - Len(f.reports) + k
    /\ Cardinality(f.calls) + f.completed <= f.next - 1
    /\ Cardinality(f.calls) + Len(f.reports) <= Concurrency

\* Only a phase that was begun again, or an earlier one, leaves calls behind.
LateOK(f) ==
    /\ FanOK(f)
    /\ phase # "read"
    /\ phase = "extract" => f.phase = "extract" /\ attempt > 1
    /\ phase = "classify" /\ f.phase = "classify" => attempt > 1

\* What the current fan has begun is called or answered.
CurrentOK ==
    IF Working
    THEN /\ FanOK(fan) /\ fan.phase = phase
         /\ attempt \in 1..PhaseAttempts
         /\ DOMAIN fan.results \union fan.calls = 1..(fan.next - 1)
         /\ \A i \in DOMAIN fan.results : fan.results[i] \in Answers(phase, i)
    ELSE fan = NoFan

StartOf(ph) == IF ph = "extract" THEN 40 ELSE 55

Written == fan.completed - Len(fan.reports)

RowOK ==
    /\ row.status \in {"processing", "needs_review", "completed", "failed"}
    /\ row.progress \in 0..100
    /\ phase = "read" => row.progress <= 25
    /\ phase = "extract" => row.progress <= 54
    /\ phase = "classify" => row.progress <= 69
    /\ phase = "evaluate" => row.progress <= 70
    /\ Working /\ attempt = 1 =>
          \A c \in (Written + 1)..ItemsOf(phase) : row.progress <= ReportedProgress(phase, c)

Settled(d, a) ==
    /\ Readable(d) /\ a.document = d /\ a.type \in DocumentTypes /\ CitationSupported(d, a)
    /\ a.confidence >= ReviewBelow

ClassesOK ==
    \A d \in DOMAIN classes :
       \/ Settled(d, classes[d])
       \/ classes[d] = Unclassified

FoundOK ==
    /\ (found = <<>> /\ phase \in {"read", "extract", "failed"}) \/ Extracted
    /\ phase \in {"evaluate", "done"} /\ (\E d \in DOMAIN classes : classes[d] = Unclassified) =>
          "unclassified" \in reasons

OutcomeOK ==
    phase = "done" => ApprovalIsUnclouded /\ DisagreementIsReviewed /\ ReadyIsCited

ExtractionInv ==
    /\ phase \in DOMAIN Position /\ attempt \in 0..PhaseAttempts
    /\ phase = "read" => late = {} /\ classes = <<>> /\ found = <<>>
    /\ Reads /\ CurrentOK /\ RowOK
    /\ \A f \in late : LateOK(f)
    /\ ClassesOK /\ FoundOK /\ OutcomeOK

-----------------------------------------------------------------------------
(* Fans. *)

LEMMA Items ==
    ASSUME Reads
    PROVE  \A ph : ItemsOf(ph) \in Nat
<1>1. Len(chunks) \in Nat /\ Len(Documents) \in Nat
  BY ChunksListed, InputsAssumption, ListItems
<1> QED  BY <1>1 DEF ItemsOf

LEMMA Calls ==
    ASSUME Reads, NEW f, FanOK(f)
    PROVE  IsFiniteSet(f.calls) /\ Cardinality(f.calls) \in Nat
<1>1. IsFiniteSet(1..ItemsOf(f.phase))
  BY Items, FS_Interval
<1>2. IsFiniteSet(f.calls)
  BY <1>1, FS_Subset DEF FanOK
<1> QED  BY <1>2, FS_CardinalityType

LEMMA FanFields ==
    ASSUME NEW f, IsFan(f)
    PROVE  DOMAIN f = {"phase", "attempt", "next", "calls", "reports", "completed", "results"}
BY Zenon DEF IsFan

LEMMA FirstItems ==
    ASSUME NEW n \in Nat
    PROVE  Cardinality(1..n) = n
BY FS_Interval

\* A fan that has just been started, with a call for each of its workers.
LEMMA NewFanOK ==
    ASSUME Reads, NEW ph \in {"extract", "classify"}, NEW n
    PROVE  /\ FanOK(NewFan(ph, n)) /\ NewFan(ph, n).phase = ph
           /\ NewFan(ph, n).reports = <<>> /\ NewFan(ph, n).completed = 0
           /\ NewFan(ph, n).results = <<>>
           /\ NewFan(ph, n).calls = 1..(NewFan(ph, n).next - 1)
<1> DEFINE workers == Min({Concurrency, ItemsOf(ph)})
<1>1. ItemsOf(ph) \in Nat /\ Concurrency \in Nat
  BY Items, LimitsAssumption
<1>2. workers \in Nat /\ workers <= ItemsOf(ph) /\ workers <= Concurrency
  <2>1. {Concurrency, ItemsOf(ph)} \subseteq Nat
    BY <1>1
  <2>2. /\ workers \in {Concurrency, ItemsOf(ph)}
        /\ \A x \in {Concurrency, ItemsOf(ph)} : workers <= x
    BY <2>1, MinIsLeast
  <2> QED  BY <2>1, <2>2
<1>3. NewFan(ph, n) = [ phase |-> ph, attempt |-> n, next |-> workers + 1, calls |-> 1..workers,
                        reports |-> <<>>, completed |-> 0, results |-> <<>> ]
  BY DEF NewFan
<1> HIDE DEF workers
<1>4. Cardinality(1..workers) = workers
  BY <1>2, FirstItems
<1>5. <<>> \in Seq(Nat) /\ Len(<<>>) = 0
  OBVIOUS
<1>6. \A x : x \in 1..workers => x \in 1..ItemsOf(ph)
  BY <1>1, <1>2
<1>7. workers + 1 - 1 = workers
  BY <1>2
<1>8. IsFan(NewFan(ph, n))
  BY <1>3 DEF IsFan
<1> QED  BY <1>1, <1>2, <1>3, <1>4, <1>5, <1>6, <1>7, <1>8 DEF FanOK

\* A fan with fewer calls.
LEMMA FewerCalls ==
    ASSUME Reads, NEW f, FanOK(f), NEW i \in f.calls
    PROVE  /\ FanOK([f EXCEPT !.calls = @ \ {i}]) /\ [f EXCEPT !.calls = @ \ {i}].phase = f.phase
           /\ Cardinality(f.calls \ {i}) = Cardinality(f.calls) - 1
<1> DEFINE g == [f EXCEPT !.calls = @ \ {i}]
<1>0. IsFan(f)
  BY DEF FanOK
<1>1. IsFiniteSet(f.calls) /\ Cardinality(f.calls) \in Nat
  BY Calls
<1>2. Cardinality(f.calls \ {i}) = Cardinality(f.calls) - 1
  BY <1>1, FS_RemoveElement
<1>3. g = [ phase |-> f.phase, attempt |-> f.attempt, next |-> f.next, calls |-> f.calls \ {i},
            reports |-> f.reports, completed |-> f.completed, results |-> f.results ]
  BY <1>0, FanFields
<1>4. ItemsOf(f.phase) \in Nat /\ Concurrency \in Nat
  BY Items, LimitsAssumption
<1> HIDE DEF g
<1>5. IsFan(g)
  BY <1>3 DEF IsFan
<1>6. FanOK(g)
  BY <1>1, <1>2, <1>3, <1>4, <1>5 DEF FanOK
<1> QED  BY <1>2, <1>3, <1>6 DEF g

\* A call has returned: one call less, one report more.
LEMMA ReturnedOK ==
    ASSUME Reads, NEW f, FanOK(f), NEW i \in f.calls
    PROVE  /\ FanOK(Returned(f, i))
           /\ Returned(f, i).phase = f.phase /\ Returned(f, i).next = f.next
           /\ Returned(f, i).calls = f.calls \ {i} /\ Returned(f, i).results = f.results
           /\ Returned(f, i).completed - Len(Returned(f, i).reports)
              = f.completed - Len(f.reports)
<1> DEFINE g == Returned(f, i)
           n == Len(f.reports)
           R == Append(f.reports, f.completed + 1)
<1>0. IsFan(f)
  BY DEF FanOK
<1>1. Cardinality(f.calls) \in Nat /\ Cardinality(f.calls \ {i}) = Cardinality(f.calls) - 1
  BY Calls, FewerCalls
<1>2. g = [ phase |-> f.phase, attempt |-> f.attempt, next |-> f.next, calls |-> f.calls \ {i},
            reports |-> R, completed |-> f.completed + 1, results |-> f.results ]
  <2>1. g = [f EXCEPT !.calls = f.calls \ {i}, !.completed = f.completed + 1, !.reports = R]
    BY DEF Returned
  <2> HIDE DEF g, R
  <2> QED  BY <1>0, <2>1, FanFields
<1>3. /\ f.completed \in Nat /\ f.reports \in Seq(Nat) /\ n \in Nat /\ n <= f.completed
      /\ \A k \in 1..n : f.reports[k] = f.completed - n + k
  BY DEF FanOK
<1> HIDE DEF n
<1>4. /\ R \in Seq(Nat) /\ Len(R) = n + 1
      /\ \A k \in 1..(n + 1) : R[k] = f.completed - n + k
  <2>1. /\ R \in Seq(Nat) /\ Len(R) = n + 1
        /\ \A k \in 1..n : R[k] = f.reports[k]
        /\ R[n + 1] = f.completed + 1
    BY <1>3 DEF n
  <2>2. ASSUME NEW k \in 1..(n + 1) PROVE R[k] = f.completed - n + k
    <3>1. k = n + 1 \/ k \in 1..n
      BY <1>3
    <3>2. k \in 1..n => R[k] = f.reports[k]
      BY <2>1
    <3> HIDE DEF R
    <3> QED  BY <2>1, <3>1, <3>2, <1>3
  <2> QED  BY <2>1, <2>2
<1>5. ItemsOf(f.phase) \in Nat /\ Concurrency \in Nat
  BY Items, LimitsAssumption
<1> HIDE DEF g, R
<1>6. IsFan(g)
  BY <1>2 DEF IsFan
<1>7. /\ g.phase = f.phase /\ g.next = f.next /\ g.calls = f.calls \ {i}
      /\ g.reports = R /\ g.completed = f.completed + 1
  BY <1>2
<1>8. Cardinality(g.calls) = Cardinality(f.calls) - 1
  BY <1>1, <1>7
<1>9. \A k \in 1..Len(R) : R[k] = (f.completed + 1) - Len(R) + k
  <2>1. (f.completed + 1) - Len(R) = f.completed - n
    BY <1>3, <1>4
  <2> QED  BY <1>4, <2>1
<1>11. /\ f.phase \in {"extract", "classify"} /\ f.next \in Nat /\ f.next - 1 <= ItemsOf(f.phase)
       /\ f.calls \subseteq 1..ItemsOf(f.phase)
       /\ Cardinality(f.calls) + f.completed <= f.next - 1
       /\ Cardinality(f.calls) + n <= Concurrency
  BY DEF FanOK, n
<1>12. /\ Cardinality(g.calls) + (f.completed + 1) <= f.next - 1
       /\ Cardinality(g.calls) + Len(R) <= Concurrency
       /\ Len(R) <= f.completed + 1
  <2>1. /\ f.completed \in Nat /\ n \in Nat /\ n <= f.completed /\ Len(R) = n + 1
        /\ Cardinality(f.calls) \in Nat /\ f.next \in Nat /\ Concurrency \in Nat
    BY <1>1, <1>3, <1>4, <1>5, <1>11
  <2>2. /\ Cardinality(f.calls) + f.completed <= f.next - 1
        /\ Cardinality(f.calls) + n <= Concurrency
    BY <1>11
  <2> QED  BY <1>8, <2>1, <2>2
<1>13. g.calls \subseteq 1..ItemsOf(f.phase)
  BY <1>7, <1>11

<1>10. FanOK(g)
  BY <1>3, <1>4, <1>6, <1>7, <1>9, <1>11, <1>12, <1>13 DEF FanOK
<1> QED  BY <1>2, <1>3, <1>4, <1>10 DEF g, n

\* The first report was written: its number is the next one, and its worker goes on.
LEMMA AdvancedOK ==
    ASSUME Reads, NEW f, FanOK(f), NEW r \in FirstReport(f)
    PROVE  /\ f.completed - Len(f.reports) + 1 \in 1..ItemsOf(f.phase)
           /\ f.reports[r] = f.completed - Len(f.reports) + 1
           /\ FanOK(Advanced(f, r))
           /\ Advanced(f, r).phase = f.phase /\ Advanced(f, r).results = f.results
           /\ Advanced(f, r).completed - Len(Advanced(f, r).reports)
              = f.completed - Len(f.reports) + 1
           /\ \/ Advanced(f, r).next = f.next /\ Advanced(f, r).calls = f.calls
              \/ /\ Advanced(f, r).next = f.next + 1
                 /\ Advanced(f, r).calls = f.calls \union {f.next}
<1> DEFINE g == Advanced(f, r)
           R == RemoveAt(f.reports, r)
           n == Len(f.reports)
           more == f.next <= ItemsOf(f.phase)
           calls == IF more THEN f.calls \union {f.next} ELSE f.calls
           next == IF more THEN f.next + 1 ELSE f.next
<1>0. IsFan(f)
  BY DEF FanOK
<1>1. /\ f.completed \in Nat /\ f.reports \in Seq(Nat) /\ n \in Nat /\ n <= f.completed
      /\ \A k \in 1..n : f.reports[k] = f.completed - n + k
  BY DEF FanOK
<1>2. /\ f.phase \in {"extract", "classify"}
      /\ f.next \in Nat /\ f.next - 1 <= ItemsOf(f.phase)
      /\ f.calls \subseteq 1..ItemsOf(f.phase)
      /\ Cardinality(f.calls) + f.completed <= f.next - 1
      /\ Cardinality(f.calls) + n <= Concurrency
  BY DEF FanOK
<1>3. r = 1 /\ r \in 1..n
  BY <1>1 DEF FirstReport
<1>4. f.reports[r] = f.completed - n + 1
  BY <1>1, <1>3
<1>5. /\ ItemsOf(f.phase) \in Nat /\ Concurrency \in Nat
      /\ IsFiniteSet(f.calls) /\ Cardinality(f.calls) \in Nat
  BY Items, LimitsAssumption, Calls
<1>6. f.completed - n + 1 \in 1..ItemsOf(f.phase)
  BY <1>1, <1>2, <1>3, <1>5
<1> HIDE DEF n
<1>7. /\ R \in Seq(Nat) /\ Len(R) = n - 1
      /\ \A k \in 1..(n - 1) : R[k] = f.completed - (n - 1) + k
  <2>1. /\ R \in Seq(Nat) /\ Len(R) = n - 1
        /\ \A i \in (r + 1)..n : R[i - 1] = f.reports[i]
    BY <1>1, <1>3, RemovedAt DEF n
  <2>2. ASSUME NEW k \in 1..(n - 1) PROVE R[k] = f.completed - (n - 1) + k
    <3>1. PICK i : i = k + 1
      OBVIOUS
    <3>2. i \in (r + 1)..n /\ i \in 1..n /\ i - 1 = k
      BY <1>1, <1>3, <3>1
    <3>3. f.reports[i] = f.completed - n + i
      BY <3>2, <1>1
    <3>4. R[i - 1] = f.reports[i]
      BY <2>1, <3>2
    <3>5. f.completed - n + i = f.completed - (n - 1) + k
      <4>1. f.completed \in Nat /\ n \in Nat /\ k \in Nat
        BY <1>1
      <4>2. \A a, b, c \in Nat : a - b + (c + 1) = a - (b - 1) + c
        OBVIOUS
      <4> QED  BY <3>1, <4>1, <4>2
    <3> HIDE DEF R
    <3> QED  BY <3>2, <3>3, <3>4, <3>5
  <2> QED  BY <2>1, <2>2
<1>8. g = [ phase |-> f.phase, attempt |-> f.attempt, next |-> next, calls |-> calls,
            reports |-> R, completed |-> f.completed, results |-> f.results ]
  <2>1. g = [f EXCEPT !.reports = R, !.calls = calls, !.next = next]
    BY DEF Advanced
  <2> HIDE DEF g, R, calls, next
  <2> QED  BY <1>0, <2>1, FanFields
<1>9. /\ calls \subseteq 1..ItemsOf(f.phase) /\ next \in Nat /\ next - 1 <= ItemsOf(f.phase)
      /\ Cardinality(calls) + f.completed <= next - 1
      /\ Cardinality(calls) + (n - 1) <= Concurrency
  <2>1. CASE more
    <3>1. Cardinality(calls) <= Cardinality(f.calls) + 1 /\ Cardinality(calls) \in Nat
      <4>1. /\ IsFiniteSet(f.calls \union {f.next})
            /\ Cardinality(f.calls \union {f.next}) =
               IF f.next \in f.calls THEN Cardinality(f.calls) ELSE Cardinality(f.calls) + 1
        BY <1>5, FS_AddElement
      <4>2. calls = f.calls \union {f.next}
        BY <2>1
      <4> HIDE DEF calls
      <4> QED  BY <1>5, <4>1, <4>2
    <3>2. f.next \in 1..ItemsOf(f.phase)
      BY <1>1, <1>2, <1>5, <2>1
    <3>3. calls \subseteq 1..ItemsOf(f.phase)
      BY <2>1, <3>2, <1>2
    <3>4. next = f.next + 1
      BY <2>1
    <3> HIDE DEF calls, next
    <3>6. /\ Cardinality(calls) + f.completed <= f.next
          /\ Cardinality(calls) + (n - 1) <= Concurrency
      BY <1>1, <1>2, <1>5, <3>1
    <3>7. f.next + 1 \in Nat /\ f.next <= ItemsOf(f.phase)
      BY <1>2, <2>1
    <3>8. next \in Nat /\ next - 1 <= ItemsOf(f.phase)
      BY <3>4, <3>7, <1>2, <1>5
    <3>9. Cardinality(calls) + f.completed <= next - 1
      BY <3>1, <3>4, <3>6, <1>1, <1>2
    <3> QED  BY <3>3, <3>6, <3>8, <3>9
  <2>2. CASE ~more
    <3>1. calls = f.calls /\ next = f.next
      BY <2>2
    <3> HIDE DEF calls, next
    <3> QED  BY <1>1, <1>2, <1>5, <3>1
  <2> QED  BY <2>1, <2>2
<1>10. \/ next = f.next /\ calls = f.calls
       \/ next = f.next + 1 /\ calls = f.calls \union {f.next}
  OBVIOUS
<1> HIDE DEF g, R, calls, next, more
<1>11. IsFan(g)
  BY <1>8 DEF IsFan
<1>12. /\ g.phase = f.phase /\ g.next = next /\ g.calls = calls
       /\ g.reports = R /\ g.completed = f.completed /\ g.results = f.results
  BY <1>8
<1>13. /\ Len(R) <= f.completed
       /\ \A k \in 1..Len(R) : R[k] = f.completed - Len(R) + k
  <2>1. PICK m : m = n - 1
    OBVIOUS
  <2>2. Len(R) = m /\ \A k \in 1..m : R[k] = f.completed - m + k
    BY <1>7, <2>1
  <2>3. m <= f.completed
    BY <1>1, <2>1
  <2> QED  BY <2>2, <2>3
<1>14. FanOK(g)
  BY <1>1, <1>2, <1>7, <1>9, <1>11, <1>12, <1>13 DEF FanOK, n
<1>15. g.completed - Len(g.reports) = f.completed - n + 1
  BY <1>1, <1>7, <1>12
<1> QED  BY <1>4, <1>6, <1>10, <1>12, <1>14, <1>15 DEF g, n

\* What is left of an abandoned fan is one still.
LEMMA ForgottenOK ==
    ASSUME Reads, NEW f, FanOK(f), NEW g \in Forgotten(f)
    PROVE  FanOK(g) /\ g.phase = f.phase
<1> DEFINE n == Cardinality(f.calls)
<1>1. g = [f EXCEPT !.results = <<>>, !.calls = 1..n]
  BY DEF Forgotten
<1>2. g = [ phase |-> f.phase, attempt |-> f.attempt, next |-> f.next, calls |-> 1..n,
            reports |-> f.reports, completed |-> f.completed, results |-> <<>> ]
  BY <1>1, FanFields DEF FanOK
<1>3. n \in Nat /\ n <= ItemsOf(f.phase) /\ ItemsOf(f.phase) \in Nat
  <2>1. ItemsOf(f.phase) \in Nat /\ n \in Nat
    BY Items, Calls
  <2> QED  BY <2>1 DEF FanOK
<1>4. Cardinality(1..n) = n
  BY <1>3, FirstItems
<1>5. 1..n \subseteq 1..ItemsOf(f.phase)
  BY <1>3
<1> HIDE DEF n
<1>6. IsFan(g)
  BY <1>2 DEF IsFan
<1> QED  BY <1>2, <1>4, <1>5, <1>6 DEF FanOK, n

-----------------------------------------------------------------------------
(* Progress. *)

\* Rounding keeps the reports of a phase in their range and in their order.
LEMMA Progress ==
    ASSUME Reads, NEW ph \in {"extract", "classify"}, NEW c \in 1..ItemsOf(ph)
    PROVE  /\ ReportedProgress(ph, c) \in StartOf(ph)..(StartOf(ph) + 14)
           /\ \A d \in c..ItemsOf(ph) : ReportedProgress(ph, c) <= ReportedProgress(ph, d)
<1> DEFINE n == ItemsOf(ph)
<1>1. n \in Nat \ {0} /\ c \in 0..n
  BY Items
<1> HIDE DEF n
<1>2. \A x \in Nat \ {0} : \A y \in 0..x : (28 * y + x) \div (2 * x) \in 0..14
  OBVIOUS
<1>3. \A a, b \in Nat : \A x \in Nat \ {0} : a <= b => a \div x <= b \div x
  OBVIOUS
<1>4. (28 * c + n) \div (2 * n) \in 0..14
  BY <1>1, <1>2
<1>5. ASSUME NEW d \in c..n PROVE (28 * c + n) \div (2 * n) <= (28 * d + n) \div (2 * n)
  <2>1. 28 * c + n \in Nat /\ 28 * d + n \in Nat /\ 28 * c + n <= 28 * d + n /\ 2 * n \in Nat \ {0}
    BY <1>1
  <2> QED  BY <1>3, <2>1
<1>6. /\ StartOf(ph) \in Nat
      /\ \A d : ReportedProgress(ph, d) = StartOf(ph) + (28 * d + n) \div (2 * n)
  BY DEF StartOf, ReportedProgress, n
<1>7. ReportedProgress(ph, c) \in StartOf(ph)..(StartOf(ph) + 14)
  BY <1>4, <1>6
<1>8. ASSUME NEW d \in c..n PROVE ReportedProgress(ph, c) <= ReportedProgress(ph, d)
  <2>1. d \in 0..n
    BY <1>1
  <2>2. (28 * d + n) \div (2 * n) \in 0..14
    BY <1>1, <1>2, <2>1
  <2> QED  BY <1>4, <1>5, <1>6, <2>2
<1> QED  BY <1>7, <1>8 DEF n

-----------------------------------------------------------------------------
(* Steps. *)

LEMMA FanPrimed ==
    ASSUME UNCHANGED chunks, NEW g, FanOK(g), fan' = g
    PROVE  FanOK(fan)'
BY DEF FanOK, IsFan, ItemsOf

LEMMA LatePrimed ==
    ASSUME UNCHANGED chunks, NEW g, FanOK(g)
    PROVE  FanOK(g)'
BY DEF FanOK, IsFan, ItemsOf

\* A phase begins, for the first time or once more.
LEMMA Starting ==
    ASSUME Reads, NEW ph \in {"extract", "classify"}, NEW n \in 1..PhaseAttempts, StartPhase(ph, n),
           UNCHANGED chunks
    PROVE  CurrentOK' /\ RowOK' /\ phase' = ph /\ attempt' = n
<1>1. phase' = ph /\ attempt' = n /\ fan' = NewFan(ph, n) /\ Working'
      /\ row' = [status |-> "processing", progress |-> StartOf(ph)]
  BY DEF StartPhase, Processing, StartOf, Working
<1> DEFINE g == NewFan(ph, n)
<1>2. /\ FanOK(g) /\ g.phase = ph /\ g.reports = <<>> /\ g.completed = 0 /\ g.results = <<>>
      /\ g.calls = 1..(g.next - 1)
  BY NewFanOK
<1> HIDE DEF g
<1>3. fan' = g
  BY <1>1 DEF g
<1>4. FanOK(fan)'
  BY <1>2, <1>3, FanPrimed
<1>5. DOMAIN g.results = {}
  BY <1>2
<1>6. CurrentOK'
  BY <1>1, <1>2, <1>3, <1>4, <1>5 DEF CurrentOK
<1>7. \A c \in 1..ItemsOf(ph) : StartOf(ph) <= ReportedProgress(ph, c)
  <2>1. StartOf(ph) \in Nat
    BY DEF StartOf
  <2> QED  BY <2>1, Progress
<1>8. \A c \in (Written' + 1)..(ItemsOf(phase)') : row'.progress <= ReportedProgress(phase, c)'
  <2>1. Written' = 0
    BY <1>2, <1>3 DEF Written
  <2>2. ItemsOf(phase)' = ItemsOf(ph) /\ \A c : ReportedProgress(phase, c)' = ReportedProgress(ph, c)
    BY <1>1 DEF ItemsOf, ReportedProgress
  <2> QED  BY <1>1, <1>7, <2>1, <2>2
<1>9. RowOK'
  BY <1>1, <1>8 DEF RowOK, StartOf
<1> QED  BY <1>1, <1>6, <1>9

LEMMA Failing ==
    ASSUME Fail
    PROVE  CurrentOK' /\ RowOK' /\ phase' = "failed" /\ attempt' = attempt
BY DEF Fail, CurrentOK, RowOK, Working

\* What the steps of the fans leave as it is.
Results == <<pages, chunks, found, extracted, classes, reasons>>

LEMMA ReadsStay ==
    ASSUME Reads, UNCHANGED <<pages, chunks>>
    PROVE  Reads'
BY DEF Reads

LEMMA ClassesStay ==
    ASSUME ClassesOK, UNCHANGED <<pages, classes>>
    PROVE  ClassesOK'
<1>1. /\ \A d : Readable(d)' = Readable(d)
      /\ \A d, a : CitationSupported(d, a)' = CitationSupported(d, a)
  BY DEF Readable, CitationSupported, PagesOf
<1>2. \A d, a : Settled(d, a)' = Settled(d, a)
  BY <1>1 DEF Settled
<1> QED  BY <1>2 DEF ClassesOK

LEMMA ExtractedStays ==
    ASSUME Extracted, UNCHANGED <<chunks, found, extracted>>, reasons \subseteq reasons'
    PROVE  Extracted'
<1>1. Answered(extracted)'
  BY DEF Extracted, Answered
<1>2. Quarantined(chunks, extracted)' => Quarantined(chunks, extracted)
  BY DEF Quarantined
<1> QED  BY <1>1, <1>2 DEF Extracted

LEMMA FoundStays ==
    ASSUME FoundOK, UNCHANGED Results, phase' \in {phase, "failed"}
    PROVE  FoundOK'
<1>1. Extracted => Extracted'
  BY ExtractedStays DEF Results
<1> QED  BY <1>1 DEF FoundOK, Results

LEMMA OutcomeStays ==
    ASSUME OutcomeOK, UNCHANGED Results, UNCHANGED item, phase' = phase
    PROVE  OutcomeOK'
<1>1. ApprovalIsUnclouded' = ApprovalIsUnclouded
  <2>1. \A d : Readable(d)' = Readable(d)
    BY DEF Readable, PagesOf, Results
  <2>2. Quarantined(chunks, extracted)' = Quarantined(chunks, extracted)
    BY DEF Results
  <2> QED  BY <2>1, <2>2 DEF ApprovalIsUnclouded, Results
<1>2. DisagreementIsReviewed' = DisagreementIsReviewed
  BY DEF DisagreementIsReviewed, Results
<1>3. ReadyIsCited' = ReadyIsCited
  BY DEF ReadyIsCited, Results
<1> QED  BY <1>1, <1>2, <1>3 DEF OutcomeOK

LEMMA NoOutcome ==
    ASSUME phase' # "done"
    PROVE  OutcomeOK'
BY DEF OutcomeOK

\* An attempt is given up, whatever it leaves behind.
LEMMA Abandoning ==
    ASSUME ExtractionInv, Working, NEW leftovers, Abandon(leftovers),
           \A g \in leftovers : FanOK(g) /\ g.phase = phase
    PROVE  ExtractionInv'
<1>1. /\ phase \in {"extract", "classify"} /\ attempt \in 1..PhaseAttempts /\ Reads
      /\ UNCHANGED Results /\ late' = late \union leftovers
  BY DEF ExtractionInv, CurrentOK, Working, Abandon, Fail, Results
<1>2. /\ CurrentOK' /\ RowOK'
      /\ \/ phase' = phase /\ attempt' = attempt + 1 /\ attempt + 1 \in 1..PhaseAttempts
         \/ phase' = "failed" /\ attempt' = attempt
  <2>1. CASE attempt < PhaseAttempts
    <3>1. attempt + 1 \in 1..PhaseAttempts
      BY <1>1, <2>1, LimitsAssumption
    <3>2. StartPhase(phase, attempt + 1) /\ UNCHANGED chunks
      BY <2>1 DEF Abandon
    <3> QED  BY <1>1, <3>1, <3>2, Starting
  <2>2. CASE ~(attempt < PhaseAttempts)
    BY <2>2, Failing DEF Abandon
  <2> QED  BY <2>1, <2>2
<1>3. phase' \in DOMAIN Position /\ attempt' \in 0..PhaseAttempts /\ phase' # "read" /\ phase' # "done"
  BY <1>1, <1>2, LimitsAssumption DEF Position
<1>4. ASSUME NEW g \in late' PROVE LateOK(g)'
  <2>1. FanOK(g) /\ (phase = "extract" => g.phase = "extract")
    BY <1>1, <1>4 DEF ExtractionInv, LateOK
  <2>2. FanOK(g)'
    BY <1>1, <2>1, LatePrimed DEF Results
  <2> QED  BY <1>1, <1>2, <1>3, <2>1, <2>2 DEF LateOK
<1>5. Reads' /\ ClassesOK' /\ FoundOK' /\ OutcomeOK'
  BY <1>1, <1>2, <1>3, ReadsStay, ClassesStay, FoundStays, NoOutcome DEF ExtractionInv, Results
<1> QED  BY <1>2, <1>3, <1>4, <1>5 DEF ExtractionInv

LEMMA Starts ==
    StartOf("extract") = 40 /\ StartOf("classify") = 55
BY DEF StartOf

\* A fan that runs is one of a phase at work.
LEMMA AtWork ==
    ASSUME CurrentOK, fan.calls # {} \/ fan.reports # <<>>
    PROVE  Working /\ FanOK(fan) /\ fan.phase = phase /\ attempt \in 1..PhaseAttempts
BY DEF CurrentOK, NoFan

\* What an abandoned attempt leaves behind.
LEMMA LateStay ==
    ASSUME ExtractionInv, UNCHANGED <<phase, attempt, pages, chunks>>, late' \subseteq late
    PROVE  \A g \in late' : LateOK(g)'
<1> SUFFICES ASSUME NEW g \in late' PROVE LateOK(g)'
  OBVIOUS
<1>1. LateOK(g)
  BY DEF ExtractionInv
<1>2. FanOK(g)'
  BY <1>1, LatePrimed DEF LateOK
<1> QED  BY <1>1, <1>2 DEF LateOK

LEMMA ReadKeeps ==
    ASSUME ExtractionInv, Read
    PROVE  ExtractionInv'
<1>1. /\ phase = "read" /\ phase' = "read" /\ late' = {} /\ classes' = <<>> /\ found' = <<>>
      /\ attempt' = attempt /\ fan' = NoFan /\ ~Working'
      /\ row' = [status |-> "processing", progress |-> 25]
  BY DEF Read, ExtractionInv, CurrentOK, Working, Processing
<1>2. Reads'
  BY DEF Read, Reads
<1>3. CurrentOK' /\ RowOK'
  BY <1>1 DEF CurrentOK, RowOK, Working
<1>4. ClassesOK' /\ FoundOK' /\ OutcomeOK'
  BY <1>1 DEF ClassesOK, FoundOK, OutcomeOK
<1> QED  BY <1>1, <1>2, <1>3, <1>4 DEF ExtractionInv

LEMMA CannotReadKeeps ==
    ASSUME ExtractionInv, CannotRead
    PROVE  ExtractionInv'
<1>1. /\ phase = "read" /\ phase' = "failed" /\ late' = {} /\ classes' = <<>> /\ found' = <<>>
      /\ attempt' = attempt /\ CurrentOK' /\ RowOK'
  BY Failing DEF CannotRead, Fail, ExtractionInv
<1>2. Reads'
  BY ReadsStay DEF CannotRead, ExtractionInv
<1>3. ClassesOK' /\ FoundOK' /\ OutcomeOK'
  BY <1>1 DEF ClassesOK, FoundOK, OutcomeOK
<1> QED  BY <1>1, <1>2, <1>3 DEF ExtractionInv, Position

LEMMA ExtractKeeps ==
    ASSUME ExtractionInv, Extract
    PROVE  ExtractionInv'
<1>1. /\ phase = "read" /\ late' = {} /\ classes' = <<>> /\ found' = <<>>
      /\ UNCHANGED <<pages, chunks>> /\ StartPhase("extract", 1) /\ Reads
  BY DEF Extract, ExtractionInv
<1>2. CurrentOK' /\ RowOK' /\ phase' = "extract" /\ attempt' = 1 /\ 1 \in 1..PhaseAttempts
  <2>1. 1 \in 1..PhaseAttempts
    BY LimitsAssumption
  <2> QED  BY <1>1, <2>1, Starting
<1>3. Reads'
  BY <1>1, ReadsStay
<1>4. ClassesOK' /\ FoundOK' /\ OutcomeOK'
  BY <1>1, <1>2 DEF ClassesOK, FoundOK, OutcomeOK
<1> QED  BY <1>1, <1>2, <1>3, <1>4, LimitsAssumption DEF ExtractionInv, Position

LEMMA CallReturnsKeeps ==
    ASSUME ExtractionInv, NEW i, CallReturns(i)
    PROVE  ExtractionInv'
<1>1. /\ i \in fan.calls /\ UNCHANGED Results
      /\ UNCHANGED <<phase, attempt, row, pages, chunks, late, item>>
  BY DEF CallReturns, Results
<1>2. PICK a \in Answers(phase, i) :
        fan' = [Returned(fan, i) EXCEPT !.results = Put(@, i, a)]
  BY DEF CallReturns
<1>3. /\ Working /\ FanOK(fan) /\ fan.phase = phase /\ attempt \in 1..PhaseAttempts
      /\ Reads /\ CurrentOK
  BY <1>1, AtWork DEF ExtractionInv
<1> DEFINE f == Returned(fan, i)
           r == Put(fan.results, i, a)
           g == [f EXCEPT !.results = r]
<1>4. /\ FanOK(f) /\ f.phase = fan.phase /\ f.next = fan.next /\ f.calls = fan.calls \ {i}
      /\ f.results = fan.results /\ f.completed - Len(f.reports) = fan.completed - Len(fan.reports)
  BY <1>1, <1>3, ReturnedOK
<1>5. fan' = g
  BY <1>2, <1>4
<1> HIDE DEF f, r
<1>6. g = [ phase |-> f.phase, attempt |-> f.attempt, next |-> f.next, calls |-> f.calls,
            reports |-> f.reports, completed |-> f.completed, results |-> r ]
  <2>1. IsFan(f)
    BY <1>4 DEF FanOK
  <2> QED  BY <2>1, FanFields
<1> HIDE DEF g
<1>7. FanOK(g)
  <2>1. IsFan(g)
    BY <1>6 DEF IsFan
  <2> QED  BY <1>4, <1>6, <2>1 DEF FanOK
<1>8. FanOK(fan)'
  BY <1>1, <1>5, <1>7, FanPrimed
<1>9. /\ DOMAIN r = DOMAIN fan.results \union {i}
      /\ \A k \in DOMAIN r : r[k] = IF k = i THEN a ELSE fan.results[k]
  BY DEF r, Put
<1>10. /\ DOMAIN fan.results \union fan.calls = 1..(fan.next - 1)
       /\ \A k \in DOMAIN fan.results : fan.results[k] \in Answers(phase, k)
  BY <1>3 DEF CurrentOK
<1>11. DOMAIN r \union (fan.calls \ {i}) = 1..(fan.next - 1)
  BY <1>1, <1>9, <1>10
<1>12. \A k \in DOMAIN r : r[k] \in Answers(phase, k)
  BY <1>2, <1>9, <1>10
<1>13. CurrentOK'
  <2>1. \A k : Answers(phase, k)' = Answers(phase, k)
    BY <1>1 DEF Answers, Readable, PagesOf
  <2>2. /\ fan'.phase = phase /\ fan'.results = r /\ fan'.calls = fan.calls \ {i}
        /\ fan'.next = fan.next
    BY <1>3, <1>4, <1>5, <1>6
  <2>3. \A k \in DOMAIN fan'.results : fan'.results[k] \in Answers(phase, k)'
    BY <1>12, <2>1, <2>2
  <2>4. Working'
    BY <1>1, <1>3 DEF Working
  <2> QED  BY <1>1, <1>3, <1>8, <1>11, <2>1, <2>2, <2>3, <2>4 DEF CurrentOK
<1>14. RowOK'
  <2>1. Written' = Written
    BY <1>4, <1>5, <1>6 DEF Written
  <2>2. ItemsOf(phase)' = ItemsOf(phase) /\ \A c : ReportedProgress(phase, c)' = ReportedProgress(phase, c)
    BY <1>1 DEF ItemsOf, ReportedProgress
  <2>3. RowOK
    BY DEF ExtractionInv
  <2> QED  BY <1>1, <2>1, <2>2, <2>3 DEF RowOK, Working
<1>15. Reads' /\ ClassesOK' /\ FoundOK' /\ OutcomeOK'
  BY <1>1, ReadsStay, ClassesStay, FoundStays, OutcomeStays DEF ExtractionInv, Results
<1>16. \A k \in late' : LateOK(k)'
  BY <1>1, LateStay
<1> QED  BY <1>1, <1>13, <1>14, <1>15, <1>16 DEF ExtractionInv, Results

LEMMA ReportProgressKeeps ==
    ASSUME ExtractionInv, ReportProgress
    PROVE  ExtractionInv'
<1>1. UNCHANGED <<phase, attempt, pages, chunks, late, item>> /\ UNCHANGED Results
  BY DEF ReportProgress, Results
<1>2. PICK r \in FirstReport(fan) :
        /\ row' = [status |-> "processing", progress |-> ReportedProgress(phase, fan.reports[r])]
        /\ fan' = Advanced(fan, r)
  BY DEF ReportProgress, Processing
<1>3. /\ Working /\ FanOK(fan) /\ fan.phase = phase /\ attempt \in 1..PhaseAttempts
      /\ Reads /\ CurrentOK
  <2>1. fan.reports # <<>>
    BY <1>2 DEF FirstReport
  <2> QED  BY <2>1, AtWork DEF ExtractionInv
<1> DEFINE g == Advanced(fan, r)
           c == fan.completed - Len(fan.reports) + 1
<1>4. /\ c \in 1..ItemsOf(phase) /\ fan.reports[r] = c
      /\ FanOK(g) /\ g.phase = phase /\ g.results = fan.results
      /\ g.completed - Len(g.reports) = c
      /\ \/ g.next = fan.next /\ g.calls = fan.calls
         \/ g.next = fan.next + 1 /\ g.calls = fan.calls \union {fan.next}
  BY <1>2, <1>3, AdvancedOK
<1>5. fan' = g
  BY <1>2
<1>6. fan.next \in Nat /\ fan.next >= 1
  <2>1. Cardinality(fan.calls) \in Nat
    BY <1>3, Calls
  <2> QED  BY <1>3, <2>1 DEF FanOK
<1> HIDE DEF g, c
<1>7. FanOK(fan)'
  BY <1>1, <1>4, <1>5, FanPrimed
<1>8. DOMAIN g.results \union g.calls = 1..(g.next - 1)
  <2>1. DOMAIN fan.results \union fan.calls = 1..(fan.next - 1)
    BY <1>3 DEF CurrentOK
  <2>2. 1..(fan.next - 1) \union {fan.next} = 1..(fan.next + 1 - 1)
    BY <1>6
  <2>3. CASE g.next = fan.next + 1 /\ g.calls = fan.calls \union {fan.next}
    <3>1. 1..(g.next - 1) = 1..(fan.next + 1 - 1)
      BY <2>3, <1>6
    <3> QED  BY <1>4, <2>1, <2>2, <2>3, <3>1
  <2> QED  BY <1>4, <2>1, <2>3
<1>9. CurrentOK'
  <2>1. \A k : Answers(phase, k)' = Answers(phase, k)
    BY <1>1 DEF Answers, Readable, PagesOf
  <2>2. \A k \in DOMAIN fan'.results : fan'.results[k] \in Answers(phase, k)'
    BY <1>3, <1>4, <1>5, <2>1 DEF CurrentOK
  <2> QED  BY <1>1, <1>3, <1>4, <1>5, <1>7, <1>8, <2>2 DEF CurrentOK, Working
<1>10. RowOK'
  <2>1. Written' = c
    BY <1>4, <1>5 DEF Written
  <2>2. ItemsOf(phase)' = ItemsOf(phase) /\ \A d : ReportedProgress(phase, d)' = ReportedProgress(phase, d)
    BY <1>1 DEF ItemsOf, ReportedProgress
  <2>3. /\ ReportedProgress(phase, c) \in StartOf(phase)..(StartOf(phase) + 14)
        /\ \A d \in c..ItemsOf(phase) : ReportedProgress(phase, c) <= ReportedProgress(phase, d)
    BY <1>3, <1>4, Progress DEF Working
  <2>4. row' = [status |-> "processing", progress |-> ReportedProgress(phase, c)]
    BY <1>2, <1>4
  <2>5. \A d \in (c + 1)..ItemsOf(phase) : d \in c..ItemsOf(phase)
    BY <1>4
  <2>6. \/ phase = "extract" /\ StartOf(phase) = 40
        \/ phase = "classify" /\ StartOf(phase) = 55
    <3>1. phase = "extract" \/ phase = "classify"
      BY <1>3 DEF Working
    <3> QED  BY <3>1, Starts, Zenon
  <2> QED  BY <1>1, <2>1, <2>2, <2>3, <2>4, <2>5, <2>6 DEF RowOK
<1>11. Reads' /\ ClassesOK' /\ FoundOK' /\ OutcomeOK'
  BY <1>1, ReadsStay, ClassesStay, FoundStays, OutcomeStays DEF ExtractionInv, Results
<1>12. \A k \in late' : LateOK(k)'
  BY <1>1, LateStay
<1> QED  BY <1>1, <1>9, <1>10, <1>11, <1>12 DEF ExtractionInv, Results

LEMMA CallFailsKeeps ==
    ASSUME ExtractionInv, NEW i, CallFails(i)
    PROVE  ExtractionInv'
<1> DEFINE f == [fan EXCEPT !.calls = @ \ {i}]
<1>1. i \in fan.calls /\ Abandon(Forgotten(f))
  BY DEF CallFails
<1>2. Working /\ FanOK(fan) /\ fan.phase = phase /\ Reads
  BY <1>1, AtWork DEF ExtractionInv
<1>3. FanOK(f) /\ f.phase = phase
  BY <1>1, <1>2, FewerCalls
<1> HIDE DEF f
<1>4. \A g \in Forgotten(f) : FanOK(g) /\ g.phase = phase
  BY <1>2, <1>3, ForgottenOK
<1> QED  BY <1>1, <1>2, <1>4, Abandoning

LEMMA TimesOutKeeps ==
    ASSUME ExtractionInv, TimesOut
    PROVE  ExtractionInv'
<1>1. Abandon(Forgotten(fan)) /\ Working /\ FanOK(fan) /\ fan.phase = phase /\ Reads
  BY AtWork DEF ExtractionInv, TimesOut, Running
<1>2. \A g \in Forgotten(fan) : FanOK(g) /\ g.phase = phase
  BY <1>1, ForgottenOK
<1> QED  BY <1>1, <1>2, Abandoning

LEMMA ReportFailsKeeps ==
    ASSUME ExtractionInv, ReportFails
    PROVE  ExtractionInv'
<1>1. Abandon({}) /\ Working
  BY AtWork DEF ExtractionInv, ReportFails
<1> QED  BY <1>1, Abandoning

\* A late fan is replaced by what is left of it.
LEMMA LateReplaced ==
    ASSUME ExtractionInv, UNCHANGED <<phase, attempt, pages, chunks>>, NEW f \in late, NEW g,
           FanOK(g), g.phase = f.phase, late' = (late \ {f}) \union Forgotten(g)
    PROVE  \A k \in late' : LateOK(k)'
<1> SUFFICES ASSUME NEW k \in late' PROVE LateOK(k)'
  OBVIOUS
<1>1. Reads /\ LateOK(f) /\ \A x \in late : LateOK(x)
  BY DEF ExtractionInv
<1>2. LateOK(k)
  <2>1. CASE k \in late
    BY <1>1, <2>1
  <2>2. CASE k \in Forgotten(g)
    <3>1. FanOK(k) /\ k.phase = f.phase
      BY <1>1, <2>2, ForgottenOK
    <3> QED  BY <1>1, <3>1 DEF LateOK
  <2> QED  BY <2>1, <2>2
<1>3. FanOK(k)'
  BY <1>2, LatePrimed DEF LateOK
<1> QED  BY <1>2, <1>3 DEF LateOK

\* The row is the only other thing a late call can change.
LEMMA LateKeeps ==
    ASSUME ExtractionInv, UNCHANGED <<phase, attempt, pages, chunks, fan>>,
           UNCHANGED <<found, extracted, classes, reasons, item>>
    PROVE  /\ phase' \in DOMAIN Position /\ attempt' \in 0..PhaseAttempts
           /\ phase' = "read" => classes' = <<>> /\ found' = <<>>
           /\ Reads' /\ CurrentOK' /\ ClassesOK' /\ FoundOK' /\ OutcomeOK'
           /\ Written' = Written /\ Working' = Working
           /\ ItemsOf(phase)' = ItemsOf(phase)
           /\ \A d : ReportedProgress(phase, d)' = ReportedProgress(phase, d)
<1>1. Reads' /\ ClassesOK' /\ FoundOK' /\ OutcomeOK'
  BY ReadsStay, ClassesStay, FoundStays, OutcomeStays DEF ExtractionInv, Results
<1>2. CurrentOK'
  <2>1. \A k : Answers(phase, k)' = Answers(phase, k)
    BY DEF Answers, Readable, PagesOf
  <2>2. CurrentOK /\ UNCHANGED <<phase, attempt, chunks, fan>>
    BY DEF ExtractionInv
  <2>3. CASE Working
    <3>1. FanOK(fan)'
      BY <2>2, <2>3, FanPrimed DEF CurrentOK
    <3> QED  BY <2>1, <2>2, <2>3, <3>1 DEF CurrentOK, Working
  <2>4. CASE ~Working
    BY <2>2, <2>4 DEF CurrentOK, Working
  <2> QED  BY <2>3, <2>4
<1>3. /\ Written' = Written /\ Working' = Working
      /\ ItemsOf(phase)' = ItemsOf(phase)
  BY DEF Written, Working, ItemsOf
<1>4. \A d : ReportedProgress(phase, d)' = ReportedProgress(phase, d)
  BY DEF ReportedProgress, ItemsOf
<1>5. /\ phase \in DOMAIN Position /\ attempt \in 0..PhaseAttempts
      /\ phase = "read" => classes = <<>> /\ found = <<>>
  BY DEF ExtractionInv
<1>6. /\ phase' \in DOMAIN Position /\ attempt' \in 0..PhaseAttempts
      /\ phase' = "read" => classes' = <<>> /\ found' = <<>>
  BY <1>5
<1> QED  BY <1>1, <1>2, <1>3, <1>4, <1>6

LEMMA LateCallKeeps ==
    ASSUME ExtractionInv, NEW f \in late, LateCall(f)
    PROVE  ExtractionInv'
<1>1. UNCHANGED <<phase, attempt, row, pages, chunks, fan, found, extracted, classes, reasons, item>>
  BY DEF LateCall
<1>2. Reads /\ FanOK(f) /\ phase # "read" /\ RowOK
  BY DEF ExtractionInv, LateOK
<1>3. PICK i \in f.calls :
        \/ late' = (late \ {f}) \union Forgotten(Returned(f, i))
        \/ late' = (late \ {f}) \union Forgotten([f EXCEPT !.calls = @ \ {i}])
  BY DEF LateCall
<1>4. \A k \in late' : LateOK(k)'
  <2>1. FanOK(Returned(f, i)) /\ Returned(f, i).phase = f.phase
    BY <1>2, ReturnedOK
  <2>2. FanOK([f EXCEPT !.calls = @ \ {i}]) /\ [f EXCEPT !.calls = @ \ {i}].phase = f.phase
    BY <1>2, FewerCalls
  <2>3. CASE late' = (late \ {f}) \union Forgotten(Returned(f, i))
    BY <1>1, <2>1, <2>3, LateReplaced
  <2>4. CASE late' = (late \ {f}) \union Forgotten([f EXCEPT !.calls = @ \ {i}])
    BY <1>1, <2>2, <2>4, LateReplaced
  <2> QED  BY <1>3, <2>3, <2>4
<1>5. RowOK'
  BY <1>1, <1>2, LateKeeps DEF RowOK
<1> QED  BY <1>1, <1>2, <1>4, <1>5, LateKeeps DEF ExtractionInv

LEMMA LateReportKeeps ==
    ASSUME ExtractionInv, NEW f \in late, LateReport(f)
    PROVE  ExtractionInv'
<1>1. UNCHANGED <<phase, attempt, pages, chunks, fan, found, extracted, classes, reasons, item>>
  BY DEF LateReport
<1>2. Reads /\ LateOK(f) /\ FanOK(f) /\ phase # "read" /\ RowOK /\ phase \in DOMAIN Position
  BY DEF ExtractionInv, LateOK
<1>3. PICK r \in FirstReport(f) :
        /\ row' = [status |-> "processing", progress |-> ReportedProgress(f.phase, f.reports[r])]
        /\ late' = (late \ {f}) \union Forgotten(Advanced(f, r))
  BY DEF LateReport, Processing
<1>4. /\ f.reports[r] \in 1..ItemsOf(f.phase) /\ f.phase \in {"extract", "classify"}
      /\ FanOK(Advanced(f, r)) /\ Advanced(f, r).phase = f.phase
  BY <1>2, AdvancedOK DEF FanOK
<1>5. \A k \in late' : LateOK(k)'
  BY <1>1, <1>3, <1>4, LateReplaced
<1>6. row'.progress \in StartOf(f.phase)..(StartOf(f.phase) + 14)
  BY <1>2, <1>3, <1>4, Progress
<1>7. \/ f.phase = "extract" /\ StartOf(f.phase) = 40
      \/ f.phase = "classify" /\ StartOf(f.phase) = 55
  <2>1. f.phase = "extract" \/ f.phase = "classify"
    BY <1>4
  <2> QED  BY <2>1, Starts, Zenon
<1>8. ASSUME Working, attempt = 1, NEW c \in (Written + 1)..ItemsOf(phase)
      PROVE  row'.progress <= ReportedProgress(phase, c)
  <2>1. phase = "classify" /\ f.phase = "extract"
    BY <1>2, <1>4, <1>8 DEF LateOK, Working
  <2>2. Written \in Nat /\ c \in 1..ItemsOf(phase)
    <3>1. FanOK(fan) /\ fan.completed \in Nat /\ Len(fan.reports) \in Nat
          /\ Len(fan.reports) <= fan.completed
      BY <1>8 DEF ExtractionInv, CurrentOK, FanOK
    <3>2. Written \in Nat
      BY <3>1 DEF Written
    <3> QED  BY <3>2, <1>2, Items
  <2>3. ReportedProgress(phase, c) \in 55..69
    <3>1. ReportedProgress("classify", c) \in StartOf("classify")..(StartOf("classify") + 14)
      BY <1>2, <2>1, <2>2, Progress
    <3> QED  BY <2>1, <3>1 DEF StartOf
  <2> QED  BY <1>6, <1>7, <2>1, <2>3
<1>9. RowOK'
  <2>1. /\ row'.status = "processing" /\ row'.progress \in 40..69
        /\ f.phase = "extract" => row'.progress <= 54
    BY <1>3, <1>6, <1>7
  <2>2. phase = "extract" => f.phase = "extract"
    BY <1>2 DEF LateOK
  <2>3. /\ Written' = Written /\ Working' = Working /\ ItemsOf(phase)' = ItemsOf(phase)
        /\ \A d : ReportedProgress(phase, d)' = ReportedProgress(phase, d)
    BY <1>1, LateKeeps
  <2> QED  BY <1>1, <1>2, <1>8, <2>1, <2>2, <2>3 DEF RowOK
<1> QED  BY <1>1, <1>2, <1>5, <1>9, LateKeeps DEF ExtractionInv

\* A fan that is done has an answer about every item.
LEMMA AllAnswered ==
    ASSUME Reads, CurrentOK, Working, FanDone(fan)
    PROVE  /\ DOMAIN fan.results = 1..ItemsOf(phase)
           /\ \A i \in 1..ItemsOf(phase) : fan.results[i] \in Answers(phase, i)
<1>1. /\ FanOK(fan) /\ fan.phase = phase /\ fan.calls = {}
      /\ DOMAIN fan.results \union fan.calls = 1..(fan.next - 1)
      /\ \A i \in DOMAIN fan.results : fan.results[i] \in Answers(phase, i)
      /\ fan.next > ItemsOf(phase)
  BY DEF CurrentOK, FanDone, Running
<1>2. fan.next - 1 = ItemsOf(phase)
  <2>1. fan.next \in Nat /\ fan.next - 1 <= ItemsOf(phase)
    BY <1>1 DEF FanOK
  <2> QED  BY <1>1, <2>1, Items
<1> QED  BY <1>1, <1>2

LEMMA EndExtractKeeps ==
    ASSUME ExtractionInv, EndExtract
    PROVE  ExtractionInv'
<1>1. /\ phase = "extract" /\ FanDone(fan) /\ StartPhase("classify", 1)
      /\ UNCHANGED <<pages, chunks, late, classes>>
      /\ Reads /\ CurrentOK /\ Working
  BY DEF EndExtract, ExtractionInv, Working
<1>2. /\ extracted' = fan.results /\ found' = MergeFacts(chunks, fan.results)
      /\ reasons' = Reason(Quarantined(chunks, fan.results), "quarantined")
  BY DEF EndExtract
<1>3. CurrentOK' /\ RowOK' /\ phase' = "classify" /\ attempt' = 1 /\ 1 \in 1..PhaseAttempts
  <2>1. 1 \in 1..PhaseAttempts
    BY LimitsAssumption
  <2> QED  BY <1>1, <2>1, Starting
<1>4. Answered(fan.results)
  <2> SUFFICES ASSUME NEW i \in DOMAIN chunks
               PROVE  /\ IsList(fan.results[i])
                      /\ \A j \in DOMAIN fan.results[i] : fan.results[i][j].confidence \in Nat
    BY DEF Answered
  <2>1. DOMAIN chunks = 1..ItemsOf(phase)
    BY <1>1, ChunksListed, ListItems DEF ItemsOf
  <2>2. fan.results[i] \in Extractions(chunks[i])
    BY <1>1, <2>1, AllAnswered DEF Answers
  <2>3. pages \in Readings /\ chunks = Chunks(pages)
    <3>1. chunks # <<>>
      OBVIOUS
    <3> QED  BY <1>1, <3>1 DEF Reads
  <2>4. chunks[i] \in ToSet(chunks)
    BY DEF ToSet
  <2> QED  BY <2>2, <2>3, <2>4, AnswersAssumption
<1>5. Extracted'
  <2>1. Answered(extracted)'
    BY <1>1, <1>2, <1>4 DEF Answered
  <2>2. found' = MergeFacts(chunks', extracted')
    BY <1>1, <1>2
  <2>3. Quarantined(chunks', extracted') => "quarantined" \in reasons'
    BY <1>1, <1>2 DEF Reason
  <2> QED  BY <2>1, <2>2, <2>3 DEF Extracted
<1>6. Reads' /\ ClassesOK' /\ OutcomeOK'
  BY <1>1, <1>3, ReadsStay, ClassesStay, NoOutcome DEF ExtractionInv
<1>7. FoundOK'
  BY <1>3, <1>5 DEF FoundOK
<1>8. ASSUME NEW g \in late' PROVE LateOK(g)'
  <2>1. LateOK(g)
    BY <1>1, <1>8 DEF ExtractionInv
  <2>2. FanOK(g)'
    BY <1>1, <2>1, LatePrimed DEF LateOK
  <2> QED  BY <1>1, <1>3, <2>1, <2>2 DEF LateOK
<1> QED  BY <1>3, <1>5, <1>6, <1>7, <1>8, LimitsAssumption DEF ExtractionInv, Position

LEMMA EndClassifyKeeps ==
    ASSUME ExtractionInv, EndClassify
    PROVE  ExtractionInv'
<1>1. /\ phase = "classify" /\ FanDone(fan) /\ phase' = "evaluate" /\ fan' = NoFan
      /\ row' = [status |-> "processing", progress |-> 70]
      /\ UNCHANGED <<attempt, pages, chunks, late, found, extracted>>
      /\ Reads /\ CurrentOK /\ Working
  BY DEF EndClassify, ExtractionInv, Working, Processing
<1> DEFINE settled == [i \in DOMAIN Documents |-> Classification(Documents[i], fan.results[i])]
           Place(d) == CHOOSE i \in DOMAIN Documents : Documents[i] = d
<1>2. /\ classes' = [d \in ToSet(Documents) |-> settled[Place(d)]]
      /\ reasons' = reasons \union Reason(Unclassified \in ToSet(settled), "unclassified")
  BY DEF EndClassify
<1>3. ASSUME NEW d \in ToSet(Documents)
      PROVE  /\ Place(d) \in DOMAIN Documents
             /\ Settled(d, settled[Place(d)]) \/ settled[Place(d)] = Unclassified
             /\ settled[Place(d)] \in ToSet(settled)
  <2>1. \E i \in DOMAIN Documents : Documents[i] = d
    BY DEF ToSet
  <2>2. Place(d) \in DOMAIN Documents /\ Documents[Place(d)] = d
    BY <2>1
  <2> HIDE DEF Place
  <2>3. settled[Place(d)] = Classification(d, fan.results[Place(d)])
    BY <2>2
  <2>4. \A a : Settled(d, Classification(d, a)) \/ Classification(d, a) = Unclassified
    BY DEF Classification, Settled
  <2>5. settled[Place(d)] \in ToSet(settled)
    BY <2>2 DEF ToSet
  <2> QED  BY <2>2, <2>3, <2>4, <2>5
<1> HIDE DEF settled, Place
<1>4. ClassesOK'
  <2>1. /\ DOMAIN classes' = ToSet(Documents)
        /\ \A d \in ToSet(Documents) : classes'[d] = settled[Place(d)]
    BY <1>2
  <2>2. \A d, a : Settled(d, a)' = Settled(d, a)
    <3>1. /\ \A d : Readable(d)' = Readable(d)
          /\ \A d, a : CitationSupported(d, a)' = CitationSupported(d, a)
      BY <1>1 DEF Readable, CitationSupported, PagesOf
    <3> QED  BY <3>1 DEF Settled
  <2>3. \A d \in DOMAIN classes' : Settled(d, classes'[d]) \/ classes'[d] = Unclassified
    BY <1>3, <2>1
  <2>4. \A d \in DOMAIN classes' : Settled(d, classes[d])' \/ classes'[d] = Unclassified
    BY <1>1, <2>3 DEF Settled, Readable, CitationSupported, PagesOf
  <2> QED  BY <2>4 DEF ClassesOK
<1>5. FoundOK'
  <2>1. Extracted'
    <3>1. Extracted
      BY <1>1 DEF ExtractionInv, FoundOK
    <3> QED  BY <1>1, <1>2, <3>1, ExtractedStays
  <2>2. ASSUME NEW d \in DOMAIN classes', classes'[d] = Unclassified
        PROVE  "unclassified" \in reasons'
    <3>1. d \in ToSet(Documents) /\ settled[Place(d)] = Unclassified
      BY <1>2, <2>2
    <3>2. Unclassified \in ToSet(settled)
      BY <1>3, <3>1
    <3> QED  BY <1>2, <3>2 DEF Reason
  <2> QED  BY <2>1, <2>2 DEF FoundOK
<1>6. CurrentOK' /\ RowOK' /\ OutcomeOK'
  BY <1>1, NoOutcome DEF CurrentOK, RowOK, Working
<1>7. Reads'
  BY <1>1, ReadsStay
<1>8. ASSUME NEW g \in late' PROVE LateOK(g)'
  <2>1. LateOK(g)
    BY <1>1, <1>8 DEF ExtractionInv
  <2>2. FanOK(g)'
    BY <1>1, <2>1, LatePrimed DEF LateOK
  <2> QED  BY <1>1, <2>1, <2>2 DEF LateOK
<1> QED  BY <1>1, <1>4, <1>5, <1>6, <1>7, <1>8 DEF ExtractionInv, Position

\* Two candidates that differ cannot both agree with the selected one.
LEMMA ConflictFound ==
    ASSUME NEW facts, NEW p \in ToSet(CandidatePaths) \intersect DOMAIN facts,
           NEW q \in ToSet(CandidatePaths) \intersect DOMAIN facts,
           NormalForm[facts[p].value] # NormalForm[facts[q].value]
    PROVE  ReconcileConflict(facts)
<1>1. PICK i \in DOMAIN CandidatePaths : CandidatePaths[i] = p
  BY DEF ToSet
<1>2. PICK j \in DOMAIN CandidatePaths : CandidatePaths[j] = q
  BY DEF ToSet
<1> QED  BY <1>1, <1>2 DEF ReconcileConflict

LEMMA EvaluateCaseKeeps ==
    ASSUME ExtractionInv, EvaluateCase
    PROVE  ExtractionInv'
<1>1. /\ phase = "evaluate" /\ phase' = "done"
      /\ UNCHANGED <<attempt, pages, chunks, fan, late, found, extracted, classes>>
      /\ Reads /\ CurrentOK /\ fan = NoFan /\ Extracted /\ ClassesOK
      /\ (\E d \in DOMAIN classes : classes[d] = Unclassified) => "unclassified" \in reasons
  BY DEF EvaluateCase, ExtractionInv, CurrentOK, Working, FoundOK
<1> DEFINE context == EvaluationContext(found)
           missing == EvaluateRequiredDocuments(context, TypesOf(classes))
           findings == missing \union EvaluateRules(context)
           all(retrieval) == reasons
             \union Reason(ReconcileConflict(found), "conflict")
             \union Reason(retrieval = "abstained", "abstained")
             \union Reason(LowConfidencePaths(found) # {}, "low_confidence")
             \union Reason(Material(findings) # {}, "material_finding")
           decision(retrieval) == MapDecision(missing # {}, findings = {} /\ all(retrieval) = {})
           documents == [d \in DOMAIN classes |->
                           IF classes[d] = Unclassified THEN "needs_review" ELSE "ready"]
<1>2. PICK retrieval \in Retrievals :
        /\ reasons' = all(retrieval)
        /\ item' = [ status |-> "needs_review",
                     recommendation |-> IF decision(retrieval) = "manual_review"
                                        THEN "request_information" ELSE decision(retrieval),
                     documents |-> documents,
                     findings |-> {[rule |-> f.id, evidence |-> FindingEvidence(f, found)] :
                                     f \in findings} ]
        /\ row' = [ status |-> IF all(retrieval) # {} \/ findings # {} THEN "needs_review"
                               ELSE "completed",
                    progress |-> 100 ]
  BY DEF EvaluateCase
<1>3. /\ reasons \subseteq all(retrieval)
      /\ ReconcileConflict(found) => "conflict" \in all(retrieval)
      /\ LowConfidencePaths(found) # {} => "low_confidence" \in all(retrieval)
  BY DEF Reason
<1>4. item'.recommendation = "approve" => missing = {} /\ all(retrieval) = {}
  <2> HIDE DEF missing, findings, all, documents
  <2>1. decision(retrieval) = "approve" => missing = {} /\ findings = {} /\ all(retrieval) = {}
    BY DEF MapDecision
  <2> HIDE DEF decision
  <2> QED  BY <1>2, <2>1
<1>5. item'.documents = documents
  BY <1>2
<1>6. row'.progress = 100 /\ row'.status \in {"needs_review", "completed"}
  BY <1>2
<1> HIDE DEF all, decision, findings, documents
<1>7. ASSUME NEW d \in DOMAIN classes, documents[d] = "ready"
      PROVE  classes[d] # Unclassified /\ Settled(d, classes[d])
  BY <1>1, <1>7 DEF documents, ClassesOK
<1>8. /\ \A d : Readable(d)' = Readable(d)
      /\ \A d, a : CitationSupported(d, a)' = CitationSupported(d, a)
  BY <1>1 DEF Readable, CitationSupported, PagesOf
<1>9. ReadyIsCited'
  <2> SUFFICES ASSUME NEW d \in DOMAIN classes, documents[d] = "ready"
               PROVE  /\ classes[d].document = d /\ classes[d].confidence >= ReviewBelow
                      /\ \E i \in DOMAIN pages :
                           /\ pages[i].document = d /\ pages[i].page = classes[d].page
                           /\ EvidenceContainsQuote(pages[i].words, classes[d].quote)
    BY <1>1, <1>5 DEF ReadyIsCited
  <2>1. Settled(d, classes[d])
    BY <1>7
  <2> QED  BY <2>1 DEF Settled, CitationSupported, PagesOf
<1>10. DisagreementIsReviewed'
  <2> SUFFICES ASSUME NEW p \in ToSet(CandidatePaths) \intersect DOMAIN found,
                      NEW q \in ToSet(CandidatePaths) \intersect DOMAIN found,
                      NormalForm[found[p].value] # NormalForm[found[q].value]
               PROVE  "conflict" \in reasons' /\ item'.recommendation # "approve"
    BY <1>1 DEF DisagreementIsReviewed
  <2>1. ReconcileConflict(found)
    BY ConflictFound
  <2> QED  BY <1>2, <1>3, <1>4, <2>1
<1>11. ApprovalIsUnclouded'
  <2> SUFFICES ASSUME item'.recommendation = "approve"
               PROVE  /\ ~Quarantined(chunks, extracted)
                      /\ \A d \in DOMAIN classes : documents[d] = "ready" /\ Readable(d)
                      /\ \A p \in DOMAIN found : found[p].confidence >= ReviewBelow
                      /\ \A p, q \in ToSet(CandidatePaths) \intersect DOMAIN found :
                           NormalForm[found[p].value] = NormalForm[found[q].value]
                      /\ \A r \in RequiredDocuments :
                           EvaluateCondition(r.when, EvaluationContext(found))
                             => r.type \in TypesOf(classes)
    BY <1>1, <1>5, <1>8 DEF ApprovalIsUnclouded
  <2>1. missing = {} /\ all(retrieval) = {} /\ reasons = {}
    BY <1>3, <1>4
  <2>2. ~Quarantined(chunks, extracted)
    BY <1>1, <2>1 DEF Extracted
  <2>3. ASSUME NEW d \in DOMAIN classes PROVE documents[d] = "ready" /\ Readable(d)
    <3>1. classes[d] # Unclassified
      BY <1>1, <2>1
    <3>2. documents[d] = "ready"
      BY <3>1 DEF documents
    <3> QED  BY <1>7, <3>2 DEF Settled
  <2>4. ASSUME NEW p \in DOMAIN found PROVE found[p].confidence >= ReviewBelow
    <3>1. p \notin LowConfidencePaths(found)
      BY <1>3, <2>1
    <3>2. found[p].confidence \in Nat /\ ReviewBelow \in Nat
      BY <1>1, FactsTyped, LimitsAssumption
    <3> QED  BY <3>1, <3>2 DEF LowConfidencePaths
  <2>5. ~ReconcileConflict(found)
    BY <1>3, <2>1
  <2>6. \A p, q \in ToSet(CandidatePaths) \intersect DOMAIN found :
          NormalForm[found[p].value] = NormalForm[found[q].value]
    BY <2>5, ConflictFound
  <2>7. ASSUME NEW r \in RequiredDocuments, EvaluateCondition(r.when, EvaluationContext(found))
        PROVE  r.type \in TypesOf(classes)
    BY <2>1, <2>7 DEF EvaluateRequiredDocuments
  <2> QED  BY <2>2, <2>3, <2>4, <2>6, <2>7
<1>12. CurrentOK' /\ RowOK'
  BY <1>1, <1>6 DEF CurrentOK, RowOK, Working
<1>13. Reads' /\ ClassesOK'
  BY <1>1, ReadsStay, ClassesStay
<1>14. FoundOK'
  BY <1>1, <1>2, <1>3, ExtractedStays DEF FoundOK
<1>15. ASSUME NEW g \in late' PROVE LateOK(g)'
  <2>1. LateOK(g)
    BY <1>1, <1>15 DEF ExtractionInv
  <2>2. FanOK(g)'
    BY <1>1, <2>1, LatePrimed DEF LateOK
  <2> QED  BY <1>1, <2>1, <2>2 DEF LateOK
<1> QED  BY <1>1, <1>9, <1>10, <1>11, <1>12, <1>13, <1>14, <1>15 DEF ExtractionInv, Position, OutcomeOK

LEMMA ExtractionInvInit ==
    ASSUME ExtractionInit
    PROVE  ExtractionInv
<1>1. /\ phase = "read" /\ attempt = 0 /\ row = [status |-> "processing", progress |-> 5]
      /\ pages = <<>> /\ chunks = <<>> /\ fan = NoFan /\ late = {}
      /\ found = <<>> /\ classes = <<>>
  BY DEF ExtractionInit, Processing
<1>2. CurrentOK /\ RowOK
  BY <1>1 DEF CurrentOK, RowOK, Working
<1>3. Reads /\ ClassesOK /\ FoundOK /\ OutcomeOK
  BY <1>1 DEF Reads, ClassesOK, FoundOK, OutcomeOK
<1> QED  BY <1>1, <1>2, <1>3, LimitsAssumption DEF ExtractionInv, Position

LEMMA ExtractionInvStutters ==
    ASSUME ExtractionInv, UNCHANGED extractionVars
    PROVE  ExtractionInv'
<1>1. /\ UNCHANGED <<phase, attempt, pages, chunks, fan>>
      /\ UNCHANGED <<found, extracted, classes, reasons, item>>
      /\ row' = row /\ late' = late
  BY DEF extractionVars
<1>2. RowOK'
  <2>1. RowOK
    BY DEF ExtractionInv
  <2> QED  BY <1>1, <2>1, LateKeeps DEF RowOK
<1>3. \A k \in late' : LateOK(k)'
  BY <1>1, LateStay
<1>4. phase' = "read" => late' = {}
  BY <1>1 DEF ExtractionInv
<1> QED  BY <1>1, <1>2, <1>3, <1>4, LateKeeps DEF ExtractionInv

LEMMA ExtractionInvSteps ==
    ASSUME ExtractionInv, ExtractionNext
    PROVE  ExtractionInv'
<1>1. CASE LiveStep
  BY <1>1, ReadKeeps, ExtractKeeps, ReportProgressKeeps, EndExtractKeeps, EndClassifyKeeps, EvaluateCaseKeeps,
     CallReturnsKeeps DEF LiveStep
<1>2. CASE LateStep
  BY <1>2, LateCallKeeps, LateReportKeeps DEF LateStep
<1>3. CASE CannotRead \/ TimesOut \/ ReportFails \/ \E i \in fan.calls : CallFails(i)
  BY <1>3, CannotReadKeeps, TimesOutKeeps, ReportFailsKeeps, CallFailsKeeps
<1> QED  BY <1>1, <1>2, <1>3 DEF ExtractionNext

\* What the invariant says of every reachable state.
LEMMA ExtractionInvHolds == ExtractionSpec => []ExtractionInv
<1>1. ExtractionInit => ExtractionInv
  BY ExtractionInvInit
<1>2. ExtractionInv /\ [ExtractionNext]_extractionVars => ExtractionInv'
  BY ExtractionInvSteps, ExtractionInvStutters
<1> QED  BY <1>1, <1>2, PTL DEF ExtractionSpec

LEMMA ExtractionTyped ==
    ASSUME ExtractionInv
    PROVE  ExtractionTypeOK
<1>1. /\ phase \in DOMAIN Position /\ attempt \in 0..PhaseAttempts /\ Reads /\ CurrentOK
      /\ ClassesOK /\ FoundOK /\ \A f \in late : LateOK(f)
  BY DEF ExtractionInv
<1>2. row.status \in {"processing", "needs_review", "completed", "failed"} /\ row.progress \in 0..100
  BY DEF ExtractionInv, RowOK
<1>3. ASSUME NEW f, FanOK(f)
      PROVE  /\ Cardinality(f.calls) + Len(f.reports) <= Concurrency
             /\ f.calls \subseteq 1..ItemsOf(f.phase) /\ f.completed <= ItemsOf(f.phase)
  <2>1. /\ Cardinality(f.calls) \in Nat /\ ItemsOf(f.phase) \in Nat
    BY <1>1, <1>3, Calls, Items
  <2>2. /\ f.completed \in Nat /\ f.next \in Nat /\ f.next - 1 <= ItemsOf(f.phase)
        /\ Cardinality(f.calls) + f.completed <= f.next - 1
        /\ Cardinality(f.calls) + Len(f.reports) <= Concurrency
        /\ f.calls \subseteq 1..ItemsOf(f.phase)
    BY <1>3 DEF FanOK
  <2> QED  BY <2>1, <2>2
<1>4. Cardinality(NoFan.calls) + Len(NoFan.reports) <= Concurrency
  <2>1. NoFan.calls = {} /\ NoFan.reports = <<>>
    BY DEF NoFan
  <2>2. Cardinality({}) = 0 /\ Len(<<>>) = 0
    BY FS_EmptySet
  <2> QED  BY <2>1, <2>2, LimitsAssumption
<1>5. ASSUME NEW f \in late \union {fan} PROVE FanOK(f) \/ f = NoFan
  BY <1>1 DEF LateOK, CurrentOK
<1>6. \A f \in late \union {fan} :
        /\ Cardinality(f.calls) + Len(f.reports) <= Concurrency
        /\ f # NoFan => f.calls \subseteq 1..ItemsOf(f.phase) /\ f.completed <= ItemsOf(f.phase)
  BY <1>3, <1>4, <1>5
<1>7. \A p \in DOMAIN found : p \in DOMAIN FieldTypes
  BY <1>1, FactsTyped DEF FoundOK
<1>8. TypesOf(classes) \subseteq DocumentTypes
  BY <1>1 DEF TypesOf, ClassesOK, Settled, Unclassified
<1> QED  BY <1>1, <1>2, <1>6, <1>7, <1>8 DEF ExtractionTypeOK

\* What a run leaves to a reviewer, or takes off their hands, is what its answers support: a
\* recommendation to approve, the state of a document and the reasons for review of every case
\* that processJob saves.
THEOREM TheRunIsSafe == ExtractionSpec => []ReviewedWhereUnclear
<1>1. ExtractionInv => ReviewedWhereUnclear
  <2>1. ExtractionInv => ExtractionTypeOK
    BY ExtractionTyped
  <2>2. phase # "done" => ApprovalIsUnclouded /\ DisagreementIsReviewed /\ ReadyIsCited
    BY DEF ApprovalIsUnclouded, DisagreementIsReviewed, ReadyIsCited
  <2> QED  BY <2>1, <2>2 DEF ExtractionInv, OutcomeOK, ReviewedWhereUnclear
<1> QED  BY <1>1, ExtractionInvHolds, PTL

\* Whatever the order in which the calls of extract returned, every path of the merged facts
\* holds its most confident supported observation, the latest of several.
THEOREM BestFactsAreKept == ExtractionSpec => []FactsAreBestSupported
<1>1. ExtractionInv => FactsAreBestSupported
  <2> SUFFICES ASSUME ExtractionInv PROVE FactsAreBestSupported
    OBVIOUS
  <2>1. CASE phase = "evaluate"
    <3>1. Reads /\ Extracted
      BY <2>1 DEF ExtractionInv, FoundOK
    <3> QED  BY <3>1, BestSupported
  <2>2. CASE phase # "evaluate"
    BY <2>2 DEF FactsAreBestSupported
  <2> QED  BY <2>1, <2>2
<1> QED  BY <1>1, ExtractionInvHolds, PTL

\* ProgressRises, step by step.
LEMMA RowRises ==
    ASSUME ExtractionInv, ExtractionNext, late = {}, attempt' <= 1
    PROVE  row'.progress >= row.progress
<1>1. row.progress \in 0..100 /\ RowOK /\ Reads
  BY DEF ExtractionInv, RowOK
<1>3. CASE Fail
  <2>1. row'.progress = 100
    BY <1>3 DEF Fail
  <2> QED  BY <1>1, <2>1
<1>4. CASE Read
  <2>1. row'.progress = 25 /\ row.progress <= 25
    BY <1>1, <1>4 DEF Read, Processing, RowOK
  <2> QED  BY <1>1, <2>1
<1>5. CASE Extract
  <2>1. row'.progress = 40 /\ row.progress <= 25
    BY <1>1, <1>5 DEF Extract, StartPhase, Processing, RowOK
  <2> QED  BY <1>1, <2>1
<1>6. CASE ReportProgress
  <2>1. PICK r \in FirstReport(fan) : row'.progress = ReportedProgress(phase, fan.reports[r])
    BY <1>6 DEF ReportProgress, Processing
  <2>2. Working /\ FanOK(fan) /\ fan.phase = phase /\ attempt = 1
    <3>1. fan.reports # <<>>
      BY <2>1 DEF FirstReport
    <3>2. attempt' = attempt
      BY <1>6 DEF ReportProgress
    <3> QED  BY <3>1, <3>2, AtWork DEF ExtractionInv
  <2> DEFINE c == fan.completed - Len(fan.reports) + 1
  <2>3. c \in 1..ItemsOf(phase) /\ fan.reports[r] = c
    BY <1>1, <2>2, AdvancedOK
  <2>4. c \in (Written + 1)..ItemsOf(phase)
    BY <2>3, <1>1, Items DEF Written
  <2> HIDE DEF c
  <2>5. row.progress <= ReportedProgress(phase, c)
    BY <1>1, <2>2, <2>4 DEF RowOK
  <2>6. ReportedProgress(phase, c) \in StartOf(phase)..(StartOf(phase) + 14) /\ StartOf(phase) \in Nat
    <3>1. StartOf(phase) \in Nat
      BY DEF StartOf
    <3> QED  BY <1>1, <2>2, <2>3, <3>1, Progress DEF Working
  <2> QED  BY <1>1, <2>1, <2>3, <2>5, <2>6
<1>7. CASE EndExtract
  <2>1. row'.progress = 55 /\ row.progress <= 54
    BY <1>1, <1>7 DEF EndExtract, StartPhase, Processing, RowOK
  <2> QED  BY <1>1, <2>1
<1>8. CASE EndClassify
  <2>1. row'.progress = 70 /\ row.progress <= 69
    BY <1>1, <1>8 DEF EndClassify, Processing, RowOK
  <2> QED  BY <1>1, <2>1
<1>9. CASE EvaluateCase
  <2>1. row'.progress = 100
    BY <1>9 DEF EvaluateCase
  <2> QED  BY <1>1, <2>1
<1>10. CASE \E i \in fan.calls : CallReturns(i)
  <2>1. row' = row
    BY <1>10 DEF CallReturns
  <2> QED  BY <1>1, <2>1
<1>11. CASE CannotRead
  BY <1>3, <1>11 DEF CannotRead
<1>12. CASE TimesOut \/ ReportFails \/ \E i \in fan.calls : CallFails(i)
  <2>1. fan.calls # {} \/ fan.reports # <<>>
    BY <1>12 DEF TimesOut, Running, ReportFails
  <2>2. attempt \in 1..PhaseAttempts
    BY <2>1, AtWork DEF ExtractionInv
  <2>3. \E leftovers : Abandon(leftovers)
    BY <1>12 DEF TimesOut, ReportFails, CallFails
  <2>4. attempt < PhaseAttempts => attempt' = attempt + 1
    BY <2>3 DEF Abandon, StartPhase
  <2>5. ~(attempt < PhaseAttempts)
    BY <2>2, <2>4
  <2>6. Fail
    BY <2>3, <2>5 DEF Abandon
  <2> QED  BY <1>3, <2>6
<1>13. ~LateStep
  BY DEF LateStep
<1> QED  BY <1>3, <1>4, <1>5, <1>6, <1>7, <1>8, <1>9, <1>10, <1>11, <1>12, <1>13
         DEF ExtractionNext, LiveStep

\* Without an abandoned attempt no report, phase or end of the run lowers the progress that the
\* row of the job shows.
THEOREM TheRowRises == ExtractionSpec => ProgressRises
<1>1. /\ ExtractionInv /\ [ExtractionNext]_extractionVars
      => [late = {} /\ attempt' <= 1 => row'.progress >= row.progress]_extractionVars
  BY RowRises
<1> QED  BY <1>1, ExtractionInvHolds, PTL DEF ExtractionSpec, ProgressRises
=============================================================================
