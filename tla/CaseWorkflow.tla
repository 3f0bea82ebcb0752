---------------------------- MODULE CaseWorkflow ----------------------------
(***************************************************************************)
(* The review graph (packages/workflow/src/workflow.ts): what one node may *)
(* make of the state of a run.  A run's state keeps its status, the phase  *)
(* it finished last, whether a reason for review was recorded, and the     *)
(* worst finding of the deterministic rules.  A provider that still fails  *)
(* after the bounded retries of a node is one of the node's outcomes.      *)
(***************************************************************************)
EXTENDS Naturals

RunStatus == {"running", "needs_review", "completed", "failed"}

\* The order in which the graph finishes its phases.
Rank == [queued |-> 0, validate |-> 1, extract |-> 2, classify |-> 3, reconcile |-> 4,
         retrieve |-> 5, evaluate |-> 6, review |-> 7, summarize |-> 7, complete |-> 8]

\* A finding below material is one more reason for review.
Findings == {"none", "material"}

RunState == [status : RunStatus, phase : DOMAIN Rank, reasons : BOOLEAN, findings : Findings]

DefaultState ==
    [status |-> "running", phase |-> "queued", reasons |-> FALSE, findings |-> "none"]

Failed(s, phase) == [s EXCEPT !.status = "failed", !.phase = phase, !.reasons = TRUE]

\* A case without documents, or with a model that is not ready, fails here.
Validate(s) == {Failed(s, "validate"), [s EXCEPT !.phase = "validate"]}

\* extract, classify and reconcile: an exhausted retry ends the run, a result may carry
\* reasons for review (quarantined facts, unclassified documents, conflicts).
Provided(s, phase) ==
    {Failed(s, phase)} \union
        {[s EXCEPT !.phase = phase, !.reasons = r] : r \in {s.reasons, TRUE}}

\* An outage of retrieval abstains: it is a reason for review, never a failed run.
Retrieve(s) == {[s EXCEPT !.phase = "retrieve", !.reasons = r] : r \in {s.reasons, TRUE}}

Evaluate(s) ==
    {[s EXCEPT !.phase = "evaluate", !.findings = f, !.reasons = @ \/ f = "material"] :
        f \in Findings} \union {[s EXCEPT !.phase = "evaluate", !.reasons = TRUE]}

\* Anything but an approvable evaluation goes to a person.
RoutesToReview(s) == s.reasons \/ s.findings # "none"

Review(s) == {[s EXCEPT !.phase = "review", !.status = "needs_review"]}
Summarize(s) == {[s EXCEPT !.phase = "summarize"]}
Complete(s) == {[s EXCEPT !.phase = "complete", !.status = "completed"]}

\* The node that follows the last finished phase, and the states it may leave.
NodeResults(s) ==
    CASE s.phase = "queued" -> Validate(s)
      [] s.phase = "validate" -> Provided(s, "extract")
      [] s.phase = "extract" -> Provided(s, "classify")
      [] s.phase = "classify" -> Provided(s, "reconcile")
      [] s.phase = "reconcile" -> Retrieve(s)
      [] s.phase = "retrieve" -> Evaluate(s)
      [] s.phase = "evaluate" -> IF RoutesToReview(s) THEN Review(s) ELSE Summarize(s)
      [] s.phase = "summarize" -> Complete(s)
=============================================================================
