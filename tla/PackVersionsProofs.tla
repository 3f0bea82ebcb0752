------------------------- MODULE PackVersionsProofs -------------------------
(***************************************************************************)
(* Proofs about PackVersions for any number of administrators, proposals,  *)
(* collections and releases, and whoever may review what.                  *)
(***************************************************************************)
EXTENDS PackVersions, TLAPS

\* A subject of a task adds something a definition may hold, and only reviews have proposals.
LEMMA TasksTyped ==
    ASSUME NEW task \in Tasks
    PROVE  /\ ElementOf[task[3]] \in Elements
           /\ task[2] \in {"approved", "rejected", "created"}
           /\ task[2] # "created" => task[3] \in Proposals
BY PackAssumption DEF Subjects

\* A version that follows one of the lineage, within the bound, is a version.
LEMMA NextMinorTyped ==
    ASSUME NEW v \in Versions, NextMinor(v)[2] <= MaxMinor
    PROVE  NextMinor(v) \in Versions
BY PackAssumption, PackBounds DEF Versions, NextMinor

\* What a request may read as the active pack is a version of some catalogue or of the
\* lineage, with elements of the vocabulary.
LEMMA ActivePacksTyped ==
    ASSUME TypeOK, NEW pack \in ActivePacks
    PROVE  pack.version \in Nat \X Nat /\ pack.content \in SUBSET Elements
<1>1. Versions \subseteq Nat \X Nat
  <2>1. Majors \subseteq Nat /\ MaxMinor \in Nat
    BY PackAssumption, PackBounds DEF PackAssumption, PackBounds
  <2>2. 0..MaxMinor \subseteq Nat
    BY <2>1
  <2> QED  BY <2>1, <2>2 DEF Versions
<1>2. CASE Active \ stubs = {}
  <2>1. PICK r \in serving : pack = Compiled(r)
    BY <1>2 DEF ActivePacks
  <2>2. r \in Releases
    BY DEF TypeOK
  <2> QED  BY <1>1, <2>1, <2>2, PackAssumption DEF Compiled
<1>3. CASE Active \ stubs # {}
  <2>1. PICK v \in Active : pack = [version |-> v, content |-> definition[v]]
    BY <1>3 DEF ActivePacks
  <2>2. v \in Versions
    BY DEF Active
  <2> QED  BY <1>1, <2>1, <2>2 DEF TypeOK
<1> QED  BY <1>2, <1>3

-----------------------------------------------------------------------------
(* The lineage: what installing, seeding and saving do to it. *)

\* The rows are typed, a stub is a row, and at most one of them is active.
RowsOK ==
    /\ status \in [Versions -> {"absent", "active", "superseded"}]
    /\ definition \in [Versions -> SUBSET Elements]
    /\ origin \in [Versions -> {"catalog", "tenant"}]
    /\ stubs \subseteq Lineage
    /\ AtMostOneActive

\* Saving a version keeps the rows sound and rewrites none, provided a version that exists is
\* saved with the definition it has.
LEMMA SaveKeepsRows ==
    ASSUME RowsOK,
           NEW base, NEW v \in Versions, NEW content \in SUBSET Elements,
           NEW by \in {"catalog", "tenant"},
           v \in Lineage => v \notin stubs /\ definition[v] = content,
           SavePackVersion(base, v, content, by)
    PROVE  /\ RowsOK'
           /\ \A w \in Lineage \ stubs : /\ definition'[w] = definition[w]
                                         /\ status'[w] \in {status[w], "superseded"}
<1>1. \A w \in Versions :
          status'[w] = IF w = v THEN (IF v \in Lineage THEN status[v] ELSE "active")
                       ELSE IF status[w] = "active" THEN "superseded" ELSE status[w]
  BY DEF SavePackVersion, StatusAfter
<1>2. status' \in [Versions -> {"absent", "active", "superseded"}]
  BY DEF SavePackVersion, StatusAfter, RowsOK
<1>3. /\ definition' \in [Versions -> SUBSET Elements]
      /\ origin' \in [Versions -> {"catalog", "tenant"}]
  BY DEF SavePackVersion, RowsOK
<1>4. Lineage \subseteq Lineage'
  BY <1>1 DEF Lineage
<1>5. (stubs \subseteq Lineage)'
  BY <1>4 DEF SavePackVersion, RowsOK
<1>6. AtMostOneActive'
  <2>1. \A w \in Active' : w = v
    BY <1>1 DEF Active
  <2> QED  BY <2>1 DEF AtMostOneActive
<1>7. \A w \in Lineage \ stubs : /\ definition'[w] = definition[w]
                                 /\ status'[w] \in {status[w], "superseded"}
  BY <1>1 DEF SavePackVersion, RowsOK, Lineage
<1> QED  BY <1>2, <1>3, <1>5, <1>6, <1>7 DEF RowsOK

\* An instance that starts keeps the rows sound and rewrites none but a stub.
LEMMA SeedKeepsRows ==
    ASSUME RowsOK, NEW r \in Releases, StartInstance(r)
    PROVE  /\ RowsOK'
           /\ \A w \in Lineage \ stubs : /\ definition'[w] = definition[w]
                                         /\ status'[w] \in {status[w], "superseded"}
<1>1. ReleaseVersion[r] \in Versions /\ ReleaseContent[r] \in SUBSET Elements
  BY PackAssumption
<1>2. CASE Install(r)
  <2>1. \A w \in Versions : status[w] = "absent"
    BY <1>2 DEF Install, Lineage
  <2>2. \A w \in Active' : w = ReleaseVersion[r]
    BY <1>2, <2>1 DEF Install, Active, RowsOK
  <2>3. stubs = {} /\ stubs' = {}
    BY <1>2 DEF Install, RowsOK
  <2>4. /\ status' \in [Versions -> {"absent", "active", "superseded"}]
        /\ definition' \in [Versions -> SUBSET Elements]
        /\ origin' \in [Versions -> {"catalog", "tenant"}]
    BY <1>1, <1>2 DEF Install, RowsOK
  <2> QED  BY <1>2, <2>2, <2>3, <2>4 DEF RowsOK, AtMostOneActive, Install
<1>3. CASE ReplaceStub(r)
  <2>1. ReleaseVersion[r] \in stubs
    BY <1>3 DEF ReplaceStub, ReplacesStub
  <2>2. /\ status' = status /\ origin' = origin /\ stubs' \subseteq stubs
        /\ definition' = [definition EXCEPT ![ReleaseVersion[r]] = ReleaseContent[r]]
    BY <1>3 DEF ReplaceStub
  <2>3. Lineage' = Lineage /\ Active' = Active
    BY <2>2 DEF Lineage, Active
  <2>4. definition' \in [Versions -> SUBSET Elements]
    BY <1>1, <2>2 DEF RowsOK
  <2>5. \A w \in Lineage \ stubs : definition'[w] = definition[w]
    BY <2>1, <2>2 DEF RowsOK, Lineage
  <2> QED  BY <2>2, <2>3, <2>4, <2>5 DEF RowsOK, AtMostOneActive
<1>4. CASE Upgrade(r)
  <2>1. PICK v \in Versions :
            SavePackVersion(v, ReleaseVersion[r], ReleaseContent[r], "catalog")
    BY <1>4 DEF Upgrade
  <2>2. ReleaseVersion[r] \notin Lineage
    BY <1>4 DEF Upgrade
  <2> QED  BY <1>1, <2>1, <2>2, SaveKeepsRows
<1>5. CASE Keep(r)
  BY <1>5 DEF Keep, lineageVars, RowsOK, Lineage, Active, AtMostOneActive
<1> QED  BY <1>2, <1>3, <1>4, <1>5 DEF StartInstance

\* A step that does not touch the rows keeps them.
LEMMA RowsUntouched ==
    ASSUME RowsOK, UNCHANGED lineageVars
    PROVE  /\ RowsOK'
           /\ \A w \in Lineage \ stubs : /\ definition'[w] = definition[w]
                                         /\ status'[w] \in {status[w], "superseded"}
BY DEF lineageVars, RowsOK, Lineage, Active, AtMostOneActive

-----------------------------------------------------------------------------
(* The requests. *)

\* Requests, proposals and counters are typed, and a request's step fits its task.
RequestsOK ==
    /\ proposal \in [Proposals -> {"proposed", "invalid", "approved", "rejected"}]
    /\ serving \subseteq Releases
    /\ request \in [Admins -> Requests]
    /\ \A a \in Admins : request[a].step # "idle" => request[a].task \in Tasks
    /\ StepsMatchTasks
    /\ crashes \in Nat
    /\ rederived \in Nat

LEMMA IInvParts == IInv <=> RowsOK /\ RequestsOK
BY DEF IInv, RowsOK, RequestsOK, TypeOK

\* Replacing one request by a sound one keeps all sound.
LEMMA RequestReplaced ==
    ASSUME RequestsOK, NEW a \in Admins, NEW next \in Requests,
           next.step # "idle" => next.task \in Tasks,
           next.step = "reading" => next.task[2] = "approved",
           next.step = "marking" => next.task[2] # "created",
           request' = [request EXCEPT ![a] = next]
    PROVE  /\ (request \in [Admins -> Requests])'
           /\ (\A b \in Admins : request[b].step # "idle" => request[b].task \in Tasks)'
           /\ StepsMatchTasks'
<1>1. request' \in [Admins -> Requests]
  BY DEF RequestsOK
<1>2. \A b \in Admins : request'[b] = IF b = a THEN next ELSE request[b]
  BY DEF RequestsOK
<1> QED  BY <1>1, <1>2 DEF RequestsOK, StepsMatchTasks

\* A request that ends leaves its administrator idle.
LEMMA IdleTyped ==
    /\ Idle \in Requests
    /\ Idle.step = "idle"
BY DEF Idle, Requests, NoVersion

LEMMA ReadProposalKeeps ==
    ASSUME RequestsOK, NEW a \in Admins, NEW p \in Proposals,
           NEW verdict \in {"approved", "rejected"}, ReadProposal(a, p, verdict)
    PROVE  RequestsOK'
<1> DEFINE next == [Idle EXCEPT !.step = IF verdict = "approved" THEN "reading" ELSE "marking",
                                !.task = <<a, verdict, p>>]
<1>1. /\ next \in Requests
      /\ next.step = IF verdict = "approved" THEN "reading" ELSE "marking"
      /\ next.task = <<a, verdict, p>>
  BY DEF Idle, Requests, NoVersion, ReadProposal
<1>2. next.task \in Tasks /\ next.task[2] = verdict
  BY <1>1 DEF ReadProposal
<1>3. request' = [request EXCEPT ![a] = next]
  BY DEF ReadProposal
<1> HIDE DEF next
<1>4. /\ (request \in [Admins -> Requests])'
      /\ (\A b \in Admins : request[b].step # "idle" => request[b].task \in Tasks)'
      /\ StepsMatchTasks'
  BY <1>1, <1>2, <1>3, RequestReplaced
<1> QED  BY <1>4 DEF RequestsOK, ReadProposal

\* The next pack is built for a task that exists.
LEMMA SavingKeeps ==
    ASSUME IInv, NEW a \in Admins, NEW pack \in ActivePacks, NEW task \in Tasks,
           Saving(a, pack, task)
    PROVE  /\ (request \in [Admins -> Requests])'
           /\ (\A b \in Admins : request[b].step # "idle" => request[b].task \in Tasks)'
           /\ StepsMatchTasks'
<1> DEFINE next == [step |-> "saving", task |-> task, base |-> pack.version,
                    content |-> pack.content \union {ElementOf[task[3]]}]
<1>1. pack.version \in Nat \X Nat /\ pack.content \in SUBSET Elements
  BY ActivePacksTyped DEF IInv
<1>2. ElementOf[task[3]] \in Elements
  BY TasksTyped
<1>3. next \in Requests /\ next.step = "saving" /\ next.task = task
  BY <1>1, <1>2 DEF Requests
<1>4. request' = [request EXCEPT ![a] = next]
  BY DEF Saving
<1>5. RequestsOK
  BY IInvParts
<1> HIDE DEF next
<1> QED  BY <1>3, <1>4, <1>5, RequestReplaced

LEMMA ReadActivePackKeeps ==
    ASSUME IInv, NEW a \in Admins, ReadActivePack(a)
    PROVE  RequestsOK'
<1>1. RequestsOK /\ request[a].task \in Tasks
  BY IInvParts DEF ReadActivePack, RequestsOK
<1>2. PICK pack \in ActivePacks :
          \/ Saving(a, pack, request[a].task)
          \/ request' = [request EXCEPT ![a] = Idle]
  BY DEF ReadActivePack
<1>3. /\ (request \in [Admins -> Requests])'
      /\ (\A b \in Admins : request[b].step # "idle" => request[b].task \in Tasks)'
      /\ StepsMatchTasks'
  BY <1>1, <1>2, SavingKeeps, RequestReplaced, IdleTyped
<1> QED  BY <1>1, <1>3 DEF RequestsOK, ReadActivePack

LEMMA CreateCollectionKeeps ==
    ASSUME IInv, NEW a \in Admins, NEW c \in Collections, CreateCollection(a, c)
    PROVE  RequestsOK'
<1>1. RequestsOK /\ <<a, "created", c>> \in Tasks
  BY IInvParts DEF CreateCollection
<1>2. PICK pack \in ActivePacks : Saving(a, pack, <<a, "created", c>>)
  BY DEF CreateCollection
<1>3. /\ (request \in [Admins -> Requests])'
      /\ (\A b \in Admins : request[b].step # "idle" => request[b].task \in Tasks)'
      /\ StepsMatchTasks'
  BY <1>1, <1>2, SavingKeeps
<1> QED  BY <1>1, <1>3 DEF RequestsOK, CreateCollection

\* The version saved exists with this definition, or is new.
LEMMA SaveVersionKeeps ==
    ASSUME IInv, NEW a \in Admins, SaveVersion(a)
    PROVE  /\ IInv'
           /\ \A w \in Lineage \ stubs : /\ definition'[w] = definition[w]
                                         /\ status'[w] \in {status[w], "superseded"}
<1> DEFINE asked == request[a]
           v == NextMinor(asked.base)
<1>1. RowsOK /\ RequestsOK
  BY IInvParts
<1>2. /\ asked.step = "saving" /\ asked.task \in Tasks
      /\ asked.content \in SUBSET Elements
  BY <1>1 DEF SaveVersion, RequestsOK, Requests
<1>3. asked.base \in Versions
  BY DEF SaveVersion, Accepts, Lineage
<1>4. v \in Versions
  BY <1>3, NextMinorTyped DEF SaveVersion
<1>5. /\ v \in Lineage => v \notin stubs /\ definition[v] = asked.content
      /\ SavePackVersion(asked.base, v, asked.content, "tenant")
  BY DEF SaveVersion, Accepts
<1>6. /\ RowsOK'
      /\ \A w \in Lineage \ stubs : /\ definition'[w] = definition[w]
                                    /\ status'[w] \in {status[w], "superseded"}
  <2> HIDE DEF asked, v
  <2> QED  BY <1>1, <1>2, <1>4, <1>5, SaveKeepsRows
<1>7. RequestsOK'
  <2>1. CASE Verdict(a) = "created"
    <3>1. request' = [request EXCEPT ![a] = Idle]
      BY <2>1 DEF SaveVersion
    <3>2. /\ (request \in [Admins -> Requests])'
          /\ (\A b \in Admins : request[b].step # "idle" => request[b].task \in Tasks)'
          /\ StepsMatchTasks'
      BY <1>1, <3>1, IdleTyped, RequestReplaced
    <3> QED  BY <1>1, <3>2 DEF RequestsOK, SaveVersion
  <2>2. CASE Verdict(a) # "created"
    <3> DEFINE next == [Idle EXCEPT !.step = "marking", !.task = asked.task]
    <3>1. next \in Requests /\ next.step = "marking" /\ next.task = asked.task
      BY <1>2 DEF Idle, Requests, NoVersion
    <3>2. request' = [request EXCEPT ![a] = next] /\ next.task[2] # "created"
      BY <2>2, <3>1 DEF SaveVersion, Verdict
    <3> HIDE DEF next
    <3>3. /\ (request \in [Admins -> Requests])'
          /\ (\A b \in Admins : request[b].step # "idle" => request[b].task \in Tasks)'
          /\ StepsMatchTasks'
      BY <1>1, <1>2, <3>1, <3>2, RequestReplaced
    <3> QED  BY <1>1, <3>3 DEF RequestsOK, SaveVersion
  <2> QED  BY <2>1, <2>2
<1>8. IInv'
  BY <1>6, <1>7, IInvParts, PTL
<1> QED  BY <1>6, <1>8

LEMMA MarkProposalKeeps ==
    ASSUME RequestsOK, NEW a \in Admins, MarkProposal(a)
    PROVE  RequestsOK'
<1>1. /\ request[a].task \in Tasks
      /\ request[a].task[2] # "created"
      /\ request' = [request EXCEPT ![a] = Idle]
  BY DEF MarkProposal, RequestsOK, StepsMatchTasks
<1>2. Verdict(a) \in {"approved", "rejected"} /\ Subject(a) \in Proposals
  BY <1>1, TasksTyped DEF Verdict, Subject
<1>3. proposal' \in [Proposals -> {"proposed", "invalid", "approved", "rejected"}]
  BY <1>2 DEF MarkProposal, RequestsOK
<1>4. /\ (request \in [Admins -> Requests])'
      /\ (\A b \in Admins : request[b].step # "idle" => request[b].task \in Tasks)'
      /\ StepsMatchTasks'
  BY <1>1, IdleTyped, RequestReplaced
<1> QED  BY <1>3, <1>4 DEF RequestsOK, MarkProposal

\* A request that is refused or dies ends.
LEMMA RequestEnds ==
    ASSUME RequestsOK, NEW a \in Admins, SaveRefused(a) \/ CrashRequest(a)
    PROVE  RequestsOK'
<1>1. request' = [request EXCEPT ![a] = Idle]
  BY DEF SaveRefused, CrashRequest
<1>2. /\ (request \in [Admins -> Requests])'
      /\ (\A b \in Admins : request[b].step # "idle" => request[b].task \in Tasks)'
      /\ StepsMatchTasks'
  BY <1>1, IdleTyped, RequestReplaced
<1> QED  BY <1>2 DEF RequestsOK, SaveRefused, CrashRequest

-----------------------------------------------------------------------------
(* The specification. *)

\* One step keeps the invariant and rewrites no version.
LEMMA Step ==
    ASSUME IInv, [Next]_vars
    PROVE  /\ IInv'
           /\ \A w \in Lineage \ stubs : /\ definition'[w] = definition[w]
                                         /\ status'[w] \in {status[w], "superseded"}
<1> DEFINE Untouched == \A w \in Lineage \ stubs :
                           /\ definition'[w] = definition[w]
                           /\ status'[w] \in {status[w], "superseded"}
<1>1. RowsOK /\ RequestsOK
  BY IInvParts
<1>2. ASSUME NEW r \in Releases, StartInstance(r)
      PROVE  IInv' /\ Untouched
  <2>1. RowsOK' /\ Untouched
    BY <1>1, <1>2, SeedKeepsRows
  <2>2. RequestsOK'
    BY <1>1, <1>2 DEF StartInstance, RequestsOK, StepsMatchTasks
  <2> QED  BY <2>1, <2>2, IInvParts, PTL
<1>3. ASSUME UNCHANGED lineageVars, RequestsOK'
      PROVE  IInv' /\ Untouched
  BY <1>1, <1>3, RowsUntouched, IInvParts, PTL
<1>4. ASSUME NEW p \in Proposals, RederiveProposal(p)
      PROVE  IInv' /\ Untouched
  BY <1>1, <1>3, <1>4 DEF RederiveProposal, RequestsOK, StepsMatchTasks
<1>5. ASSUME NEW a \in Admins, NEW p \in Proposals,
             NEW verdict \in {"approved", "rejected"}, ReadProposal(a, p, verdict)
      PROVE  IInv' /\ Untouched
  <2>1. RequestsOK'
    BY <1>1, <1>5, ReadProposalKeeps
  <2> QED  BY <1>3, <1>5, <2>1 DEF ReadProposal
<1>6. ASSUME NEW a \in Admins, NEW c \in Collections, CreateCollection(a, c)
      PROVE  IInv' /\ Untouched
  <2>1. RequestsOK'
    BY <1>6, CreateCollectionKeeps
  <2> QED  BY <1>3, <1>6, <2>1 DEF CreateCollection
<1>7. ASSUME NEW a \in Admins, ReadActivePack(a)
      PROVE  IInv' /\ Untouched
  <2>1. RequestsOK'
    BY <1>7, ReadActivePackKeeps
  <2> QED  BY <1>3, <1>7, <2>1 DEF ReadActivePack
<1>8. ASSUME NEW a \in Admins, SaveVersion(a)
      PROVE  IInv' /\ Untouched
  BY <1>8, SaveVersionKeeps
<1>9. ASSUME NEW a \in Admins, SaveRefused(a) \/ CrashRequest(a)
      PROVE  IInv' /\ Untouched
  <2>1. RequestsOK'
    BY <1>1, <1>9, RequestEnds
  <2> QED  BY <1>3, <1>9, <2>1 DEF SaveRefused, CrashRequest
<1>10. ASSUME NEW a \in Admins, MarkProposal(a)
       PROVE  IInv' /\ Untouched
  <2>1. RequestsOK'
    BY <1>1, <1>10, MarkProposalKeeps
  <2> QED  BY <1>3, <1>10, <2>1 DEF MarkProposal
<1>11. CASE UNCHANGED vars
  <2>1. UNCHANGED lineageVars /\ RequestsOK'
    BY <1>1, <1>11 DEF vars, lineageVars, RequestsOK, StepsMatchTasks
  <2> QED  BY <1>3, <2>1
<1>12. CASE Next
  <2>1. ASSUME NEW a \in Admins, Serve(a)
        PROVE  IInv' /\ Untouched
    BY <1>7, <1>8, <1>9, <1>10, <2>1 DEF Serve
  <2>2. ASSUME NEW a \in Admins, NEW p \in Proposals,
               ReadProposal(a, p, "approved") \/ ReadProposal(a, p, "rejected")
        PROVE  IInv' /\ Untouched
    BY <1>5, <2>2
  <2>3. ASSUME NEW a \in Admins, CrashRequest(a)
        PROVE  IInv' /\ Untouched
    BY <1>9, <2>3
  <2> QED  BY <1>2, <1>4, <1>6, <1>12, <2>1, <2>2, <2>3 DEF Next
<1> QED  BY <1>11, <1>12

\* At the start a tenant has nothing, or one active stub.
LEMMA Start ==
    ASSUME Init
    PROVE  IInv
<1>1. PICK old \in {{}} \union {{ReleaseVersion[r]} : r \in FirstReleases} :
          /\ status = [v \in Versions |-> IF v \in old THEN "active" ELSE "absent"]
          /\ stubs = old
  BY DEF Init
<1>2. old \subseteq Versions /\ \A v, w \in old : v = w
  BY PackAssumption DEF FirstReleases
<1>3. RowsOK
  BY <1>1, <1>2 DEF Init, RowsOK, Lineage, Active, AtMostOneActive
<1>4. RequestsOK
  BY IdleTyped DEF Init, RequestsOK, StepsMatchTasks
<1> QED  BY <1>3, <1>4, IInvParts

\* The inductive invariant of the specification.
THEOREM Invariant == Spec => []IInv
<1>1. Init => IInv
  BY Start
<1>2. IInv /\ [Next]_vars => IInv'
  BY Step
<1> QED  BY <1>1, <1>2, PTL DEF Spec

\* Every row, proposal and request keeps its shape.
THEOREM TypeCorrect == Spec => []TypeOK
<1>1. IInv => TypeOK
  BY DEF IInv
<1> QED  BY <1>1, Invariant, PTL

\* No interleaving of approvals, creations and seeds leaves two active versions.
THEOREM OneActive == Spec => []AtMostOneActive
<1>1. IInv => AtMostOneActive
  BY DEF IInv
<1> QED  BY <1>1, Invariant, PTL

\* A version is written once and never comes back: what a case is pinned to does not change.
THEOREM PinnedForEver == Spec => VersionsNeverRewritten
<1>1. IInv /\ [Next]_vars =>
          [\A v \in Lineage \ stubs :
              /\ definition'[v] = definition[v]
              /\ status'[v] \in {status[v], "superseded"}]_vars
  BY Step
<1>2. Spec => [][\A v \in Lineage \ stubs :
                    /\ definition'[v] = definition[v]
                    /\ status'[v] \in {status[v], "superseded"}]_vars
  BY <1>1, Invariant, PTL DEF Spec
<1> QED  BY <1>2 DEF VersionsNeverRewritten

-----------------------------------------------------------------------------
(* The order of versions. *)

LEMMA VersionsArePairs == Versions \subseteq Nat \X Nat
<1>1. Majors \subseteq Nat /\ MaxMinor \in Nat
  BY PackAssumption, PackBounds DEF PackAssumption, PackBounds
<1>2. 0..MaxMinor \subseteq Nat
  BY <1>1
<1> QED  BY <1>1, <1>2 DEF Versions

\* Versions are ordered by their major, then their minor number.
LEMMA OlderIsAnOrder ==
    ASSUME NEW u \in Nat \X Nat, NEW v \in Nat \X Nat, NEW w \in Nat \X Nat
    PROVE  /\ ~Older(v, v)
           /\ v = w \/ Older(v, w) \/ Older(w, v)
           /\ Older(u, v) => ~Older(v, u)
           /\ Older(u, v) /\ Older(v, w) => Older(u, w)
<1>1. /\ v = <<v[1], v[2]>> /\ w = <<w[1], w[2]>>
      /\ {u[1], u[2], v[1], v[2], w[1], w[2]} \subseteq Nat
  OBVIOUS
<1> QED  BY <1>1 DEF Older

\* The next minor version follows directly, and what has a next one follows it.
LEMMA NextFollows ==
    ASSUME NEW v \in Nat \X Nat, NEW w \in Nat \X Nat
    PROVE  /\ NextMinor(v) \in Nat \X Nat
           /\ Older(v, NextMinor(v))
           /\ ~Older(v, w) => Older(w, NextMinor(v))
           /\ ~Older(v, w) => ~Older(NextMinor(v), NextMinor(w))
           /\ NextMinor(v) = NextMinor(w) => v = w
<1>1. /\ v = <<v[1], v[2]>> /\ w = <<w[1], w[2]>>
      /\ {v[1], v[2], w[1], w[2]} \subseteq Nat
  OBVIOUS
<1>2. /\ NextMinor(v)[1] = v[1] /\ NextMinor(v)[2] = v[2] + 1
      /\ NextMinor(w)[1] = w[1] /\ NextMinor(w)[2] = w[2] + 1
  BY DEF NextMinor
<1>3. NextMinor(v) \in Nat \X Nat
  BY <1>1 DEF NextMinor
<1>4. NextMinor(v) = NextMinor(w) => v = w
  BY <1>1, <1>2
<1> QED  BY <1>1, <1>2, <1>3, <1>4 DEF Older

-----------------------------------------------------------------------------
(* The lineage has no gaps, and grows at its end. *)

\* A catalogue's version bears the number of a release; a stub is a first release's, which no
\* release precedes.
CatalogOK ==
    /\ \A v \in Lineage : origin[v] = "catalog" => \E r \in Releases : v = ReleaseVersion[r]
    /\ \A v \in stubs : origin[v] = "catalog" /\ \A r \in Releases : ~Older(ReleaseVersion[r], v)

\* Between two versions of the lineage there is no number left, and it starts with a release.
Contiguous ==
    /\ \A v, w \in Lineage : Older(v, w) => NextMinor(v) \in Lineage
    /\ \A v \in Lineage : \E r \in Releases : ~Older(v, ReleaseVersion[r])

LineageInv == CatalogOK /\ Contiguous

\* The pack only moves forward, as a fact about one step.
Forward == \A v \in Active, w \in Active' : ~Older(w, v)

\* Nothing is newer than a version whose number is the last, and the next one prolongs the
\* lineage.
LEMMA LineageGrows ==
    ASSUME RowsOK, Contiguous, NEW b \in Lineage, NEW v \in Versions, v = NextMinor(b),
           v \notin Lineage, Lineage' = Lineage \union {v}
    PROVE  /\ Contiguous'
           /\ \A w \in Lineage : ~Older(b, w)
           /\ \A w \in Lineage : Older(w, v) /\ ~Older(v, w)
<1>1. Lineage \subseteq Nat \X Nat /\ v \in Nat \X Nat /\ b \in Nat \X Nat
  BY VersionsArePairs DEF Lineage
<1>2. \A w \in Lineage : ~Older(b, w)
  BY DEF Contiguous
<1>3. \A w \in Lineage : Older(w, v) /\ ~Older(v, w)
  <2> TAKE w \in Lineage
  <2>1. Older(w, v)
    BY <1>1, <1>2, NextFollows
  <2> QED  BY <1>1, <2>1, OlderIsAnOrder
<1>4. \A x, y \in Lineage \union {v} : Older(x, y) => NextMinor(x) \in Lineage \union {v}
  <2> SUFFICES ASSUME NEW x \in Lineage \union {v}, NEW y \in Lineage \union {v}, Older(x, y)
               PROVE  NextMinor(x) \in Lineage \union {v}
    OBVIOUS
  <2>1. x \in Lineage
    BY <1>1, <1>3, OlderIsAnOrder
  <2>2. CASE x = b
    BY <2>2
  <2>3. CASE x # b
    <3>1. Older(x, b)
      BY <1>1, <1>2, <2>1, <2>3, OlderIsAnOrder
    <3> QED  BY <2>1, <3>1 DEF Contiguous
  <2> QED  BY <2>2, <2>3
<1>5. \A w \in Lineage \union {v} : \E r \in Releases : ~Older(w, ReleaseVersion[r])
  <2>1. PICK r \in Releases : ~Older(b, ReleaseVersion[r])
    BY DEF Contiguous
  <2>2. ReleaseVersion[r] \in Nat \X Nat
    BY PackAssumption, VersionsArePairs
  <2>3. Older(ReleaseVersion[r], v)
    BY <1>1, <2>1, <2>2, NextFollows
  <2>4. ~Older(v, ReleaseVersion[r])
    BY <1>1, <2>2, <2>3, OlderIsAnOrder
  <2> QED  BY <2>4 DEF Contiguous
<1>6. Contiguous'
  BY <1>4, <1>5 DEF Contiguous
<1> QED  BY <1>2, <1>3, <1>6

\* What saving a version that is not there does to the lineage.
LEMMA SaveInserts ==
    ASSUME RowsOK, NEW base, NEW v \in Versions, NEW content, NEW by,
           v \notin Lineage, SavePackVersion(base, v, content, by)
    PROVE  /\ Lineage' = Lineage \union {v}
           /\ Active' = {v}
           /\ stubs' = stubs
           /\ definition' = [definition EXCEPT ![v] = content]
           /\ origin' = [origin EXCEPT ![v] = by]
<1>1. status[v] = "absent"
  BY DEF Lineage, RowsOK
<1>2. \A w \in Versions :
          status'[w] = IF w = v THEN "active"
                       ELSE IF status[w] = "active" THEN "superseded" ELSE status[w]
  BY DEF SavePackVersion, StatusAfter
<1>3. Lineage' = Lineage \union {v}
  BY <1>1, <1>2 DEF Lineage
<1>4. Active' = {v}
  BY <1>2 DEF Active
<1> QED  BY <1>3, <1>4 DEF SavePackVersion

\* What repeating a version does: it only retires the others.
LEMMA SaveRepeats ==
    ASSUME RowsOK, NEW base, NEW v \in Lineage, NEW by,
           SavePackVersion(base, v, definition[v], by)
    PROVE  /\ Lineage' = Lineage
           /\ Active' = Active \cap {v}
           /\ UNCHANGED <<stubs, definition, origin>>
<1>1. v \in Versions /\ status[v] # "absent"
  BY DEF Lineage
<1>2. \A w \in Versions :
          status'[w] = IF w = v THEN status[v]
                       ELSE IF status[w] = "active" THEN "superseded" ELSE status[w]
  BY DEF SavePackVersion, StatusAfter
<1>3. Lineage' = Lineage
  BY <1>2 DEF Lineage
<1>4. Active' = Active \cap {v}
  BY <1>2 DEF Active
<1>5. UNCHANGED <<stubs, definition, origin>>
  BY <1>1 DEF SavePackVersion, RowsOK
<1> QED  BY <1>3, <1>4, <1>5

\* The version a request saves is the next one after its base, and is there with the same
\* definition if it is there at all.
LEMMA SaveVersionSaves ==
    ASSUME IInv, NEW a \in Admins, SaveVersion(a)
    PROVE  /\ request[a].base \in Lineage
           /\ NextMinor(request[a].base) \in Versions
           /\ SavePackVersion(request[a].base, NextMinor(request[a].base),
                              request[a].content, "tenant")
           /\ NextMinor(request[a].base) \in Lineage =>
                 /\ NextMinor(request[a].base) \notin stubs
                 /\ definition[NextMinor(request[a].base)] = request[a].content
<1>1. request[a].base \in Lineage
  BY DEF SaveVersion, Accepts
<1>2. NextMinor(request[a].base) \in Versions
  BY <1>1, NextMinorTyped DEF SaveVersion, Lineage
<1> QED  BY <1>1, <1>2 DEF SaveVersion, Accepts


\* An upgrade prolongs the lineage, when releases follow one another.
LEMMA UpgradeFollows ==
    ASSUME RowsOK, CatalogOK, ReleasesFollow, NEW r \in Releases, Upgrade(r)
    PROVE  \E b \in Active :
               /\ Older(b, ReleaseVersion[r])
               /\ ReleaseVersion[r] = NextMinor(b)
               /\ ReleaseVersion[r] \in Versions \ Lineage
               /\ SavePackVersion(b, ReleaseVersion[r], ReleaseContent[r], "catalog")
<1>1. PICK b \in Versions :
          /\ Upgradable(b, r)
          /\ SavePackVersion(b, ReleaseVersion[r], ReleaseContent[r], "catalog")
  BY DEF Upgrade
<1>2. b \in Active /\ b \in Lineage /\ origin[b] = "catalog" /\ Older(b, ReleaseVersion[r])
  BY <1>1 DEF Upgradable, Active, Lineage
<1>3. PICK s \in Releases : b = ReleaseVersion[s]
  BY <1>2 DEF CatalogOK
<1>4. ReleaseVersion[r] = NextMinor(b)
  BY <1>2, <1>3 DEF ReleasesFollow
<1>5. ReleaseVersion[r] \in Versions \ Lineage
  BY PackAssumption DEF Upgrade
<1> QED  BY <1>1, <1>2, <1>4, <1>5

\* A version of the lineage's next number prolongs it soundly, whoever saves it.
LEMMA InsertKeepsLineage ==
    ASSUME RowsOK, LineageInv, NEW b \in Lineage, NEW v \in Versions, v = NextMinor(b),
           v \notin Lineage, NEW content, NEW by,
           SavePackVersion(b, v, content, by),
           by = "catalog" => \E r \in Releases : v = ReleaseVersion[r]
    PROVE  LineageInv' /\ Forward
<1>1. /\ Lineage' = Lineage \union {v} /\ Active' = {v} /\ stubs' = stubs
      /\ origin' = [origin EXCEPT ![v] = by]
  BY SaveInserts
<1>2. Contiguous' /\ \A w \in Lineage : ~Older(v, w)
  BY <1>1, LineageGrows DEF LineageInv
<1>3. Forward
  BY <1>1, <1>2 DEF Forward, Active, Lineage
<1>4. \A w \in Lineage : origin'[w] = origin[w]
  BY <1>1 DEF RowsOK, Lineage
<1>5. origin'[v] = by
  BY <1>1 DEF RowsOK
<1>6. CatalogOK'
  <2>1. \A w \in Lineage \union {v} :
            origin'[w] = "catalog" => \E r \in Releases : w = ReleaseVersion[r]
    BY <1>4, <1>5 DEF LineageInv, CatalogOK
  <2>2. \A w \in stubs : origin'[w] = "catalog" /\ \A r \in Releases : ~Older(ReleaseVersion[r], w)
    BY <1>4 DEF LineageInv, CatalogOK, RowsOK
  <2> QED  BY <1>1, <2>1, <2>2 DEF CatalogOK
<1> QED  BY <1>2, <1>3, <1>6 DEF LineageInv

\* An unchanged or shrinking set of active versions does not move backwards.
LEMMA StandingStill ==
    ASSUME RowsOK, Active' \subseteq Active
    PROVE  Forward
<1> SUFFICES ASSUME NEW v \in Active, NEW w \in Active'
             PROVE  ~Older(w, v)
  BY DEF Forward
<1>1. v = w /\ v \in Nat \X Nat
  BY VersionsArePairs DEF RowsOK, AtMostOneActive, Active
<1> QED  BY <1>1, OlderIsAnOrder

LEMMA LineageUntouched ==
    ASSUME RowsOK, LineageInv, UNCHANGED lineageVars
    PROVE  LineageInv' /\ Forward
<1>1. Active' = Active /\ Lineage' = Lineage /\ stubs' = stubs /\ origin' = origin
  BY DEF lineageVars, Active, Lineage
<1>2. LineageInv'
  BY <1>1 DEF LineageInv, CatalogOK, Contiguous
<1> QED  BY <1>1, <1>2, StandingStill

LEMMA SeedKeepsLineage ==
    ASSUME RowsOK, LineageInv, ReleasesFollow, NEW r \in Releases, StartInstance(r)
    PROVE  LineageInv' /\ Forward
<1>1. ReleaseVersion[r] \in Versions
  BY PackAssumption
<1>2. CASE Install(r)
  <2>1. \A w \in Versions : status[w] = "absent"
    BY <1>2 DEF Install, Lineage
  <2>2. Lineage' = {ReleaseVersion[r]}
    BY <1>1, <1>2, <2>1 DEF Install, Lineage, RowsOK
  <2>3. Active = {} /\ stubs' = {}
    BY <1>2, <2>1 DEF Install, Active, RowsOK
  <2>4. ~Older(ReleaseVersion[r], ReleaseVersion[r])
    BY <1>1, VersionsArePairs, OlderIsAnOrder
  <2>5. CatalogOK' /\ Contiguous'
    BY <2>2, <2>3, <2>4 DEF CatalogOK, Contiguous
  <2> QED  BY <2>3, <2>5 DEF LineageInv, Forward
<1>3. CASE ReplaceStub(r)
  <2>1. stubs' \subseteq stubs /\ origin' = origin /\ status' = status
    BY <1>3 DEF ReplaceStub
  <2>2. Lineage' = Lineage /\ Active' = Active
    BY <2>1 DEF Lineage, Active
  <2>3. LineageInv'
    BY <2>1, <2>2 DEF LineageInv, CatalogOK, Contiguous
  <2> QED  BY <2>2, <2>3, StandingStill
<1>4. CASE Upgrade(r)
  <2>1. PICK b \in Active :
            /\ ReleaseVersion[r] = NextMinor(b)
            /\ ReleaseVersion[r] \notin Lineage
            /\ SavePackVersion(b, ReleaseVersion[r], ReleaseContent[r], "catalog")
    BY <1>4, UpgradeFollows DEF LineageInv
  <2>2. b \in Lineage
    BY DEF Active, Lineage
  <2> QED  BY <1>1, <2>1, <2>2, InsertKeepsLineage
<1>5. CASE Keep(r)
  BY <1>5, LineageUntouched DEF Keep
<1> QED  BY <1>2, <1>3, <1>4, <1>5 DEF StartInstance

LEMMA SaveKeepsLineage ==
    ASSUME IInv, LineageInv, NEW a \in Admins, SaveVersion(a)
    PROVE  LineageInv' /\ Forward
<1>1. PICK b \in Lineage, v \in Versions, content \in {request[a].content} :
          /\ v = NextMinor(b)
          /\ SavePackVersion(b, v, content, "tenant")
          /\ v \in Lineage => definition[v] = content
  BY SaveVersionSaves
<1>2. RowsOK
  BY IInvParts
<1>3. CASE v \notin Lineage
  BY <1>1, <1>2, <1>3, InsertKeepsLineage
<1>4. CASE v \in Lineage
  <2>1. Lineage' = Lineage /\ Active' \subseteq Active /\ stubs' = stubs /\ origin' = origin
    BY <1>1, <1>2, <1>4, SaveRepeats
  <2>2. LineageInv'
    BY <2>1 DEF LineageInv, CatalogOK, Contiguous
  <2> QED  BY <1>2, <2>1, <2>2, StandingStill
<1> QED  BY <1>3, <1>4

\* Every other step leaves the lineage alone.
LEMMA LineageSteps ==
    ASSUME Next
    PROVE  \/ \E r \in Releases : StartInstance(r)
           \/ \E a \in Admins : SaveVersion(a)
           \/ UNCHANGED lineageVars
BY DEF Next, Serve, RederiveProposal, ReadProposal, CreateCollection, ReadActivePack,
       SaveRefused, MarkProposal, CrashRequest

LEMMA LineageStep ==
    ASSUME IInv, LineageInv, ReleasesFollow, [Next]_vars
    PROVE  LineageInv' /\ Forward
<1>1. RowsOK
  BY IInvParts
<1>2. CASE UNCHANGED lineageVars
  BY <1>1, <1>2, LineageUntouched
<1>3. CASE Next
  BY <1>1, <1>2, <1>3, LineageSteps, SeedKeepsLineage, SaveKeepsLineage
<1>4. CASE UNCHANGED vars
  BY <1>2, <1>4 DEF vars, lineageVars
<1> QED  BY <1>3, <1>4

LEMMA LineageStart ==
    ASSUME Init
    PROVE  LineageInv
<1>1. PICK old \in {{}} \union {{ReleaseVersion[r]} : r \in FirstReleases} :
          /\ status = [v \in Versions |-> IF v \in old THEN "active" ELSE "absent"]
          /\ stubs = old
  BY DEF Init
<1>2. Lineage = old /\ \A v \in Versions : origin[v] = "catalog"
  <2>1. old \subseteq Versions
    BY PackAssumption DEF FirstReleases
  <2> QED  BY <1>1, <2>1 DEF Init, Lineage
<1>3. CASE old = {}
  BY <1>1, <1>2, <1>3 DEF LineageInv, CatalogOK, Contiguous
<1>4. CASE old # {}
  <2>1. PICK r \in FirstReleases : old = {ReleaseVersion[r]}
    BY <1>4
  <2>2. /\ r \in Releases /\ ReleaseVersion[r] \in Versions
        /\ \A s \in Releases : ~Older(ReleaseVersion[s], ReleaseVersion[r])
    BY PackAssumption DEF FirstReleases
  <2>3. CatalogOK
    BY <1>1, <1>2, <2>1, <2>2 DEF CatalogOK
  <2>4. Contiguous
    BY <1>2, <2>1, <2>2 DEF Contiguous
  <2> QED  BY <2>3, <2>4 DEF LineageInv
<1> QED  BY <1>3, <1>4

THEOREM LineageSound ==
    ASSUME ReleasesFollow
    PROVE  Spec => []LineageInv
<1>1. Init => LineageInv
  BY LineageStart
<1>2. IInv /\ LineageInv /\ [Next]_vars => LineageInv'
  BY LineageStep
<1> QED  BY <1>1, <1>2, Invariant, PTL DEF Spec

\* A tenant's pack never moves back to an older version, as long as each release is the next
\* minor version of the one before.
THEOREM MovesForward ==
    ASSUME ReleasesFollow
    PROVE  Spec => NeverBackwards
<1>1. IInv /\ LineageInv /\ [Next]_vars =>
          [\A v \in Active, w \in Active' : ~Older(w, v)]_vars
  BY LineageStep DEF Forward
<1>2. Spec => [][\A v \in Active, w \in Active' : ~Older(w, v)]_vars
  BY <1>1, Invariant, LineageSound, PTL DEF Spec
<1> QED  BY <1>2 DEF NeverBackwards


-----------------------------------------------------------------------------
(* Approvals.  A request holds the definition it read, with its own element *)
(* added; it is saved as the next version of the same base, and that is a   *)
(* new version only if nothing came between.                                *)

\* There is an active version once there is any, and none is newer.
NewestActive ==
    /\ Lineage # {} => Active # {}
    /\ \A v \in Active, w \in Lineage : ~Older(v, w)

\* An instance fills in or upgrades a stub before it serves anybody.
Filled ==
    /\ serving # {} => Lineage # {} /\ Active \cap stubs = {}
    /\ serving = {} => /\ Lineage = stubs
                       /\ \A a \in Admins : request[a].step = "idle"

\* An element is in the active version, which no release will replace.
Live(e) ==
    \E v \in Active \ stubs :
        /\ e \in definition[v]
        /\ \A r \in Releases : ~Older(v, ReleaseVersion[r])

\* What is approved, or about to be, is live.
ApprovedLive ==
    /\ \A p \in Proposals : proposal[p] = "approved" => Live(ElementOf[p])
    /\ \A a \in Admins :
          request[a].step = "marking" /\ request[a].task[2] = "approved" =>
              Live(ElementOf[request[a].task[3]])

\* What a request is about to save is what its base holds and the element of its subject,
\* which only an alias may have found there.
SavingFits(asked) ==
    /\ asked.base \in Lineage \ stubs
    /\ asked.content = definition[asked.base] \union {ElementOf[asked.task[3]]}
    /\ \/ asked.task[3] \in Proposals \ NewFields
       \/ ElementOf[asked.task[3]] \notin definition[asked.base]

SavingOK == \A a \in Admins : request[a].step = "saving" => SavingFits(request[a])

ApprovalInv == NewestActive /\ Filled /\ ApprovedLive /\ SavingOK

\* A request is saved as a version that is there already, with the same definition, and was
\* retired.
RepeatsSuperseded == \E a \in Admins :
    SaveVersion(a) /\ status[NextMinor(request[a].base)] = "superseded"

\* Everything a request may read or save is about rows: while they stay, what was live stays.
LEMMA LiveUntouched ==
    ASSUME UNCHANGED lineageVars, NEW e
    PROVE  Live(e) <=> Live(e)'
BY DEF Live, lineageVars, Active

LEMMA RowsStay ==
    ASSUME ApprovalInv, UNCHANGED lineageVars
    PROVE  /\ NewestActive'
           /\ Lineage' = Lineage /\ Active' = Active
           /\ \A asked \in Requests : SavingFits(asked) => SavingFits(asked)'
<1>1. Lineage' = Lineage /\ Active' = Active /\ UNCHANGED <<definition, stubs>>
  BY DEF lineageVars, Lineage, Active
<1>2. \A asked \in Requests : SavingFits(asked) => SavingFits(asked)'
  BY <1>1 DEF SavingFits
<1>3. NewestActive'
  BY <1>1 DEF ApprovalInv, NewestActive
<1> QED  BY <1>1, <1>2, <1>3

\* A step of one request that leaves the rows and the proposals alone: all depends on what it
\* makes of the request.
LEMMA RequestMoves ==
    ASSUME IInv, ApprovalInv, UNCHANGED <<lineageVars, proposal, serving>>,
           NEW a \in Admins, NEW next \in Requests,
           request' = [request EXCEPT ![a] = next],
           serving = {} => next.step = "idle",
           next.step = "saving" => SavingFits(next),
           next.step = "marking" => next.task[2] # "approved"
    PROVE  ApprovalInv'
<1>1. request \in [Admins -> Requests]
  BY DEF IInv, TypeOK
<1>2. \A b \in Admins : request'[b] = IF b = a THEN next ELSE request[b]
  BY <1>1
<1>3. UNCHANGED lineageVars
  OBVIOUS
<1>4. NewestActive' /\ Lineage' = Lineage /\ Active' = Active
  BY <1>3, RowsStay
<1>5. Filled'
  <2>1. stubs' = stubs /\ serving' = serving
    BY DEF lineageVars
  <2> QED  BY <1>2, <1>4, <2>1 DEF ApprovalInv, Filled
<1>6. ApprovedLive'
  <2>1. \A p \in Proposals : proposal'[p] = "approved" => Live(ElementOf[p])'
    BY <1>3, LiveUntouched DEF ApprovalInv, ApprovedLive
  <2>2. ASSUME NEW b \in Admins, request'[b].step = "marking", request'[b].task[2] = "approved"
        PROVE  Live(ElementOf[request[b].task[3]])'
    <3>1. b # a /\ request'[b] = request[b]
      BY <1>2, <2>2
    <3>2. Live(ElementOf[request[b].task[3]])
      BY <2>2, <3>1 DEF ApprovalInv, ApprovedLive
    <3>3. PICK e : e = ElementOf[request[b].task[3]]
      OBVIOUS
    <3>4. Live(e)'
      BY <1>3, <3>2, <3>3, LiveUntouched
    <3>5. e = ElementOf[request'[b].task[3]]
      BY <3>1, <3>3
    <3> QED  BY <3>4, <3>5 DEF Live
  <2> QED  BY <2>1, <2>2 DEF ApprovedLive
<1>7. SavingOK'
  <2> SUFFICES ASSUME NEW b \in Admins, request'[b].step = "saving"
               PROVE  SavingFits(request[b])'
    BY DEF SavingOK
  <2>1. request'[b] \in Requests /\ SavingFits(request'[b])
    BY <1>1, <1>2 DEF ApprovalInv, SavingOK
  <2>2. PICK asked \in Requests : asked = request'[b]
    BY <2>1
  <2>3. SavingFits(asked)'
    BY <1>3, <2>1, <2>2, RowsStay
  <2> QED  BY <2>2, <2>3 DEF SavingFits
<1> QED  BY <1>4, <1>5, <1>6, <1>7 DEF ApprovalInv

\* Whoever is served reads the active version of the lineage.
LEMMA WhatIsRead ==
    ASSUME IInv, ApprovalInv, NEW pack \in ActivePacks
    PROVE  \E v \in Active \ stubs : pack = [version |-> v, content |-> definition[v]]
<1>1. serving # {}
  <2>1. CASE serving = {}
    <3>1. Active \ stubs = {}
      BY <2>1 DEF ApprovalInv, Filled, Active, Lineage
    <3> QED  BY <2>1, <3>1 DEF ActivePacks
  <2> QED  BY <2>1
<1>2. Active # {} /\ Active \ stubs = Active
  BY <1>1 DEF ApprovalInv, Filled, NewestActive
<1> QED  BY <1>2 DEF ActivePacks

\* The request that is built on it fits.
LEMMA SavingKeepsApprovals ==
    ASSUME IInv, ApprovalInv, UNCHANGED <<lineageVars, proposal, serving>>,
           NEW a \in Admins, NEW pack \in ActivePacks, NEW task \in Tasks,
           task[3] \in Proposals \ NewFields \/ ElementOf[task[3]] \notin pack.content,
           Saving(a, pack, task)
    PROVE  ApprovalInv'
<1>1. PICK v \in Active \ stubs : pack = [version |-> v, content |-> definition[v]]
  BY WhatIsRead
<1>2. PICK next : next = [step |-> "saving", task |-> task, base |-> v,
                          content |-> definition[v] \union {ElementOf[task[3]]}]
  OBVIOUS
<1>3. /\ next.step = "saving" /\ next.task = task /\ next.base = v
      /\ next.content = definition[v] \union {ElementOf[task[3]]}
  BY <1>2
<1>4. request' = [request EXCEPT ![a] = next]
  BY <1>1, <1>2 DEF Saving
<1>5. next \in Requests
  <2>1. pack.version \in Nat \X Nat /\ pack.content \in SUBSET Elements
    BY ActivePacksTyped DEF IInv
  <2>2. ElementOf[task[3]] \in Elements
    BY TasksTyped
  <2> QED  BY <1>1, <1>2, <2>1, <2>2 DEF Requests
<1>6. v \in Lineage \ stubs
  BY DEF Active, Lineage
<1>7. SavingFits(next)
  BY <1>1, <1>3, <1>6 DEF SavingFits
<1>8. serving # {}
  BY <1>6 DEF ApprovalInv, Filled
<1> QED  BY <1>3, <1>4, <1>5, <1>7, <1>8, RequestMoves


\* A request that is refused, given up or has died.
LEMMA EndKeepsApprovals ==
    ASSUME IInv, ApprovalInv, UNCHANGED <<lineageVars, proposal, serving>>,
           NEW a \in Admins, request' = [request EXCEPT ![a] = Idle]
    PROVE  ApprovalInv'
<1>1. Idle \in Requests /\ Idle.step = "idle"
  BY IdleTyped
<1> QED  BY <1>1, RequestMoves

LEMMA ReadProposalKeepsApprovals ==
    ASSUME IInv, ApprovalInv, NEW a \in Admins, NEW p \in Proposals,
           NEW verdict \in {"approved", "rejected"}, ReadProposal(a, p, verdict)
    PROVE  ApprovalInv'
<1>1. PICK next : next = [Idle EXCEPT
              !.step = IF verdict = "approved" THEN "reading" ELSE "marking",
              !.task = <<a, verdict, p>>]
  OBVIOUS
<1>2. /\ next \in Requests
      /\ next.step = IF verdict = "approved" THEN "reading" ELSE "marking"
      /\ next.task[2] = verdict
  BY <1>1 DEF Idle, Requests, NoVersion, ReadProposal
<1>3. /\ UNCHANGED <<lineageVars, proposal, serving>> /\ serving # {}
      /\ request' = [request EXCEPT ![a] = next]
  BY <1>1 DEF ReadProposal
<1> QED  BY <1>2, <1>3, RequestMoves

LEMMA ReadActivePackKeepsApprovals ==
    ASSUME IInv, ApprovalInv, NEW a \in Admins, ReadActivePack(a)
    PROVE  ApprovalInv'
<1>1. /\ request[a].task \in Tasks /\ request[a].task[2] = "approved"
      /\ UNCHANGED <<lineageVars, proposal, serving>>
  BY DEF ReadActivePack, IInv, TypeOK, StepsMatchTasks
<1>2. PICK pack \in ActivePacks :
          IF Applies(Subject(a), pack.content)
          THEN Saving(a, pack, request[a].task)
          ELSE request' = [request EXCEPT ![a] = Idle]
  BY DEF ReadActivePack
<1>3. CASE ~Applies(Subject(a), pack.content)
  BY <1>1, <1>2, <1>3, EndKeepsApprovals
<1>4. CASE Applies(Subject(a), pack.content)
  <2>1. request[a].task[3] \in Proposals
    BY <1>1, TasksTyped
  <2>2. \/ request[a].task[3] \in Proposals \ NewFields
        \/ ElementOf[request[a].task[3]] \notin pack.content
    BY <1>4, <2>1 DEF Applies, Subject
  <2> QED  BY <1>1, <1>2, <1>4, <2>2, SavingKeepsApprovals
<1> QED  BY <1>3, <1>4

LEMMA CreateCollectionKeepsApprovals ==
    ASSUME IInv, ApprovalInv, NEW a \in Admins, NEW c \in Collections, CreateCollection(a, c)
    PROVE  ApprovalInv'
<1>1. PICK pack \in ActivePacks :
          ElementOf[c] \notin pack.content /\ Saving(a, pack, <<a, "created", c>>)
  BY DEF CreateCollection
<1>2. PICK task \in Tasks : task = <<a, "created", c>>
  BY DEF CreateCollection
<1>3. task[3] = c /\ UNCHANGED <<lineageVars, proposal, serving>>
  BY <1>2 DEF CreateCollection
<1> QED  BY <1>1, <1>2, <1>3, SavingKeepsApprovals

\* A review marks what is live: a mark that comes too late changes nothing.
LEMMA MarkProposalKeepsApprovals ==
    ASSUME IInv, ApprovalInv, NEW a \in Admins, MarkProposal(a)
    PROVE  ApprovalInv'
<1>1. UNCHANGED lineageVars /\ serving' = serving /\ request' = [request EXCEPT ![a] = Idle]
  BY DEF MarkProposal
<1>2. \A b \in Admins : request'[b] = IF b = a THEN Idle ELSE request[b]
  BY <1>1 DEF IInv, TypeOK
<1>3. NewestActive' /\ Lineage' = Lineage /\ Active' = Active /\ stubs' = stubs
      /\ definition' = definition
  BY <1>1, RowsStay DEF lineageVars
<1>4. Idle.step = "idle"
  BY IdleTyped
<1>5. Filled'
  BY <1>1, <1>2, <1>3, <1>4 DEF ApprovalInv, Filled
<1>6. SavingOK'
  BY <1>2, <1>3, <1>4 DEF ApprovalInv, SavingOK, SavingFits
<1>7. ApprovedLive'
  <2>1. ASSUME NEW p \in Proposals, proposal'[p] = "approved"
        PROVE  Live(ElementOf[p])'
    <3>1. CASE proposal[p] = "approved"
      BY <1>1, <3>1, LiveUntouched DEF ApprovalInv, ApprovedLive
    <3>2. CASE proposal[p] # "approved"
      <4>1. p = Subject(a) /\ Verdict(a) = "approved"
        BY <2>1, <3>2 DEF MarkProposal, IInv, TypeOK
      <4>2. Live(ElementOf[p])
        BY <4>1 DEF ApprovalInv, ApprovedLive, Subject, Verdict, MarkProposal
      <4> QED  BY <1>1, <4>2, LiveUntouched
    <3> QED  BY <3>1, <3>2
  <2>2. ASSUME NEW b \in Admins, request'[b].step = "marking", request'[b].task[2] = "approved"
        PROVE  Live(ElementOf[request[b].task[3]])'
    <3>1. b # a /\ request'[b] = request[b]
      BY <1>2, <1>4, <2>2
    <3>2. Live(ElementOf[request[b].task[3]])
      BY <2>2, <3>1 DEF ApprovalInv, ApprovedLive
    <3>3. PICK e : e = ElementOf[request[b].task[3]]
      OBVIOUS
    <3>4. Live(e)'
      BY <1>1, <3>2, <3>3, LiveUntouched
    <3>5. e = ElementOf[request'[b].task[3]]
      BY <3>1, <3>3
    <3> QED  BY <3>4, <3>5 DEF Live
  <2> QED  BY <2>1, <2>2 DEF ApprovedLive
<1> QED  BY <1>3, <1>5, <1>6, <1>7 DEF ApprovalInv

\* The worker rewrites only what nobody reviewed.
LEMMA RederiveKeepsApprovals ==
    ASSUME IInv, ApprovalInv, NEW p \in Proposals, RederiveProposal(p)
    PROVE  ApprovalInv'
<1>1. /\ UNCHANGED lineageVars /\ serving' = serving /\ request' = request
      /\ UNCHANGED <<definition, stubs>>
  BY DEF RederiveProposal, lineageVars
<1>2. NewestActive' /\ Lineage' = Lineage /\ Active' = Active
  BY <1>1, RowsStay
<1>3. Filled' /\ SavingOK'
  BY <1>1, <1>2 DEF ApprovalInv, Filled, SavingOK, SavingFits
<1>4. \A q \in Proposals : proposal'[q] = "approved" => proposal[q] = "approved"
  BY DEF RederiveProposal, IInv, TypeOK
<1>5. ApprovedLive'
  BY <1>1, <1>2, <1>4 DEF ApprovalInv, ApprovedLive, Live
<1> QED  BY <1>2, <1>3, <1>5 DEF ApprovalInv


\* No release is newer than the version after one of the lineage, for that is no older than the
\* first release and there is only one after it.
LEMMA BeyondReleases ==
    ASSUME Contiguous, ReleasesFollow, NEW b \in Lineage, NEW r \in Releases
    PROVE  ~Older(NextMinor(b), ReleaseVersion[r])
<1>1. PICK s \in Releases : ~Older(b, ReleaseVersion[s])
  BY DEF Contiguous
<1>2. {b, ReleaseVersion[r], ReleaseVersion[s]} \subseteq Nat \X Nat
  BY PackAssumption, VersionsArePairs DEF Lineage
<1>3. /\ NextMinor(b) \in Nat \X Nat
      /\ ~Older(NextMinor(b), NextMinor(ReleaseVersion[s]))
      /\ Older(ReleaseVersion[s], NextMinor(b))
  BY <1>1, <1>2, NextFollows
<1>4. CASE Older(ReleaseVersion[s], ReleaseVersion[r])
  BY <1>3, <1>4 DEF ReleasesFollow
<1>5. CASE ~Older(ReleaseVersion[s], ReleaseVersion[r])
  <2>1. ReleaseVersion[r] = ReleaseVersion[s] \/ Older(ReleaseVersion[r], ReleaseVersion[s])
    BY <1>2, <1>5, OlderIsAnOrder
  <2>2. Older(ReleaseVersion[r], NextMinor(b))
    BY <1>2, <1>3, <2>1, OlderIsAnOrder
  <2> QED  BY <1>2, <1>3, <2>2, OlderIsAnOrder
<1> QED  BY <1>4, <1>5

\* A new version is built on the active one, holds it, and is beyond every release.
LEMMA GrownApprovals ==
    ASSUME IInv, LineageInv, ApprovalInv, ReleasesFollow,
           NEW b \in Lineage, NEW v \in Versions, v = NextMinor(b), v \notin Lineage,
           NEW content, NEW by, SavePackVersion(b, v, content, by)
    PROVE  /\ NewestActive'
           /\ Lineage' # {} /\ Active' \cap stubs' = {}
           /\ \A asked \in Requests : SavingFits(asked) => SavingFits(asked)'
           /\ \A e \in content : Live(e)'
           /\ definition[b] \subseteq content => \A e : Live(e) => Live(e)'
<1>1. RowsOK
  BY IInvParts
<1>2. /\ Lineage' = Lineage \union {v} /\ Active' = {v} /\ stubs' = stubs
      /\ definition' = [definition EXCEPT ![v] = content]
  BY <1>1, SaveInserts
<1>3. /\ \A w \in Lineage : ~Older(b, w)
      /\ \A w \in Lineage : Older(w, v) /\ ~Older(v, w)
  BY <1>1, <1>2, LineageGrows DEF LineageInv
<1>4. v \in Nat \X Nat /\ Lineage \subseteq Nat \X Nat /\ Active \subseteq Lineage
  BY VersionsArePairs DEF Lineage, Active
<1>5. Active = {b}
  <2>1. PICK w \in Active : TRUE
    BY DEF ApprovalInv, NewestActive
  <2>2. ~Older(w, b) /\ ~Older(b, w)
    BY <1>3, <1>4 DEF ApprovalInv, NewestActive
  <2>3. w = b
    BY <1>4, <2>2, OlderIsAnOrder
  <2> QED  BY <1>1, <2>3 DEF RowsOK, AtMostOneActive
<1>6. NewestActive'
  <2>1. ~Older(v, v)
    BY <1>4, OlderIsAnOrder
  <2> QED  BY <1>2, <1>3, <2>1 DEF NewestActive
<1>7. v \notin stubs
  BY <1>1 DEF RowsOK
<1>8. definition'[v] = content /\ \A w \in Lineage : definition'[w] = definition[w]
  BY <1>1, <1>2 DEF RowsOK, Lineage
<1>9. \A asked \in Requests : SavingFits(asked) => SavingFits(asked)'
  BY <1>2, <1>8 DEF SavingFits
<1>10. \A r \in Releases : ~Older(v, ReleaseVersion[r])
  BY BeyondReleases DEF LineageInv
<1>11. \A e \in content : Live(e)'
  BY <1>2, <1>7, <1>8, <1>10 DEF Live
<1>12. definition[b] \subseteq content => \A e : Live(e) => Live(e)'
  BY <1>5, <1>11 DEF Live
<1> QED  BY <1>2, <1>6, <1>7, <1>9, <1>11, <1>12

\* What a request saved is live when it goes on to mark its proposal.
LEMMA SaveKeepsApprovals ==
    ASSUME IInv, LineageInv, ApprovalInv, ReleasesFollow, ~RepeatsSuperseded,
           NEW a \in Admins, SaveVersion(a)
    PROVE  ApprovalInv'
<1>1. PICK b \in Lineage, v \in Versions, content \in {request[a].content} :
          /\ b = request[a].base /\ v = NextMinor(b)
          /\ SavePackVersion(b, v, content, "tenant")
          /\ v \in Lineage => v \notin stubs /\ definition[v] = content
  BY SaveVersionSaves
<1>2. RowsOK /\ request \in [Admins -> Requests] /\ request[a].step = "saving"
  BY IInvParts DEF IInv, TypeOK, SaveVersion
<1>3. SavingFits(request[a])
  BY <1>2 DEF ApprovalInv, SavingOK
<1>4. /\ definition[b] \subseteq content
      /\ ElementOf[request[a].task[3]] \in content
      /\ serving # {}
  BY <1>1, <1>2, <1>3 DEF SavingFits, ApprovalInv, Filled
<1>5. /\ NewestActive'
      /\ Lineage' # {} /\ Active' \cap stubs' = {}
      /\ \A asked \in Requests : SavingFits(asked) => SavingFits(asked)'
      /\ \A e \in content : Live(e)'
      /\ \A e : Live(e) => Live(e)'
  <2>1. CASE v \notin Lineage
    BY <1>1, <1>4, <2>1, GrownApprovals
  <2>2. CASE v \in Lineage
    <3>1. status[v] = "active"
      BY <1>1, <1>2, <2>2 DEF RepeatsSuperseded, RowsOK, Lineage
    <3>2. Active = {v}
      BY <1>2, <3>1 DEF RowsOK, AtMostOneActive, Active
    <3>3. /\ Lineage' = Lineage /\ Active' = Active
          /\ UNCHANGED <<stubs, definition, origin>>
      <4>1. SavePackVersion(b, v, definition[v], "tenant")
        BY <1>1, <2>2
      <4> QED  BY <1>2, <2>2, <3>2, <4>1, SaveRepeats
    <3>4. \A e : Live(e) => Live(e)'
      BY <3>3 DEF Live
    <3>5. \A r \in Releases : ~Older(v, ReleaseVersion[r])
      BY <1>1, BeyondReleases DEF LineageInv
    <3>6. \A e \in content : Live(e)'
      BY <1>1, <2>2, <3>2, <3>3, <3>5 DEF Live
    <3>7. NewestActive'
      BY <3>3 DEF ApprovalInv, NewestActive
    <3>8. \A asked \in Requests : SavingFits(asked) => SavingFits(asked)'
      BY <3>3 DEF SavingFits
    <3> QED  BY <1>4, <2>2, <3>3, <3>4, <3>6, <3>7, <3>8 DEF ApprovalInv, Filled
  <2> QED  BY <2>1, <2>2
<1>6. proposal' = proposal /\ serving' = serving
  BY DEF SaveVersion
<1>7. \A d \in Admins \ {a} : request'[d] = request[d]
  BY <1>2 DEF SaveVersion
<1>8. request'[a] = Idle \/ request'[a] = [Idle EXCEPT !.step = "marking", !.task = request[a].task]
  BY <1>2 DEF SaveVersion
<1>9. /\ request'[a].step \in {"idle", "marking"}
      /\ request'[a].step = "marking" => request'[a].task = request[a].task
  <2>1. CASE request'[a] = Idle
    BY <2>1 DEF Idle
  <2>2. CASE request'[a] = [Idle EXCEPT !.step = "marking", !.task = request[a].task]
    BY <2>2 DEF Idle
  <2> QED  BY <1>8, <2>1, <2>2
<1>10. Filled'
  BY <1>4, <1>5, <1>6 DEF Filled
<1>11. SavingOK'
  <2> SUFFICES ASSUME NEW d \in Admins, request'[d].step = "saving"
               PROVE  SavingFits(request[d])'
    BY DEF SavingOK
  <2>1. d # a /\ request'[d] = request[d] /\ SavingFits(request[d])
    BY <1>7, <1>9 DEF ApprovalInv, SavingOK
  <2>2. PICK asked \in Requests : asked = request[d]
    BY <1>2
  <2>3. SavingFits(asked)'
    BY <1>5, <2>1, <2>2
  <2> QED  BY <2>1, <2>2, <2>3 DEF SavingFits
<1>12. ApprovedLive'
  <2>1. \A p \in Proposals : proposal'[p] = "approved" => Live(ElementOf[p])'
    BY <1>5, <1>6 DEF ApprovalInv, ApprovedLive
  <2>2. ASSUME NEW d \in Admins, request'[d].step = "marking", request'[d].task[2] = "approved"
        PROVE  Live(ElementOf[request[d].task[3]])'
    <3>1. request'[d].task = request[d].task
      BY <1>7, <1>9, <2>2
    <3>2. PICK e : e = ElementOf[request[d].task[3]]
      OBVIOUS
    <3>3. Live(e)'
      <4>1. CASE d = a
        BY <1>4, <1>5, <3>2, <4>1
      <4>2. CASE d # a
        <5>1. Live(e)
          BY <1>7, <2>2, <3>2, <4>2 DEF ApprovalInv, ApprovedLive
        <5> QED  BY <1>5, <5>1
      <4> QED  BY <4>1, <4>2
    <3>4. e = ElementOf[request'[d].task[3]]
      BY <3>1, <3>2
    <3> QED  BY <3>3, <3>4 DEF Live
  <2> QED  BY <2>1, <2>2 DEF ApprovedLive
<1> QED  BY <1>5, <1>10, <1>11, <1>12 DEF ApprovalInv


\* An instance that starts: it fills in a stub before anybody is served, and replaces a version
\* only before anything is approved.
LEMMA SeedKeepsApprovals ==
    ASSUME IInv, LineageInv, ApprovalInv, ReleasesFollow, NEW r \in Releases, StartInstance(r)
    PROVE  ApprovalInv'
<1>1. /\ RowsOK /\ ReleaseVersion[r] \in Versions
      /\ UNCHANGED <<proposal, request>> /\ serving' = serving \union {r}
      /\ request \in [Admins -> Requests]
  BY IInvParts, PackAssumption DEF StartInstance, IInv, TypeOK
<1>2. ASSUME NewestActive', Lineage' # {}, Active' \cap stubs' = {},
             \A asked \in Requests : SavingFits(asked) => SavingFits(asked)',
             \A e : Live(e) => Live(e)'
      PROVE  ApprovalInv'
  <2>1. Filled'
    BY <1>1, <1>2 DEF Filled
  <2>2. SavingOK'
    <3> SUFFICES ASSUME NEW a \in Admins, request'[a].step = "saving"
                 PROVE  SavingFits(request[a])'
      BY DEF SavingOK
    <3>1. PICK asked \in Requests : asked = request[a]
      BY <1>1
    <3>2. SavingFits(asked)'
      BY <1>1, <1>2, <3>1 DEF ApprovalInv, SavingOK
    <3> QED  BY <1>1, <3>1, <3>2 DEF SavingFits
  <2>3. ApprovedLive'
    <3>1. \A p \in Proposals : proposal'[p] = "approved" => Live(ElementOf[p])'
      BY <1>1, <1>2 DEF ApprovalInv, ApprovedLive
    <3>2. ASSUME NEW a \in Admins, request'[a].step = "marking", request'[a].task[2] = "approved"
          PROVE  Live(ElementOf[request[a].task[3]])'
      <4>1. PICK e : e = ElementOf[request[a].task[3]]
        OBVIOUS
      <4>2. Live(e)'
        BY <1>1, <1>2, <3>2, <4>1 DEF ApprovalInv, ApprovedLive
      <4> QED  BY <1>1, <4>1, <4>2 DEF Live
    <3> QED  BY <3>1, <3>2 DEF ApprovedLive
  <2> QED  BY <1>2, <2>1, <2>2, <2>3 DEF ApprovalInv
<1>3. CASE Install(r)
  <2>1. Lineage = {} /\ \A w \in Versions : status[w] = "absent"
    BY <1>3 DEF Install, Lineage
  <2>2. Lineage' = {ReleaseVersion[r]} /\ Active' = {ReleaseVersion[r]}
    BY <1>1, <1>3, <2>1 DEF Install, Lineage, Active, RowsOK
  <2>3. stubs' = {} /\ Active = {}
    BY <1>1, <1>3, <2>1 DEF Install, Active, RowsOK
  <2>4. NewestActive'
    <3>1. ~Older(ReleaseVersion[r], ReleaseVersion[r])
      BY <1>1, VersionsArePairs, OlderIsAnOrder
    <3> QED  BY <2>2, <3>1 DEF NewestActive
  <2>5. \A asked \in Requests : ~SavingFits(asked)
    BY <2>1 DEF SavingFits
  <2>6. \A e : ~Live(e)
    BY <2>3 DEF Live
  <2> QED  BY <1>2, <2>2, <2>3, <2>4, <2>5, <2>6
<1>4. CASE ReplaceStub(r)
  <2>1. /\ ReleaseVersion[r] \in Active \cap stubs
        /\ definition' = [definition EXCEPT ![ReleaseVersion[r]] = ReleaseContent[r]]
        /\ stubs' = stubs \ {ReleaseVersion[r]} /\ UNCHANGED <<status, origin>>
    BY <1>4 DEF ReplaceStub, ReplacesStub
  <2>2. Lineage' = Lineage /\ Active' = Active /\ Active = {ReleaseVersion[r]}
    BY <1>1, <2>1 DEF Lineage, Active, RowsOK, AtMostOneActive
  <2>3. NewestActive'
    BY <2>2 DEF ApprovalInv, NewestActive
  <2>4. serving = {}
    BY <2>1 DEF ApprovalInv, Filled
  <2>5. \A asked \in Requests : ~SavingFits(asked)
    BY <2>4 DEF ApprovalInv, Filled, SavingFits
  <2>6. \A e : ~Live(e)
    BY <2>1, <2>2 DEF Live
  <2>7. Lineage' # {} /\ Active' \cap stubs' = {}
    BY <2>1, <2>2 DEF Active, Lineage
  <2> QED  BY <1>2, <2>3, <2>5, <2>6, <2>7
<1>5. CASE Upgrade(r)
  <2>1. PICK b \in Active :
            /\ Older(b, ReleaseVersion[r])
            /\ ReleaseVersion[r] = NextMinor(b)
            /\ ReleaseVersion[r] \notin Lineage
            /\ SavePackVersion(b, ReleaseVersion[r], ReleaseContent[r], "catalog")
    BY <1>1, <1>5, UpgradeFollows DEF LineageInv
  <2>2. b \in Lineage
    BY DEF Active, Lineage
  <2>3. \A e : ~Live(e)
    BY <1>1, <2>1 DEF Live, RowsOK, AtMostOneActive
  <2>4. /\ NewestActive'
        /\ Lineage' # {} /\ Active' \cap stubs' = {}
        /\ \A asked \in Requests : SavingFits(asked) => SavingFits(asked)'
    BY <1>1, <2>1, <2>2, GrownApprovals
  <2> QED  BY <1>2, <2>3, <2>4
<1>6. CASE Keep(r)
  <2>1. UNCHANGED lineageVars /\ Lineage # {}
    BY <1>6 DEF Keep
  <2>2. /\ NewestActive' /\ Lineage' = Lineage /\ Active' = Active
        /\ \A asked \in Requests : SavingFits(asked) => SavingFits(asked)'
    BY <2>1, RowsStay
  <2>3. \A e : Live(e) => Live(e)'
    BY <2>1, LiveUntouched
  <2>4. Active' \cap stubs' = {}
    <3>1. CASE serving # {}
      BY <2>1, <2>2, <3>1 DEF ApprovalInv, Filled, lineageVars
    <3>2. CASE serving = {}
      <4> SUFFICES ASSUME NEW v \in Active \cap stubs
                   PROVE  FALSE
        BY <2>1, <2>2 DEF lineageVars
      <4>1. /\ Lineage = stubs /\ origin[v] = "catalog"
            /\ ~Older(ReleaseVersion[r], v)
        BY <3>2 DEF ApprovalInv, Filled, LineageInv, CatalogOK
      <4>2. v # ReleaseVersion[r]
        BY <1>6, <4>1 DEF Keep, ReplacesStub
      <4>3. Older(v, ReleaseVersion[r])
        <5>1. v \in Nat \X Nat /\ ReleaseVersion[r] \in Nat \X Nat
          BY <1>1, VersionsArePairs DEF Active
        <5> QED  BY <4>1, <4>2, <5>1, OlderIsAnOrder
      <4>4. ReleaseVersion[r] \in Lineage
        BY <1>6, <4>1, <4>3 DEF Keep, Upgradable
      <4>5. ~Older(v, ReleaseVersion[r])
        BY <4>4 DEF ApprovalInv, NewestActive
      <4> QED  BY <4>3, <4>5
    <3> QED  BY <3>1, <3>2
  <2> QED  BY <1>2, <2>1, <2>2, <2>3, <2>4
<1> QED  BY <1>3, <1>4, <1>5, <1>6 DEF StartInstance

LEMMA StutterKeepsApprovals ==
    ASSUME ApprovalInv, UNCHANGED vars
    PROVE  ApprovalInv'
<1>1. UNCHANGED lineageVars /\ UNCHANGED <<proposal, serving, request, definition, stubs>>
  BY DEF vars, lineageVars
<1>2. NewestActive' /\ Lineage' = Lineage /\ Active' = Active
  BY <1>1, RowsStay
<1> QED  BY <1>1, <1>2 DEF ApprovalInv, Filled, ApprovedLive, Live, SavingOK, SavingFits

\* One step keeps what is approved live, unless it repeats a superseded version.
LEMMA ApprovalStep ==
    ASSUME IInv, LineageInv, ApprovalInv, ReleasesFollow, [Next]_vars, ~RepeatsSuperseded
    PROVE  ApprovalInv'
<1>1. ASSUME NEW r \in Releases, StartInstance(r) PROVE ApprovalInv'
  BY <1>1, SeedKeepsApprovals
<1>2. ASSUME NEW p \in Proposals, RederiveProposal(p) PROVE ApprovalInv'
  BY <1>2, RederiveKeepsApprovals
<1>3. ASSUME NEW a \in Admins, NEW p \in Proposals,
             ReadProposal(a, p, "approved") \/ ReadProposal(a, p, "rejected")
      PROVE  ApprovalInv'
  BY <1>3, ReadProposalKeepsApprovals
<1>4. ASSUME NEW a \in Admins, NEW c \in Collections, CreateCollection(a, c) PROVE ApprovalInv'
  BY <1>4, CreateCollectionKeepsApprovals
<1>5. ASSUME NEW a \in Admins, SaveRefused(a) \/ CrashRequest(a) PROVE ApprovalInv'
  <2>1. /\ UNCHANGED <<lineageVars, proposal, serving>>
        /\ request' = [request EXCEPT ![a] = Idle]
    BY <1>5 DEF SaveRefused, CrashRequest
  <2> QED  BY <2>1, EndKeepsApprovals
<1>6. ASSUME NEW a \in Admins, Serve(a) PROVE ApprovalInv'
  BY <1>5, <1>6, ReadActivePackKeepsApprovals, SaveKeepsApprovals, MarkProposalKeepsApprovals
     DEF Serve
<1>7. CASE UNCHANGED vars
  BY <1>7, StutterKeepsApprovals
<1> QED  BY <1>1, <1>2, <1>3, <1>4, <1>5, <1>6, <1>7 DEF Next

LEMMA ApprovalStart ==
    ASSUME Init
    PROVE  ApprovalInv
<1>1. PICK old \in {{}} \union {{ReleaseVersion[r]} : r \in FirstReleases} :
          /\ status = [v \in Versions |-> IF v \in old THEN "active" ELSE "absent"]
          /\ stubs = old
  BY DEF Init
<1>2. old \subseteq Versions /\ \A v, w \in old : v = w
  BY PackAssumption DEF FirstReleases
<1>3. Lineage = old /\ Active = old
  BY <1>1, <1>2 DEF Lineage, Active
<1>4. NewestActive
  <2>1. \A v \in old : ~Older(v, v)
    BY <1>2, VersionsArePairs, OlderIsAnOrder
  <2> QED  BY <1>2, <1>3, <2>1 DEF NewestActive
<1>5. serving = {} /\ \A a \in Admins : request[a].step = "idle"
  BY IdleTyped DEF Init
<1>6. \A p \in Proposals : proposal[p] # "approved"
  BY DEF Init
<1> QED  BY <1>1, <1>3, <1>4, <1>5, <1>6 DEF ApprovalInv, Filled, ApprovedLive, SavingOK


LEMMA ApprovalsFollow ==
    ASSUME IInv, ApprovalInv
    PROVE  ApprovalsHold
<1>1. ActiveOnceInstalled
  BY DEF ApprovalInv, NewestActive, ActiveOnceInstalled
<1>2. ASSUME NEW p \in Proposals, proposal[p] = "approved", NEW pack \in ActivePacks
      PROVE  ElementOf[p] \in pack.content
  <2>1. PICK v \in Active \ stubs : ElementOf[p] \in definition[v]
    BY <1>2 DEF ApprovalInv, ApprovedLive, Live
  <2>2. PICK w \in Active \ stubs : pack = [version |-> w, content |-> definition[w]]
    BY <1>2, WhatIsRead
  <2>3. v = w
    BY DEF IInv, AtMostOneActive
  <2> QED  BY <2>1, <2>2, <2>3
<1> QED  BY <1>1, <1>2 DEF IInv, ApprovalsHold, ApprovedIsLive

\* There is one way only in which a tenant may lose its active version or something approved:
\* an approval that repeats, late, a version that was saved by somebody else and superseded.
THEOREM LostByRepeatsOnly ==
    ASSUME ReleasesFollow
    PROVE  Spec /\ [][~RepeatsSuperseded]_vars => []ApprovalsHold
<1>1. Init => ApprovalInv
  BY ApprovalStart
<1>2. IInv /\ LineageInv /\ ApprovalInv /\ [Next]_vars /\ [~RepeatsSuperseded]_vars => ApprovalInv'
  BY ApprovalStep, StutterKeepsApprovals
<1>3. IInv /\ ApprovalInv => ApprovalsHold
  BY ApprovalsFollow
<1> QED  BY <1>1, <1>2, <1>3, Invariant, LineageSound, PTL DEF Spec

-----------------------------------------------------------------------------
(* No request repeats another's, when each administrator has subjects of     *)
(* their own.                                                                *)

\* A request is its administrator's, and the version after its base, if it is there by now,
\* holds something else.
Distinct == \A a \in Admins :
    /\ request[a].step # "idle" => request[a].task[1] = a
    /\ request[a].step = "saving" /\ NextMinor(request[a].base) \in Lineage =>
          definition[NextMinor(request[a].base)] # request[a].content

LEMMA NothingIsRepeated ==
    ASSUME IInv, Distinct
    PROVE  ~RepeatsSuperseded
<1> SUFFICES ASSUME NEW a \in Admins, SaveVersion(a),
                    status[NextMinor(request[a].base)] = "superseded"
             PROVE  FALSE
  BY DEF RepeatsSuperseded
<1>1. NextMinor(request[a].base) \in Lineage
  BY SaveVersionSaves DEF Lineage
<1>2. definition[NextMinor(request[a].base)] = request[a].content
  BY <1>1, SaveVersionSaves
<1> QED  BY <1>1, <1>2 DEF SaveVersion, Distinct

\* Two requests of different administrators on the same base ask for different definitions.
LEMMA OwnContents ==
    ASSUME IInv, ApprovalInv, Distinct, OwnSubjects,
           NEW a \in Admins, NEW d \in Admins, a # d,
           request[a].step = "saving", request[d].step = "saving",
           request[a].base = request[d].base
    PROVE  request[a].content # request[d].content
<1>1. PICK t \in Tasks, u \in Tasks : t = request[a].task /\ u = request[d].task
  BY DEF IInv, TypeOK
<1>2. t[1] = a /\ u[1] = d
  BY <1>1 DEF Distinct
<1>3. t[3] # u[3] /\ {t[3], u[3]} \subseteq Subjects
  BY <1>2, PackAssumption DEF OwnSubjects, Subjects
<1>4. ElementOf[t[3]] # ElementOf[u[3]]
  BY <1>3 DEF OwnSubjects
<1>5. ~({t[3], u[3]} \subseteq Proposals \ NewFields)
  BY <1>2 DEF OwnSubjects
<1>6. SavingFits(request[a]) /\ SavingFits(request[d])
  BY DEF ApprovalInv, SavingOK
<1>7. /\ request[a].content = definition[request[a].base] \union {ElementOf[t[3]]}
      /\ request[d].content = definition[request[a].base] \union {ElementOf[u[3]]}
      /\ \/ ElementOf[t[3]] \notin definition[request[a].base]
         \/ ElementOf[u[3]] \notin definition[request[a].base]
  BY <1>1, <1>5, <1>6 DEF SavingFits
<1> QED  BY <1>4, <1>7


\* A step that leaves the rows alone: all depends on what becomes of one request.
LEMMA DistinctMoves ==
    ASSUME IInv, Distinct, UNCHANGED lineageVars, NEW a \in Admins, NEW next \in Requests,
           request' = [request EXCEPT ![a] = next],
           next.step # "idle" => next.task[1] = a,
           next.step = "saving" => NextMinor(next.base) \notin Lineage
    PROVE  Distinct'
<1>1. \A d \in Admins : request'[d] = IF d = a THEN next ELSE request[d]
  BY DEF IInv, TypeOK
<1>2. Lineage' = Lineage /\ definition' = definition
  BY DEF lineageVars, Lineage
<1> QED  BY <1>1, <1>2 DEF Distinct

LEMMA DistinctUntouched ==
    ASSUME Distinct, UNCHANGED lineageVars, UNCHANGED request
    PROVE  Distinct'
<1>1. Lineage' = Lineage /\ definition' = definition
  BY DEF lineageVars, Lineage
<1> QED  BY <1>1 DEF Distinct

\* A request reads the newest version, so the next one is not there yet.
LEMMA DistinctSaving ==
    ASSUME IInv, ApprovalInv, Distinct, UNCHANGED lineageVars, NEW a \in Admins,
           NEW pack \in ActivePacks, NEW task \in Tasks, task[1] = a, Saving(a, pack, task)
    PROVE  Distinct'
<1>1. PICK v \in Active \ stubs : pack = [version |-> v, content |-> definition[v]]
  BY WhatIsRead
<1>2. PICK next : next = [step |-> "saving", task |-> task, base |-> v,
                          content |-> definition[v] \union {ElementOf[task[3]]}]
  OBVIOUS
<1>3. next.step = "saving" /\ next.task = task /\ next.base = v
  BY <1>2
<1>4. request' = [request EXCEPT ![a] = next]
  BY <1>1, <1>2 DEF Saving
<1>5. next \in Requests
  <2>1. pack.version \in Nat \X Nat /\ pack.content \in SUBSET Elements
    BY ActivePacksTyped DEF IInv
  <2>2. ElementOf[task[3]] \in Elements
    BY TasksTyped
  <2> QED  BY <1>1, <1>2, <2>1, <2>2 DEF Requests
<1>6. NextMinor(v) \notin Lineage
  <2>1. Older(v, NextMinor(v))
    BY VersionsArePairs, NextFollows DEF Active
  <2> QED  BY <2>1 DEF ApprovalInv, NewestActive
<1> QED  BY <1>3, <1>4, <1>5, <1>6, DistinctMoves

LEMMA SaveKeepsDistinct ==
    ASSUME IInv, ApprovalInv, Distinct, OwnSubjects, NEW a \in Admins, SaveVersion(a)
    PROVE  Distinct'
<1>1. PICK b \in Lineage, v \in Versions, content \in {request[a].content} :
          /\ b = request[a].base /\ v = NextMinor(b)
          /\ SavePackVersion(b, v, content, "tenant")
          /\ v \in Lineage => definition[v] = content
  BY SaveVersionSaves
<1>2. RowsOK /\ request \in [Admins -> Requests] /\ request[a].step = "saving"
  BY IInvParts DEF IInv, TypeOK, SaveVersion
<1>3. v \notin Lineage
  BY <1>1, <1>2 DEF Distinct
<1>4. Lineage' = Lineage \union {v} /\ definition' = [definition EXCEPT ![v] = content]
  BY <1>1, <1>2, <1>3, SaveInserts
<1>5. definition'[v] = content /\ \A w \in Lineage : definition'[w] = definition[w]
  BY <1>2, <1>3, <1>4 DEF RowsOK, Lineage
<1>6. \A d \in Admins \ {a} : request'[d] = request[d]
  BY <1>2 DEF SaveVersion
<1>7. /\ request'[a].step # "saving"
      /\ request'[a].step # "idle" => request'[a].task = request[a].task
  <2>1. CASE request'[a] = Idle
    BY <2>1 DEF Idle
  <2>2. CASE request'[a] = [Idle EXCEPT !.step = "marking", !.task = request[a].task]
    BY <2>2 DEF Idle
  <2> QED  BY <1>2, <2>1, <2>2 DEF SaveVersion
<1>8. ASSUME NEW d \in Admins, request'[d].step = "saving",
             NextMinor(request'[d].base) \in Lineage'
      PROVE  definition'[NextMinor(request'[d].base)] # request'[d].content
  <2>1. d # a /\ request'[d] = request[d]
    BY <1>6, <1>7, <1>8
  <2>2. CASE NextMinor(request[d].base) = v
    <3>1. request[d].base \in Lineage
      BY <1>8, <2>1 DEF ApprovalInv, SavingOK, SavingFits
    <3>2. request[d].base = b
      BY <1>1, <2>2, <3>1, VersionsArePairs, NextFollows DEF Lineage
    <3>3. request[d].content # request[a].content
      BY <1>1, <1>2, <1>8, <2>1, <3>2, OwnContents
    <3> QED  BY <1>5, <2>1, <2>2, <3>3
  <2>3. CASE NextMinor(request[d].base) # v
    BY <1>4, <1>5, <1>8, <2>1, <2>3 DEF Distinct
  <2> QED  BY <2>2, <2>3
<1>9. \A d \in Admins : request'[d].step # "idle" => request'[d].task[1] = d
  BY <1>2, <1>6, <1>7 DEF Distinct
<1> QED  BY <1>8, <1>9 DEF Distinct

LEMMA SeedKeepsDistinct ==
    ASSUME IInv, LineageInv, ApprovalInv, Distinct, ReleasesFollow, OwnSubjects,
           NEW r \in Releases, StartInstance(r)
    PROVE  Distinct'
<1>1. RowsOK /\ request' = request /\ request \in [Admins -> Requests]
  BY IInvParts DEF StartInstance, IInv, TypeOK
<1>2. CASE \A a \in Admins : request[a].step # "saving"
  BY <1>1, <1>2 DEF Distinct
<1>3. ASSUME NEW a \in Admins, request[a].step = "saving"
      PROVE  Lineage # {} /\ serving # {}
  BY <1>3 DEF ApprovalInv, SavingOK, SavingFits, Filled
<1>4. CASE Install(r)
  BY <1>2, <1>3, <1>4 DEF Install
<1>5. CASE ReplaceStub(r)
  <2>1. serving = {}
    BY <1>5 DEF ReplaceStub, ReplacesStub, ApprovalInv, Filled
  <2> QED  BY <1>2, <1>3, <2>1
<1>6. CASE Upgrade(r)
  <2>1. PICK b \in Active :
            /\ ReleaseVersion[r] \in Versions \ Lineage
            /\ SavePackVersion(b, ReleaseVersion[r], ReleaseContent[r], "catalog")
    BY <1>1, <1>6, UpgradeFollows DEF LineageInv
  <2>2. /\ Lineage' = Lineage \union {ReleaseVersion[r]}
        /\ definition' = [definition EXCEPT ![ReleaseVersion[r]] = ReleaseContent[r]]
    BY <1>1, <2>1, SaveInserts
  <2>3. /\ definition'[ReleaseVersion[r]] = ReleaseContent[r]
        /\ \A w \in Lineage : definition'[w] = definition[w]
    BY <1>1, <2>1, <2>2 DEF RowsOK, Lineage
  <2>4. ASSUME NEW a \in Admins, request[a].step = "saving"
        PROVE  request[a].content # ReleaseContent[r]
    <3>1. SavingFits(request[a])
      BY <2>4 DEF ApprovalInv, SavingOK
    <3>2. request[a].task[3] \in Subjects
      BY <2>4, PackAssumption DEF IInv, TypeOK, Subjects
    <3> QED  BY <3>1, <3>2 DEF SavingFits, OwnSubjects
  <2> QED  BY <1>1, <2>2, <2>3, <2>4 DEF Distinct
<1>7. CASE Keep(r)
  BY <1>1, <1>7, DistinctUntouched DEF Keep
<1> QED  BY <1>4, <1>5, <1>6, <1>7 DEF StartInstance


LEMMA DistinctStep ==
    ASSUME IInv, LineageInv, ApprovalInv, Distinct, ReleasesFollow, OwnSubjects, [Next]_vars
    PROVE  Distinct'
<1>1. Idle \in Requests /\ Idle.step = "idle"
  BY IdleTyped
<1>2. ASSUME NEW r \in Releases, StartInstance(r) PROVE Distinct'
  BY <1>2, SeedKeepsDistinct
<1>3. ASSUME NEW p \in Proposals, RederiveProposal(p) PROVE Distinct'
  BY <1>3, DistinctUntouched DEF RederiveProposal
<1>4. ASSUME NEW a \in Admins, NEW p \in Proposals, NEW verdict \in {"approved", "rejected"},
             ReadProposal(a, p, verdict)
      PROVE  Distinct'
  <2>1. PICK next : next = [Idle EXCEPT
                !.step = IF verdict = "approved" THEN "reading" ELSE "marking",
                !.task = <<a, verdict, p>>]
    OBVIOUS
  <2>2. next \in Requests /\ next.step # "saving" /\ next.task[1] = a
    BY <1>4, <2>1 DEF Idle, Requests, NoVersion, ReadProposal
  <2>3. request' = [request EXCEPT ![a] = next] /\ UNCHANGED lineageVars
    BY <1>4, <2>1 DEF ReadProposal
  <2> QED  BY <2>2, <2>3, DistinctMoves
<1>5. ASSUME NEW a \in Admins, NEW c \in Collections, CreateCollection(a, c) PROVE Distinct'
  <2>1. PICK pack \in ActivePacks, task \in Tasks :
            task = <<a, "created", c>> /\ Saving(a, pack, task)
    BY <1>5 DEF CreateCollection
  <2>2. task[1] = a /\ UNCHANGED lineageVars
    BY <1>5, <2>1 DEF CreateCollection
  <2> QED  BY <2>1, <2>2, DistinctSaving
<1>6. ASSUME NEW a \in Admins, UNCHANGED lineageVars, request' = [request EXCEPT ![a] = Idle]
      PROVE  Distinct'
  BY <1>1, <1>6, DistinctMoves
<1>7. ASSUME NEW a \in Admins, ReadActivePack(a) PROVE Distinct'
  <2>1. /\ request[a].task \in Tasks /\ request[a].task[1] = a /\ UNCHANGED lineageVars
    BY <1>7 DEF ReadActivePack, IInv, TypeOK, Distinct
  <2>2. PICK pack \in ActivePacks :
            Saving(a, pack, request[a].task) \/ request' = [request EXCEPT ![a] = Idle]
    BY <1>7 DEF ReadActivePack
  <2> QED  BY <1>6, <2>1, <2>2, DistinctSaving
<1>8. ASSUME NEW a \in Admins, SaveRefused(a) \/ CrashRequest(a) \/ MarkProposal(a)
      PROVE  Distinct'
  BY <1>6, <1>8 DEF SaveRefused, CrashRequest, MarkProposal
<1>9. ASSUME NEW a \in Admins, SaveVersion(a) PROVE Distinct'
  BY <1>9, SaveKeepsDistinct
<1>10. CASE UNCHANGED vars
  BY <1>10, DistinctUntouched DEF vars
<1>11. CASE Next
  <2>1. ASSUME NEW a \in Admins, Serve(a) PROVE Distinct'
    BY <1>7, <1>8, <1>9, <2>1 DEF Serve
  <2> QED  BY <1>2, <1>3, <1>4, <1>5, <1>8, <1>11, <2>1 DEF Next
<1> QED  BY <1>10, <1>11

\* Whatever is approved, created, upgraded or interrupted: there is an active version, and what
\* was approved is in it, as long as no two administrators ask for the same change and each
\* release is the next minor version of the one before.
THEOREM ApprovalsNeverLost ==
    ASSUME ReleasesFollow, OwnSubjects
    PROVE  Spec => []ApprovalsHold
<1>1. Init => ApprovalInv /\ Distinct
  BY ApprovalStart, IdleTyped DEF Init, Distinct
<1>2. IInv /\ LineageInv /\ ApprovalInv /\ Distinct /\ [Next]_vars => (ApprovalInv /\ Distinct)'
  BY ApprovalStep, NothingIsRepeated, DistinctStep
<1>3. IInv /\ ApprovalInv => ApprovalsHold
  BY ApprovalsFollow
<1> QED  BY <1>1, <1>2, <1>3, Invariant, LineageSound, PTL DEF Spec

=============================================================================
