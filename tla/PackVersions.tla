---------------------------- MODULE PackVersions ----------------------------
(***************************************************************************)
(* One tenant's domain pack: a lineage of versions that administrators     *)
(* extend by approving field proposals and creating collections, and that  *)
(* every API instance seeds from its compiled catalogue when it starts.    *)
(*                                                                         *)
(* A request is a sequence of separate transactions (read the proposal,    *)
(* read the active pack, save a version, mark the proposal), so requests   *)
(* interleave between any two.  savePackVersion and the seed lock the      *)
(* lineage and are one step each.  A refused request changes nothing; its  *)
(* administrator may try again.                                            *)
(*                                                                         *)
(* Versions are <<major, minor>>: the patch is always 0.  A definition is  *)
(* the set of its fields, aliases and collections.  Bounds: MaxMinor       *)
(* versions of a major, MaxCrashes interrupted requests, MaxRederivations  *)
(* proposals rewritten by the worker.                                      *)
(***************************************************************************)
EXTENDS Naturals, FiniteSets

CONSTANTS
    Admins,
    Proposals,      \* field proposals of one pack
    NewFields,      \* those of kind new_field; the others are aliases
    Collections,    \* names of collections that may be created
    Elements,       \* what a definition may hold
    ElementOf,      \* the field, wording or collection a subject adds
    FieldOf,        \* the field an alias belongs to
    Tasks,          \* <<admin, verdict, subject>>: who may do what
    Releases,       \* compiled catalogues, one per release of the API
    ReleaseVersion, ReleaseContent,
    Majors, MaxMinor, MaxCrashes, MaxRederivations

Versions == Majors \X (0..MaxMinor)
Subjects == Proposals \union Collections

ASSUME PackAssumption ==
    /\ NewFields \subseteq Proposals
    /\ ElementOf \in [Subjects -> Elements]
    /\ FieldOf \in [Proposals \ NewFields -> Elements]
    /\ Tasks \subseteq (Admins \X {"approved", "rejected"} \X Proposals)
                       \union (Admins \X {"created"} \X Collections)
    /\ ReleaseVersion \in [Releases -> Versions]
    /\ ReleaseContent \in [Releases -> SUBSET Elements]
    /\ Majors \subseteq Nat

ASSUME PackBounds == {MaxMinor, MaxCrashes, MaxRederivations} \subseteq Nat

VARIABLES
    \* domain_packs
    status,         \* status[v]: absent, active or superseded
    definition,     \* definition[v], {} while absent or a stub
    origin,         \* origin[v]: catalog or tenant
    stubs,          \* rows from before the dictionary, which hold only a name
    \* field_proposals
    proposal,       \* proposal[p]: proposed, invalid, approved or rejected
    \* API instances
    serving,        \* releases whose instances have started
    request,        \* request[a]: the request administrator a is waiting for
    crashes, rederived

lineageVars == <<status, definition, origin, stubs>>
vars == <<lineageVars, proposal, serving, request, crashes, rederived>>

Lineage == {v \in Versions : status[v] # "absent"}
Active == {v \in Versions : status[v] = "active"}

Older(v, w) == v[1] < w[1] \/ (v[1] = w[1] /\ v[2] < w[2])

FirstReleases == {r \in Releases : \A s \in Releases : ~Older(ReleaseVersion[s], ReleaseVersion[r])}

NextMinor(v) == <<v[1], v[2] + 1>>

(* Two conditions the code relies on and does not enforce; some theorems suppose them. *)

\* The catalogue moves by one minor version at a time.
ReleasesFollow == \A r, s \in Releases :
    Older(ReleaseVersion[r], ReleaseVersion[s]) => ReleaseVersion[s] = NextMinor(ReleaseVersion[r])

\* No two administrators can ask for the same change: a subject has one administrator and adds
\* an element that no other subject and no release has, and one administrator has all aliases
\* (whose wording may be in the pack already).
OwnSubjects ==
    /\ \A t, u \in Tasks : t[3] = u[3] => t[1] = u[1]
    /\ \A t, u \in Tasks : {t[3], u[3]} \subseteq Proposals \ NewFields => t[1] = u[1]
    /\ \A s, t \in Subjects : ElementOf[s] = ElementOf[t] => s = t
    /\ \A s \in Subjects, r \in Releases : ElementOf[s] \notin ReleaseContent[r]

NoVersion == <<0, 0>>
Idle == [step |-> "idle", task |-> <<>>, base |-> NoVersion, content |-> {}]

\* A tenant starts without a row, or with the stub the first release left.
Init ==
    /\ \E old \in {{}} \union {{ReleaseVersion[r]} : r \in FirstReleases} :
          /\ status = [v \in Versions |-> IF v \in old THEN "active" ELSE "absent"]
          /\ stubs = old
    /\ definition = [v \in Versions |-> {}]
    /\ origin = [v \in Versions |-> "catalog"]
    /\ proposal \in [Proposals -> {"proposed", "invalid"}]
    /\ serving = {}
    /\ request = [a \in Admins |-> Idle]
    /\ crashes = 0
    /\ rederived = 0

-----------------------------------------------------------------------------
(* The lineage. *)

\* Mutant: a version number that exists is taken for a replay, whatever it holds.
AcceptsAnyReplay(base, v, content) == base \in Lineage

\* savePackVersion goes ahead: the superseded version exists, and the new one does not, or
\* holds the same definition.
Accepts(base, v, content) ==
    /\ base \in Lineage
    /\ v \in Lineage => v \notin stubs /\ definition[v] = content

\* Mutant: nothing is retired.
InsertOnly(base, v) == [w \in Versions |-> IF w = v THEN "active" ELSE status[w]]

\* Mutant: the new version is retired with the others.
RetireAll(base, v) == [w \in Versions |->
    IF w = v \/ status[w] = "active" THEN "superseded" ELSE status[w]]

\* A new row is active, one that exists keeps its status, every other active row is retired.
StatusAfter(base, v) == [w \in Versions |->
    IF w = v THEN (IF v \in Lineage THEN status[v] ELSE "active")
    ELSE IF status[w] = "active" THEN "superseded" ELSE status[w]]

SavePackVersion(base, v, content, by) ==
    /\ status' = StatusAfter(base, v)
    /\ definition' = [definition EXCEPT ![v] = content]
    /\ origin' = [origin EXCEPT ![v] = IF v \in Lineage THEN @ ELSE by]
    /\ UNCHANGED stubs

Compiled(r) == [version |-> ReleaseVersion[r], content |-> ReleaseContent[r]]

\* getActivePackDefinition: the active row, or the compiled pack where no row, or a stub, is
\* active.
ActivePacks ==
    IF Active \ stubs = {}
    THEN {Compiled(r) : r \in serving}
    ELSE {[version |-> v, content |-> definition[v]] : v \in Active}

-----------------------------------------------------------------------------
(* The seed: an instance of release r starts. *)

Install(r) ==
    /\ Lineage = {}
    /\ status' = [status EXCEPT ![ReleaseVersion[r]] = "active"]
    /\ definition' = [definition EXCEPT ![ReleaseVersion[r]] = ReleaseContent[r]]
    /\ origin' = [origin EXCEPT ![ReleaseVersion[r]] = "catalog"]
    /\ UNCHANGED stubs

\* Mutant: the version the catalogue and the tenant share is rewritten whoever owns it.
ReplacesAnyRow(v) == v \in Active

\* The catalogue's own version, still active and never filled in.
ReplacesStub(v) == v \in Active /\ origin[v] = "catalog" /\ v \in stubs

ReplaceStub(r) ==
    LET v == ReleaseVersion[r]
    IN  /\ ReplacesStub(v)
        /\ definition' = [definition EXCEPT ![v] = ReleaseContent[r]]
        /\ stubs' = stubs \ {v}
        /\ UNCHANGED <<status, origin>>

\* Mutant: an older catalogue is applied as well.
UpgradableAnyway(v, r) == v \in Active /\ origin[v] = "catalog"

\* The active version is the catalogue's own and older.
Upgradable(v, r) == /\ v \in Active
                    /\ Older(v, ReleaseVersion[r])
                    /\ origin[v] = "catalog"

Upgrade(r) ==
    /\ ReleaseVersion[r] \notin Lineage
    /\ \E v \in Versions :
          /\ Upgradable(v, r)
          /\ SavePackVersion(v, ReleaseVersion[r], ReleaseContent[r], "catalog")

\* The tenant keeps what it has.
Keep(r) ==
    /\ Lineage # {}
    /\ ~ReplacesStub(ReleaseVersion[r])
    /\ ReleaseVersion[r] \in Lineage \/ \A v \in Active : ~Upgradable(v, r)
    /\ UNCHANGED lineageVars

StartInstance(r) ==
    /\ serving' = serving \union {r}
    /\ Install(r) \/ ReplaceStub(r) \/ Upgrade(r) \/ Keep(r)
    /\ UNCHANGED <<proposal, request, crashes, rederived>>

-----------------------------------------------------------------------------
(* Requests. *)

Verdict(a) == request[a].task[2]
Subject(a) == request[a].task[3]

\* The worker extracts the policy again: an unreviewed proposal may gain or lose issues.
RederiveProposal(p) ==
    /\ rederived < MaxRederivations
    /\ rederived' = rederived + 1
    /\ proposal[p] \in {"proposed", "invalid"}
    /\ proposal' = [proposal EXCEPT ![p] = IF @ = "proposed" THEN "invalid" ELSE "proposed"]
    /\ UNCHANGED <<lineageVars, serving, request, crashes>>

\* approveFieldProposal and rejectFieldProposal read the proposal.
ReadProposal(a, p, verdict) ==
    /\ serving # {}
    /\ request[a] = Idle
    /\ <<a, verdict, p>> \in Tasks
    /\ IF verdict = "approved" THEN proposal[p] = "proposed"
                               ELSE proposal[p] \in {"proposed", "invalid"}
    /\ request' = [request EXCEPT ![a] = [Idle EXCEPT
                      !.step = IF verdict = "approved" THEN "reading" ELSE "marking",
                      !.task = <<a, verdict, p>>]]
    /\ UNCHANGED <<lineageVars, proposal, serving, crashes, rederived>>

\* applyFieldProposal: a new field's path is free, an alias has its field.
Applies(p, content) ==
    IF p \in NewFields THEN ElementOf[p] \notin content ELSE FieldOf[p] \in content

\* Mutant: the request forgets which proposal it is for.
SavingUnnamed(a, pack, task) ==
    request' = [request EXCEPT ![a] =
        [step |-> "saving", task |-> <<>>, base |-> pack.version,
         content |-> pack.content \union {ElementOf[task[3]]}]]

\* The version a request is about to save: content on top of what it read.
Saving(a, pack, task) ==
    request' = [request EXCEPT ![a] =
        [step |-> "saving", task |-> task, base |-> pack.version,
         content |-> pack.content \union {ElementOf[task[3]]}]]

ReadActivePack(a) ==
    /\ request[a].step = "reading"
    /\ \E pack \in ActivePacks :
          IF Applies(Subject(a), pack.content)
          THEN Saving(a, pack, request[a].task)
          ELSE request' = [request EXCEPT ![a] = Idle]
    /\ UNCHANGED <<lineageVars, proposal, serving, crashes, rederived>>

\* createPolicyCollection reads the pack and refuses a collection it has.
CreateCollection(a, c) ==
    /\ request[a] = Idle
    /\ <<a, "created", c>> \in Tasks
    /\ \E pack \in ActivePacks :
          /\ ElementOf[c] \notin pack.content
          /\ Saving(a, pack, <<a, "created", c>>)
    /\ UNCHANGED <<lineageVars, proposal, serving, crashes, rederived>>

SaveVersion(a) ==
    LET asked == request[a]
        v == NextMinor(asked.base)
    IN  /\ asked.step = "saving"
        /\ v[2] <= MaxMinor
        /\ Accepts(asked.base, v, asked.content)
        /\ SavePackVersion(asked.base, v, asked.content, "tenant")
        /\ request' = [request EXCEPT ![a] =
              IF Verdict(a) = "created" THEN Idle
              ELSE [Idle EXCEPT !.step = "marking", !.task = asked.task]]
        /\ UNCHANGED <<proposal, serving, crashes, rederived>>

\* Mutant: the request tries again with the pack it read before.
SaveRetried(a) == UNCHANGED vars

\* PACK_VERSION_CONFLICT or PACK_SUPERSEDES_NOT_FOUND.
SaveRefused(a) ==
    /\ request[a].step = "saving"
    /\ ~Accepts(request[a].base, NextMinor(request[a].base), request[a].content)
    /\ request' = [request EXCEPT ![a] = Idle]
    /\ UNCHANGED <<lineageVars, proposal, serving, crashes, rederived>>

Reviewable(p) == proposal[p] \in {"proposed", "invalid"}

\* setFieldProposalStatus: a proposal reviewed meanwhile keeps its outcome.
MarkProposal(a) ==
    /\ request[a].step = "marking"
    /\ proposal' = [proposal EXCEPT ![Subject(a)] =
                      IF Reviewable(Subject(a)) THEN Verdict(a) ELSE @]
    /\ request' = [request EXCEPT ![a] = Idle]
    /\ UNCHANGED <<lineageVars, serving, crashes, rederived>>

\* The instance serving a request dies between two of its transactions.
CrashRequest(a) ==
    /\ crashes < MaxCrashes
    /\ crashes' = crashes + 1
    /\ request[a] # Idle
    /\ request' = [request EXCEPT ![a] = Idle]
    /\ UNCHANGED <<lineageVars, proposal, serving, rederived>>

-----------------------------------------------------------------------------
Serve(a) == ReadActivePack(a) \/ SaveVersion(a) \/ SaveRefused(a) \/ MarkProposal(a)

Next ==
    \/ \E r \in Releases : StartInstance(r)
    \/ \E p \in Proposals : RederiveProposal(p)
    \/ \E a \in Admins :
          \/ \E p \in Proposals : ReadProposal(a, p, "approved") \/ ReadProposal(a, p, "rejected")
          \/ \E c \in Collections : CreateCollection(a, c)
          \/ Serve(a)
          \/ CrashRequest(a)

Spec == Init /\ [][Next]_vars

(***************************************************************************)
(* A request that was accepted is served, and an administrator who is told *)
(* to retry an approval retries it.  Nobody has to reject, create, deploy  *)
(* or crash.                                                               *)
(***************************************************************************)
Fairness ==
    /\ WF_vars(\E r \in Releases : StartInstance(r))
    /\ \A a \in Admins :
          /\ WF_vars(Serve(a))
          /\ \A p \in Proposals : WF_vars(ReadProposal(a, p, "approved"))

FairSpec == Spec /\ Fairness

-----------------------------------------------------------------------------
(* Properties. *)

Requests == [step : {"idle", "reading", "saving", "marking"},
             task : Tasks \union {<<>>}, base : Nat \X Nat, content : SUBSET Elements]

\* Every row, proposal and request has the shape of its table or call; a request names a
\* task exactly while it runs.
TypeOK ==
    /\ status \in [Versions -> {"absent", "active", "superseded"}]
    /\ definition \in [Versions -> SUBSET Elements]
    /\ origin \in [Versions -> {"catalog", "tenant"}]
    /\ stubs \subseteq Lineage
    /\ proposal \in [Proposals -> {"proposed", "invalid", "approved", "rejected"}]
    /\ serving \subseteq Releases
    /\ request \in [Admins -> Requests]
    /\ \A a \in Admins : request[a].step # "idle" => request[a].task \in Tasks
    /\ crashes \in Nat
    /\ rederived \in Nat

\* What a request is doing fits what was asked: only an approval reads the pack with a
\* proposal in hand, only a review marks one.
StepsMatchTasks ==
    \A a \in Admins :
        /\ request[a].step = "reading" => request[a].task[2] = "approved"
        /\ request[a].step = "marking" => request[a].task[2] # "created"

\* No interleaving of approvals, creations and seeds leaves a tenant with two active
\* versions (savePackVersion retires every other).
AtMostOneActive == \A v, w \in Active : v = w

IInv == TypeOK /\ StepsMatchTasks /\ AtMostOneActive

\* A tenant that has a pack always has an active version: superseding and inserting go
\* together, also when a version is replayed.
ActiveOnceInstalled == Lineage # {} => Active # {}

\* What an administrator approved is in the pack new cases are read against, whatever was
\* approved, created, seeded or interrupted since ("a competing approval is never silently
\* dropped").
ApprovedIsLive ==
    \A p \in Proposals : proposal[p] = "approved" =>
        \A pack \in ActivePacks : ElementOf[p] \in pack.content

\* What was approved holds: there is an active version, and what an administrator approved is
\* in it.
ApprovalsHold == TypeOK /\ ActiveOnceInstalled /\ ApprovedIsLive

\* A version is written once: later approvals, replays and catalogues leave its definition
\* alone and never bring it back, so a case pinned to it reads the same pack for ever
\* (getPackDefinitionVersion; "never by editing one in place").
VersionsNeverRewritten ==
    [][\A v \in Lineage \ stubs :
          /\ definition'[v] = definition[v]
          /\ status'[v] \in {status[v], "superseded"}]_vars

\* The pack only moves forward: what is active next was not there before, or was active.
NeverBackwards ==
    [][\A v \in Active, w \in Active' : ~Older(w, v)]_vars

\* An approval that is retried while nothing crashes ends: approved, rejected or found
\* invalid ("The domain pack changed concurrently. Retry the approval.").
ApprovalsSettle ==
    \A p \in Proposals :
        proposal[p] = "proposed" ~> (proposal[p] # "proposed" \/ crashes > 0)
=============================================================================
