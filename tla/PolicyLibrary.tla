---------------------------- MODULE PolicyLibrary ----------------------------
(***************************************************************************)
(* The policy library page (components/policy/policy-library.tsx).  An     *)
(* administrator of several workspaces switches between them while reads,  *)
(* decisions on proposed fields and an upload are under way; every answer  *)
(* is set by the closure that asked for it.  The API is modelled by what   *)
(* it answers.                                                             *)
(***************************************************************************)
EXTENDS Naturals, FiniteSets

CONSTANTS
    Tenants,
    Collections,    \* ids of collections; of the same name in several workspaces
    Classify, NewCollection,   \* the two options of the select that are not collections
    NoOne,          \* no collection, no tenant, no proposal
    Proposed,       \* [Tenants -> sets of proposed fields]
    Declared,       \* [Tenants -> sets of collections] at first
    MaxSwitches, MaxAsked    \* bounds: switches; decisions and uploads

ASSUME LibraryAssumption ==
    /\ {Classify, NewCollection, NoOne} \intersect Collections = {}
    /\ Cardinality({Classify, NewCollection, NoOne}) = 3
    /\ NoOne \notin Tenants
    /\ Proposed = [t \in Tenants |-> Proposed[t]]
    /\ Declared \in [Tenants -> SUBSET Collections]

VARIABLES
    declared,       \* uploadable collections of each workspace, at the API
    proposals,      \* field proposals of each workspace that are not decided, at the API
    tenantId,       \* the workspace on the screen
    reads,          \* the reads of the pack and of the list that are under way
    packLoad, listLoad,     \* what the last read set: tenant, state, items
    pending,        \* pendingProposalId
    chosen,         \* collectionSelection: tenant, value
    deciding,       \* decisions under way
    uploading,      \* the upload under way
    librarySteps    \* how much of each bound is spent

libraryVars == <<declared, proposals, tenantId, reads, packLoad, listLoad, pending, chosen,
                 deciding, uploading, librarySteps>>

NotLoaded == [tenant |-> NoOne, state |-> "loading", items |-> {}]
Reading(t) == [tenant |-> t, answered |-> FALSE, items |-> {}]
NoUpload == [step |-> "idle"]

LibraryInit ==
    /\ declared = Declared
    /\ proposals = Proposed
    /\ tenantId \in Tenants
    /\ reads = [pack |-> Reading(tenantId), list |-> Reading(tenantId)]
    /\ packLoad = NotLoaded /\ listLoad = NotLoaded
    /\ pending = NoOne
    /\ chosen = [tenant |-> NoOne, value |-> NoOne]
    /\ deciding = {}
    /\ uploading = NoUpload
    /\ librarySteps = [switches |-> 0, requests |-> 0]

Spends(bound, limit) ==
    librarySteps[bound] < limit /\ librarySteps' = [librarySteps EXCEPT ![bound] = @ + 1]

\* Mutant: a load is shown whatever workspace it was read for.
LastLoad(load) == load

\* currentDomainPackLoad, currentFieldProposalsLoad: a load counts in its workspace only.
Displayed(load) == IF load.tenant = tenantId THEN load ELSE NotLoaded

\* Mutant: what was chosen last, in whatever workspace.
ChosenAnywhere == IF chosen.value = NoOne THEN Classify ELSE chosen.value

\* selectedCollection: of this workspace and declared by its pack, or classification.
SelectedCollection ==
    IF chosen.tenant = tenantId /\ chosen.value \in Displayed(packLoad).items \union {NewCollection}
    THEN chosen.value ELSE Classify

-----------------------------------------------------------------------------
(* Reads of the workspace: an effect for the pack, one for the list. *)

Content(what, t) == IF what = "pack" THEN declared[t] ELSE proposals[t]
Asked(what) == reads[what].tenant # NoOne
Over(what) == reads' = [reads EXCEPT ![what].tenant = NoOne, ![what].items = {}]

ReadAnswered(what) ==
    /\ Asked(what) /\ ~ reads[what].answered
    /\ reads' = [reads EXCEPT ![what].answered = TRUE,
                              ![what].items = Content(what, reads[what].tenant)]
    /\ UNCHANGED <<declared, proposals, tenantId, packLoad, listLoad, pending, chosen, deciding,
                   uploading, librarySteps>>

Loaded(what, load) ==
    IF what = "pack" THEN packLoad' = load /\ UNCHANGED listLoad
                     ELSE listLoad' = load /\ UNCHANGED packLoad

\* The answer of an effect that was cleaned up is dropped: see SelectWorkspace.
ReadArrives(what) ==
    /\ Asked(what)
    /\ \/ /\ reads[what].answered
          /\ Loaded(what, [tenant |-> reads[what].tenant, state |-> "ready",
                           items |-> reads[what].items])
       \/ Loaded(what, [tenant |-> reads[what].tenant, state |-> "error", items |-> {}])
    /\ Over(what)
    /\ UNCHANGED <<declared, proposals, tenantId, pending, chosen, deciding, uploading, librarySteps>>

SelectWorkspace(t) ==
    /\ t # tenantId
    /\ Spends("switches", MaxSwitches)
    /\ tenantId' = t
    /\ pending' = NoOne
    /\ reads' = [pack |-> Reading(t), list |-> Reading(t)]
    /\ UNCHANGED <<declared, proposals, packLoad, listLoad, chosen, deciding, uploading>>

-----------------------------------------------------------------------------
(* decideFieldProposal: off the list at once, back on it when it is refused. *)

DecideField(p) ==
    /\ p \in Displayed(listLoad).items /\ pending = NoOne
    /\ Spends("requests", MaxAsked)
    /\ pending' = p
    /\ listLoad' = [listLoad EXCEPT !.items = @ \ {p}]
    /\ deciding' = deciding \union {[proposal |-> p, prior |-> listLoad, answer |-> "none"]}
    /\ UNCHANGED <<declared, proposals, tenantId, reads, packLoad, chosen, uploading>>

Answered(d, answer) == deciding' = (deciding \ {d}) \union {[d EXCEPT !.answer = answer]}

FieldDecided(d) ==
    /\ d.answer = "none"
    /\ \E t \in Tenants :
          /\ d.proposal \in proposals[t]
          /\ proposals' = [proposals EXCEPT ![t] = @ \ {d.proposal}]
    /\ Answered(d, "decided")
    /\ UNCHANGED <<declared, tenantId, reads, packLoad, listLoad, pending, chosen, uploading, librarySteps>>

\* Refused, or lost by the proxy, which answers 503.
FieldRefused(d) ==
    /\ Answered(d, "refused")
    /\ UNCHANGED <<declared, proposals, tenantId, reads, packLoad, listLoad, pending, chosen,
                   uploading, librarySteps>>

FieldAnswerArrives(d) ==
    /\ d.answer # "none"
    /\ listLoad' = IF d.answer = "refused" THEN d.prior ELSE listLoad
    /\ pending' = NoOne
    /\ deciding' = deciding \ {d}
    /\ UNCHANGED <<declared, proposals, tenantId, reads, packLoad, chosen, uploading, librarySteps>>

-----------------------------------------------------------------------------
(* upload: into the collection that is selected, into a new one, or into none. *)

\* The person picks an option of the select.
Choose(value) ==
    /\ Displayed(packLoad).state = "ready"
    /\ value \in Displayed(packLoad).items \union {Classify, NewCollection}
    /\ chosen' = [tenant |-> tenantId, value |-> value]
    /\ chosen' # chosen
    /\ UNCHANGED <<declared, proposals, tenantId, reads, packLoad, listLoad, pending, deciding,
                   uploading, librarySteps>>

SubmitUpload ==
    /\ uploading = NoUpload /\ Displayed(packLoad).state = "ready"
    /\ Spends("requests", MaxAsked)
    /\ uploading' = [step |-> "sent", tenant |-> tenantId, into |-> SelectedCollection,
                     filed |-> NoOne, ok |-> FALSE]
    /\ UNCHANGED <<declared, proposals, tenantId, reads, packLoad, listLoad, pending, chosen, deciding>>

\* The API mints a collection under a new name before it stores the policy.
UploadServed ==
    /\ uploading.step = "sent"
    /\ \E ok \in BOOLEAN, c \in Collections :
          LET mint == uploading.into = NewCollection
              new == mint /\ c \notin declared[uploading.tenant]
          IN  /\ ok /\ mint => new
              /\ ~ mint => c \in {uploading.into} \union (IF uploading.into = Classify
                                                         THEN Collections ELSE {})
              /\ declared' = IF new THEN [declared EXCEPT ![uploading.tenant] = @ \union {c}]
                                    ELSE declared
              /\ uploading' = [uploading EXCEPT !.step = IF mint THEN "reload" ELSE "answered",
                                 !.ok = ok,
                                 !.filed = IF ok /\ uploading.into # Classify THEN c ELSE NoOne]
    /\ UNCHANGED <<proposals, tenantId, reads, packLoad, listLoad, pending, chosen, deciding, librarySteps>>

\* After an attempt that may have minted a collection the pack is read again, for the
\* workspace of the upload.
PackReloaded ==
    /\ uploading.step = "reload"
    /\ packLoad' \in {packLoad, [tenant |-> uploading.tenant, state |-> "ready",
                                 items |-> declared[uploading.tenant]]}
    /\ uploading' = [uploading EXCEPT !.step = "answered"]
    /\ UNCHANGED <<declared, proposals, tenantId, reads, listLoad, pending, chosen, deciding, librarySteps>>

UploadAnswerArrives ==
    /\ uploading.step = "answered"
    /\ chosen' = IF uploading.filed # NoOne
                 THEN [tenant |-> uploading.tenant, value |-> uploading.filed] ELSE chosen
    /\ uploading' = NoUpload
    /\ UNCHANGED <<declared, proposals, tenantId, reads, packLoad, listLoad, pending, deciding, librarySteps>>

LibraryNext ==
    \/ \E what \in {"pack", "list"} : ReadAnswered(what) \/ ReadArrives(what)
    \/ \E t \in Tenants : SelectWorkspace(t)
    \/ \E t \in Tenants : \E p \in Proposed[t] : DecideField(p)
    \/ \E d \in deciding : FieldDecided(d) \/ FieldRefused(d) \/ FieldAnswerArrives(d)
    \/ \E value \in Collections \union {Classify, NewCollection} : Choose(value)
    \/ SubmitUpload \/ UploadServed \/ PackReloaded \/ UploadAnswerArrives

LibrarySpec == LibraryInit /\ [][LibraryNext]_libraryVars

-----------------------------------------------------------------------------
(* Properties. *)

\* The page shows what belongs to the workspace it names, though the answers of another
\* one arrive after the switch: its collections, and proposals to decide on.
ShowsOneWorkspace ==
    /\ Displayed(listLoad).items \subseteq Proposed[tenantId]
    /\ Displayed(packLoad).items \subseteq declared[tenantId]

\* A policy is uploaded into a collection its workspace declares, though the collection was
\* chosen, minted or read elsewhere before.
UploadsIntoDeclared ==
    uploading # NoUpload /\ uploading.into \in Collections
        => uploading.into \in declared[uploading.tenant]

\* The page keeps to one workspace, in what it shows and in what it sends.
KeepsToItsWorkspace == ShowsOneWorkspace /\ UploadsIntoDeclared
=============================================================================
