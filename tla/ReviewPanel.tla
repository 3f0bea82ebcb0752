----------------------------- MODULE ReviewPanel -----------------------------
(***************************************************************************)
(* The review panel of a case (components/review-panel.tsx) over the case  *)
(* API.  A click changes the screen at once and is sent with the version   *)
(* the panel holds; the answer confirms the change or takes it back.       *)
(* Findings are settled once; facts are corrected as often as the reviewer *)
(* likes.  Other reviewers work on the same case.                          *)
(***************************************************************************)
EXTENDS Naturals, FiniteSets

CONSTANTS
    Findings, Facts,
    MaxClicks, MaxOthers    \* bounds: clicks here, changes made elsewhere

ASSUME PanelBounds == {MaxClicks, MaxOthers} \subseteq Nat

VARIABLES
    stored,         \* findings and facts of the case row: value, version
    caseVersion,    \* its version
    decided,        \* decisions recorded: <<click, version the panel held>>
    panel,          \* findings and facts on the screen: value, version
    panelVersion,   \* currentCaseVersion
    sent,           \* requests under way
    overlapped,     \* facts corrected again before the first answer
    clicks          \* clicks and foreign changes made

panelVars == <<stored, caseVersion, decided, panel, panelVersion, sent, overlapped, clicks>>

ReviewItems == Findings \union Facts

\* What an item shows: its state and, of a corrected fact, the number of the correction.
Is(state) == [state |-> state, made |-> 0]
Corrected(n) == [state |-> "confirmed", made |-> n]
Settlements == {Is("accepted"), Is("resolved")}

PanelInit ==
    /\ stored = [i \in ReviewItems |-> 
            [value |-> Is(IF i \in Findings THEN "open" ELSE "proposed"), version |-> 1]]
    /\ caseVersion = 1
    /\ decided = {}
    /\ panel = stored
    /\ panelVersion = 1
    /\ sent = {}
    /\ overlapped = {}
    /\ clicks = [here |-> 0, elsewhere |-> 0]

Click == clicks.here < MaxClicks /\ clicks' = [clicks EXCEPT !.here = @ + 1]

\* persist: a request carries what the panel held when it was clicked.
Ask(kind, i, value, version) ==
    [id |-> clicks.here, kind |-> kind, item |-> i, value |-> value, version |-> version,
     before |-> panel[i].value, answer |-> "none", newVersion |-> 0, newCase |-> 0]
Patch(i, value) == Ask("patch", i, value, panel[i].version)

Show(i, value) == panel' = [panel EXCEPT ![i].value = value]

\* setFindingState: the buttons are there while the finding is open on the screen.
SetFindingState(f, choice) ==
    /\ panel[f].value = Is("open")
    /\ Click
    /\ Show(f, choice)
    /\ sent' = sent \union {Patch(f, choice)}
    /\ UNCHANGED <<stored, caseVersion, decided, panelVersion, overlapped>>

\* saveCorrection.
SaveCorrection(f) ==
    /\ Click
    /\ Show(f, Corrected(clicks.here))
    /\ sent' = sent \union {Patch(f, Corrected(clicks.here))}
    /\ overlapped' = IF \E r \in sent : r.kind = "patch" /\ r.item = f THEN overlapped \union {f} ELSE overlapped
    /\ UNCHANGED <<stored, caseVersion, decided, panelVersion>>

Write(i, value) ==
    /\ stored' = [stored EXCEPT ![i] = [value |-> value, version |-> @.version + 1]]
    /\ caseVersion' = caseVersion + 1

Answers(r, change) == sent' = (sent \ {r}) \union {change}

\* Mutant: a decision is recorded whatever version the panel held.
AsHeldAnyway(r) == TRUE

\* The item, or for a decision the case, is as the panel held it.
AsHeld(r) == r.version = IF r.kind = "patch" THEN stored[r.item].version ELSE caseVersion

\* correctFact, resolveFinding and decide of the API.
ServeReview(r) ==
    /\ r.answer = "none"
    /\ IF AsHeld(r) /\ (r.kind = "approve" => \A f \in Findings : stored[f].value # Is("open"))
       THEN /\ IF r.kind = "patch" THEN Write(r.item, r.value) /\ UNCHANGED decided
               ELSE /\ decided' = decided \union {<<r.id, r.version>>}
                    /\ caseVersion' = caseVersion + 1
                    /\ UNCHANGED stored
            /\ Answers(r, [r EXCEPT !.answer = "saved", !.newVersion = r.version + 1,
                                    !.newCase = caseVersion + 1])
       ELSE Answers(r, [r EXCEPT !.answer = "refused"]) /\ UNCHANGED <<stored, caseVersion, decided>>
    /\ UNCHANGED <<panel, panelVersion, overlapped, clicks>>

\* The proxy gave up or the connection broke, before the API saw the request or after.
Breaks(r) ==
    /\ r.answer \in {"none", "saved"}
    /\ Answers(r, [r EXCEPT !.answer = "refused"])
    /\ UNCHANGED <<stored, caseVersion, decided, panel, panelVersion, overlapped, clicks>>

\* The answer brings the new versions; that of an approval is not read.
Confirmed(r) ==
    /\ r.answer = "saved"
    /\ panelVersion' = IF r.kind = "approve" THEN panelVersion ELSE r.newCase
    /\ panel' = IF r.kind = "patch" THEN [panel EXCEPT ![r.item].version = r.newVersion] ELSE panel
    /\ sent' = sent \ {r}
    /\ UNCHANGED <<stored, caseVersion, decided, overlapped, clicks>>

\* Mutant: the screen keeps what the reviewer chose.
KeptAsChosen(r) == panel[r.item].value

RolledBack(r) == r.before

TakenBack(r) ==
    /\ r.answer = "refused"
    /\ IF r.kind = "patch" THEN Show(r.item, RolledBack(r)) ELSE UNCHANGED panel
    /\ sent' = sent \ {r}
    /\ UNCHANGED <<stored, caseVersion, decided, panelVersion, overlapped, clicks>>

\* "Record decision": enabled when no finding is open on the screen.  A decision is kept in
\* the record of a request for some finding, which it does not touch.
Approve(f) ==
    /\ \A g \in Findings : panel[g].value # Is("open")
    /\ Click
    /\ sent' = sent \union {Ask("approve", f, panel[f].value, panelVersion)}
    /\ UNCHANGED <<stored, caseVersion, decided, panel, panelVersion, overlapped>>

\* recordInformationRequest, of an accepted finding: one at a time (requestSaving).
RequestInformation(f) ==
    /\ panel[f].value = Is("accepted")
    /\ ~ \E r \in sent : r.kind = "inform"
    /\ Click
    /\ sent' = sent \union {Ask("inform", f, panel[f].value, panelVersion)}
    /\ UNCHANGED <<stored, caseVersion, decided, panel, panelVersion, overlapped>>

\* Another reviewer settles a finding or corrects a fact.
OtherReviewer(i) ==
    /\ clicks.elsewhere < MaxOthers
    /\ clicks' = [clicks EXCEPT !.elsewhere = @ + 1]
    /\ IF i \in Findings
       THEN stored[i].value = Is("open") /\ \E choice \in Settlements : Write(i, choice)
       ELSE Write(i, Corrected(MaxClicks + clicks.elsewhere))
    /\ UNCHANGED <<decided, panel, panelVersion, sent, overlapped>>

PanelNext ==
    \/ \E f \in Findings, choice \in Settlements : SetFindingState(f, choice)
    \/ \E f \in Facts : SaveCorrection(f)
    \/ \E r \in sent : ServeReview(r) \/ Breaks(r) \/ Confirmed(r) \/ TakenBack(r)
    \/ \E i \in ReviewItems : OtherReviewer(i)
    \/ \E f \in Findings : Approve(f) \/ RequestInformation(f)

PanelSpec == PanelInit /\ [][PanelNext]_panelVars

-----------------------------------------------------------------------------
(* Properties. *)

\* What the screen holds at the version of the row is what the row holds, once the answers
\* are in: a choice that was refused, or made elsewhere first, is not left on the screen
\* as if it had been saved.  (A fact corrected again before the first answer is the case
\* that fails: the first refusal brings back the value under the second.)
ShownAsSaved ==
    \A i \in ReviewItems \ overlapped :
        (~ \E r \in sent : r.kind = "patch" /\ r.item = i) /\ panel[i].version = stored[i].version
            => panel[i].value = stored[i].value

\* A case version is decided on once: a second click, or an answer that was lost and a
\* click on the same screen, does not record a second decision.
DecidedOncePerVersion == \A d, e \in decided : d[2] = e[2] => d = e
=============================================================================
