---------------------------- MODULE ConsoleProofs ----------------------------
(***************************************************************************)
(* Proofs about the screens of the console: the session, the review panel, *)
(* the policy library and the notification feed, for any accounts,         *)
(* findings, facts, workspaces and collections, and however often anyone   *)
(* clicks.                                                                 *)
(***************************************************************************)
EXTENDS ConsoleSession, ReviewPanel, PolicyLibrary, NotificationFeed, ListLemmas

-----------------------------------------------------------------------------
(* The session of a browser. *)

\* A session a request may be served under: none, or one whose role the account had when it
\* was issued and, if it lost the role, lost since.
SoundSession(s) ==
    \/ s = NoSession
    \/ /\ s \in [role : Grants, issued : Nat]
       /\ s.issued <= now
       /\ s.role # provider.role => s.issued <= provider.since

\* What a request that renews its tokens came with: the role is not trusted, only its form.
SessionInv ==
    /\ now \in Nat
    /\ provider \in [sso : Nat, role : Grants \union {NoRole}, since : Nat, signIns : Nat]
    /\ provider.since <= now
    /\ cookies \in [session : [role : Grants \union {NoRole}, issued : Nat],
                    refresh : Nat, transaction : Nat]
    /\ SoundSession(cookies.session)
    /\ renewing \subseteq [session : [role : Grants \union {NoRole}, issued : Nat], refresh : Nat]
    /\ arriving \subseteq [session : [role : Grants \union {NoRole}, issued : Nat], refresh : Nat]
    /\ \A c \in arriving : SoundSession(c.session)
    /\ served.lost \in Nat
    /\ LostRolesExpire

LEMMA SessionInitially == SessionInit => SessionInv
<1> SUFFICES ASSUME SessionInit PROVE SessionInv
  OBVIOUS
<1>1. /\ Lifetime \in Nat /\ Margin \in Nat /\ Margin < Lifetime
  BY SessionAssumption
<1> QED
  BY <1>1 DEF SessionInit, SessionInv, SoundSession, NoCookies, NoSession, LostRolesExpire

\* The answer that clears the cookies carries no session.
LEMMA ClearedIsSound == 
    ASSUME SessionInv, Unauthenticated, UNCHANGED <<now, provider>>
    PROVE  /\ arriving' \subseteq [session : [role : Grants \union {NoRole}, issued : Nat], refresh : Nat]
           /\ \A c \in arriving' : SoundSession(c.session)'
BY DEF SessionInv, SoundSession, Unauthenticated, SetCookies, NoSession

\* A session that is served under a role its account lost was issued before the loss.
LEMMA ServedInTime ==
    ASSUME SessionInv, NEW s, SoundSession(s), s # NoSession, Usable(s), ServeAs(s)
    PROVE  served'.lost \in Nat /\ served'.lost < Lifetime
<1>1. Lifetime \in Nat /\ Margin \in Nat /\ Margin < Lifetime
  BY SessionAssumption
<1>2. /\ s.issued \in Nat /\ now \in Nat /\ provider.since \in Nat /\ provider.since <= now
      /\ s.role # provider.role => s.issued <= provider.since
      /\ s.issued + Lifetime > now + Margin
  BY DEF SessionInv, SoundSession, Usable
<1>3. served'.lost = IF s.role = provider.role THEN 0 ELSE now - provider.since
  BY DEF ServeAs
<1> QED  BY <1>1, <1>2, <1>3

\* The proxy: a request without a session, with a fresh one and with a stale one.
LEMMA VisitsKeepSession ==
    ASSUME SessionInv, VisitSignedOut \/ VisitFresh \/ VisitStale
    PROVE  SessionInv'
<1>1. CASE VisitSignedOut
  BY <1>1, ClearedIsSound DEF VisitSignedOut, SessionInv, SoundSession, LostRolesExpire
<1>2. CASE VisitFresh
  <2>1. served'.lost \in Nat /\ served'.lost < Lifetime
    BY <1>2, ServedInTime DEF VisitFresh, SessionInv
  <2> QED  BY <1>2, <2>1 DEF VisitFresh, SessionInv, SoundSession, LostRolesExpire
<1>3. CASE VisitStale
  BY <1>3 DEF VisitStale, SessionInv, SoundSession, LostRolesExpire
<1> QED  BY <1>1, <1>2, <1>3

\* A renewal ends in the cookies cleared, or in a session with the role of this moment: the
\* identity is read again from the ID token of the answer.
LEMMA RenewalKeepsSession ==
    ASSUME SessionInv, ReturnsIdToken, NEW r \in renewing, Renew(r) \/ RenewFails(r)
    PROVE  SessionInv'
<1>1. r \in [session : [role : Grants \union {NoRole}, issued : Nat], refresh : Nat]
  BY DEF SessionInv
<1>2. PICK s : s = Renewed(r.session)
  OBVIOUS
<1>9. s = [role |-> provider.role, issued |-> now]
  <2>1. PICK t \in [role : Grants \union {NoRole}, issued : Nat] : t = r.session
    BY <1>1
  <2>2. s = [[t EXCEPT !.role = provider.role] EXCEPT !.issued = now]
    BY <1>2, <2>1 DEF Renewed, Reread
  <2> QED  BY <2>1, <2>2
<1>3. CASE Unauthenticated /\ UNCHANGED <<served, now, provider, cookies>> /\ renewing' = renewing \ {r}
  BY <1>3, ClearedIsSound DEF SessionInv, SoundSession, LostRolesExpire
<1>4. CASE /\ ~ Refused(s.role) /\ ServeAs(s) /\ SetCookies(s, r.refresh)
           /\ UNCHANGED <<now, provider, cookies>> /\ renewing' = renewing \ {r}
  <2>1. s \in [role : Grants, issued : Nat]
    BY <1>9, <1>4 DEF SessionInv, Refused
  <2>2. SoundSession(s)'
    BY <1>9, <1>4, <2>1 DEF SoundSession, SessionInv
  <2>3. /\ arriving' \subseteq [session : [role : Grants \union {NoRole}, issued : Nat], refresh : Nat]
        /\ \A c \in arriving' : SoundSession(c.session)'
    <3>1. arriving' = arriving \union {[session |-> s, refresh |-> r.refresh]}
      BY <1>4 DEF SetCookies
    <3> QED  BY <1>1, <1>4, <2>1, <2>2, <3>1 DEF SessionInv, SoundSession
  <2>4. served'.lost = 0
    BY <1>9, <1>4 DEF ServeAs
  <2>5. Lifetime \in Nat /\ 0 < Lifetime
    BY SessionAssumption
  <2> QED  BY <1>4, <2>3, <2>4, <2>5 DEF SessionInv, SoundSession, LostRolesExpire
<1> QED  BY <1>2, <1>3, <1>4 DEF Renew, RenewFails

\* The cookies change with an answer, a sign-in or a sign-out.
LEMMA CookiesKeepSession ==
    ASSUME SessionInv,
           (\E c \in arriving : Receive(c)) \/ Login \/ (\E n \in 1..MaxSignIns : Callback(n)) \/ Logout
    PROVE  SessionInv'
<1>1. ASSUME NEW c \in arriving, Receive(c) PROVE SessionInv'
  BY <1>1 DEF Receive, SessionInv, SoundSession, LostRolesExpire
<1>2. CASE Login
  BY <1>2 DEF Login, SessionInv, SoundSession, LostRolesExpire
<1>3. ASSUME NEW n \in 1..MaxSignIns, Callback(n) PROVE SessionInv'
  <2>1. MaxSignIns \in Nat /\ n \in Nat
    BY SessionAssumption
  <2>2. PICK sso \in Nat : 
          /\ provider' = [provider EXCEPT !.sso = sso]
          /\ cookies' = IF cookies.transaction = n /\ ~ Refused(provider.role)
                        THEN [session |-> [role |-> provider.role, issued |-> now],
                              refresh |-> sso, transaction |-> 0]
                        ELSE [cookies EXCEPT !.transaction = 0]
    BY <1>3, <2>1 DEF Callback, SessionInv
  <2>3. UNCHANGED <<now, renewing, arriving, served>>
    BY <1>3 DEF Callback
  <2>4. /\ provider' \in [sso : Nat, role : Grants \union {NoRole}, since : Nat, signIns : Nat]
        /\ provider'.since = provider.since /\ provider'.role = provider.role
    BY <2>2 DEF SessionInv
  <2>5. /\ cookies' \in [session : [role : Grants \union {NoRole}, issued : Nat],
                         refresh : Nat, transaction : Nat]
        /\ SoundSession(cookies.session)'
    BY <2>2, <2>3, <2>4 DEF SessionInv, SoundSession, Refused
  <2> QED  BY <2>3, <2>4, <2>5 DEF SessionInv, SoundSession, LostRolesExpire
<1>4. CASE Logout
  <2>1. UNCHANGED <<now, renewing, arriving, served>> /\ NoRole \in Grants \union {NoRole} /\ 0 \in Nat
    BY <1>4 DEF Logout
  <2>2. /\ provider' \in [sso : Nat, role : Grants \union {NoRole}, since : Nat, signIns : Nat]
        /\ provider'.since = provider.since /\ provider'.role = provider.role
    BY <1>4, <2>1 DEF Logout, SessionInv
  <2>3. /\ cookies' \in [session : [role : Grants \union {NoRole}, issued : Nat],
                         refresh : Nat, transaction : Nat]
        /\ cookies'.session = NoSession
    <3>1. NoSession \in [role : Grants \union {NoRole}, issued : Nat]
      BY DEF NoSession
    <3> QED  BY <1>4, <2>1, <3>1 DEF Logout, SessionInv
  <2>4. SoundSession(cookies.session)' /\ \A c \in arriving' : SoundSession(c.session)'
    BY <2>1, <2>2, <2>3 DEF SessionInv, SoundSession, NoSession
  <2> QED  BY <2>1, <2>2, <2>3, <2>4 DEF SessionInv, LostRolesExpire
<1> QED  BY <1>1, <1>2, <1>3, <1>4

\* The provider ends a session or changes a role, and time passes.
LEMMA ProviderKeepsSession ==
    ASSUME SessionInv,
           ProviderEnds \/ (\E role \in Grants \union {NoRole} : Regrant(role)) \/ Tick
    PROVE  SessionInv'
<1>1. CASE ProviderEnds
  BY <1>1 DEF ProviderEnds, SessionInv, SoundSession, LostRolesExpire
<1>2. ASSUME NEW role \in Grants \union {NoRole}, Regrant(role) PROVE SessionInv'
  <2>1. /\ provider' \in [sso : Nat, role : Grants \union {NoRole}, since : Nat, signIns : Nat]
        /\ provider'.since = now
    BY <1>2 DEF Regrant, SessionInv
  <2>2. UNCHANGED <<now, cookies, renewing, arriving, served>>
    BY <1>2 DEF Regrant
  <2>3. ASSUME NEW s, SoundSession(s) PROVE SoundSession(s)'
    BY <2>1, <2>2, <2>3 DEF SoundSession, NoSession
  <2>4. SoundSession(cookies.session)' /\ \A c \in arriving' : SoundSession(c.session)'
    BY <2>2, <2>3 DEF SessionInv
  <2> QED  BY <2>1, <2>2, <2>4 DEF SessionInv, LostRolesExpire
<1>3. CASE Tick
  BY <1>3 DEF Tick, SessionInv, SoundSession, LostRolesExpire
<1> QED  BY <1>1, <1>2, <1>3

\* A role taken away at the provider is gone within one lifetime of an access token,
\* whichever answer set the cookies last, when the provider answers a refresh with an ID
\* token.
THEOREM RolesExpire ==
    ASSUME ReturnsIdToken
    PROVE  SessionSpec => []LostRolesExpire
<1>1. SessionInit => SessionInv
  BY SessionInitially
<1>2. SessionInv /\ [SessionNext]_sessionVars => SessionInv'
  <2> SUFFICES ASSUME SessionInv, [SessionNext]_sessionVars PROVE SessionInv'
    OBVIOUS
  <2>1. CASE UNCHANGED sessionVars
    BY <2>1 DEF sessionVars, SessionInv, SoundSession, LostRolesExpire
  <2> QED
    BY <2>1, VisitsKeepSession, RenewalKeepsSession, CookiesKeepSession, ProviderKeepsSession
       DEF SessionNext
<1>3. SessionInv => LostRolesExpire
  BY DEF SessionInv
<1> QED  BY <1>1, <1>2, <1>3, PTL DEF SessionSpec

-----------------------------------------------------------------------------
(* The review panel: decisions. *)

\* A version that was decided on is behind the case.
DecisionsInv ==
    /\ caseVersion \in Nat
    /\ \A d \in decided : d[2] \in Nat /\ d[2] < caseVersion
    /\ DecidedOncePerVersion

\* Serving a request writes the item, records the decision on the version of the case, or
\* leaves both alone.
LEMMA ServeKeepsDecisions ==
    ASSUME DecisionsInv, NEW r, ServeReview(r)
    PROVE  DecisionsInv'
<1>1. caseVersion + 1 \in Nat /\ caseVersion < caseVersion + 1
  BY DEF DecisionsInv
<1>2. CASE UNCHANGED <<caseVersion, decided>>
  BY <1>2 DEF DecisionsInv, DecidedOncePerVersion
<1>3. CASE caseVersion' = caseVersion + 1 /\ UNCHANGED decided
  BY <1>1, <1>3 DEF DecisionsInv, DecidedOncePerVersion
<1>4. CASE /\ r.version = caseVersion /\ caseVersion' = caseVersion + 1
           /\ decided' = decided \union {<<r.id, r.version>>}
  <2>1. \A d \in decided : d[2] # <<r.id, r.version>>[2]
    BY <1>4 DEF DecisionsInv
  <2>2. DecidedOncePerVersion'
    BY <1>4, <2>1 DEF DecisionsInv, DecidedOncePerVersion
  <2>3. \A d \in decided' : d[2] \in Nat /\ d[2] < caseVersion'
    BY <1>1, <1>4 DEF DecisionsInv
  <2> QED  BY <1>1, <1>4, <2>2, <2>3 DEF DecisionsInv
<1> QED  BY <1>2, <1>3, <1>4 DEF ServeReview, AsHeld, Write

\* Everything else leaves the decisions alone, and at most moves the case on.
LEMMA PanelKeepsDecisions ==
    ASSUME DecisionsInv, [PanelNext]_panelVars
    PROVE  DecisionsInv'
<1>1. ASSUME NEW r \in sent, ServeReview(r) PROVE DecisionsInv'
  BY <1>1, ServeKeepsDecisions
<1>2. CASE UNCHANGED <<caseVersion, decided>>
  BY <1>2 DEF DecisionsInv, DecidedOncePerVersion
<1>3. ASSUME NEW i \in ReviewItems, OtherReviewer(i) PROVE DecisionsInv'
  <2>1. caseVersion' = caseVersion + 1 /\ UNCHANGED decided
    BY <1>3 DEF OtherReviewer, Write
  <2> QED  BY <2>1 DEF DecisionsInv, DecidedOncePerVersion
<1> QED
  BY <1>1, <1>2, <1>3 DEF PanelNext, panelVars, SetFindingState, SaveCorrection, Breaks,
     Confirmed, TakenBack, Approve, RequestInformation

\* A case version is decided on once, however often the reviewer clicks, and whatever
\* becomes of the answers.
THEOREM OneDecisionPerVersion == PanelSpec => []DecidedOncePerVersion
<1>1. PanelInit => DecisionsInv
  BY DEF PanelInit, DecisionsInv, DecidedOncePerVersion
<1>2. DecisionsInv /\ [PanelNext]_panelVars => DecisionsInv'
  BY PanelKeepsDecisions
<1>3. DecisionsInv => DecidedOncePerVersion
  BY DEF DecisionsInv
<1> QED  BY <1>1, <1>2, <1>3, PTL DEF PanelSpec

-----------------------------------------------------------------------------
(* The review panel: what is on the screen. *)

Shows == [state : {"open", "accepted", "resolved", "proposed", "confirmed"}, made : Nat]
Item == [value : Shows, version : Nat]
Request == [id : Nat, kind : {"patch", "approve", "inform"}, item : ReviewItems, value : Shows,
            version : Nat, before : Shows, answer : {"none", "saved", "refused"},
            newVersion : Nat, newCase : Nat]

PanelTypeOK ==
    /\ stored \in [ReviewItems -> Item]
    /\ panel \in [ReviewItems -> Item]
    /\ caseVersion \in Nat /\ panelVersion \in Nat
    /\ sent \subseteq Request
    /\ clicks \in [here : Nat, elsewhere : Nat]

PatchesOf(i) == {r \in sent : r.kind = "patch" /\ r.item = i}

\* What a change under way says of the row and of the screen.
SoundPatch(r) ==
    LET row == stored[r.item]
        screen == panel[r.item]
    IN  /\ screen.value = r.value
        /\ r.value # Is("open")
        /\ r.answer = "none" => r.version = screen.version
        /\ r.answer = "saved" => /\ r.newVersion = r.version + 1
                                 /\ screen.version < row.version
                                 /\ r.newVersion <= row.version
                                 /\ row.version = r.newVersion => row.value = r.value
        /\ r.answer # "saved" /\ screen.version = row.version => r.before = row.value

\* Of an item that no one corrected twice at once: the screen is not ahead of the row, one
\* change at most is under way, and without one equal versions show equal values.
SoundItem(i) ==
    /\ panel[i].version <= stored[i].version
    /\ \A r, s \in PatchesOf(i) : r = s
    /\ \A r \in PatchesOf(i) : SoundPatch(r)
    /\ PatchesOf(i) = {} /\ panel[i].version = stored[i].version => panel[i].value = stored[i].value

PanelInv == PanelTypeOK /\ \A i \in ReviewItems \ overlapped : SoundItem(i)

\* An item that nothing touches stays sound.
LEMMA UntouchedItem ==
    ASSUME PanelTypeOK, NEW i, SoundItem(i),
           UNCHANGED <<stored[i], panel[i]>>, PatchesOf(i)' = PatchesOf(i)
    PROVE  SoundItem(i)'
BY DEF SoundItem, SoundPatch, PatchesOf

\* Of a request that is answered, the changes under way differ for its item alone.
LEMMA AnsweredPatches ==
    ASSUME NEW r \in sent, NEW change, change.kind = r.kind, change.item = r.item,
           Answers(r, change), NEW i
    PROVE  /\ r \notin PatchesOf(i) => PatchesOf(i)' = PatchesOf(i)
           /\ (\A s \in PatchesOf(i) : s = r) /\ r \in PatchesOf(i) => PatchesOf(i)' = {change}
BY DEF PatchesOf, Answers

LEMMA RemovedPatches ==
    ASSUME NEW r \in sent, sent' = sent \ {r}, NEW i
    PROVE  /\ r \notin PatchesOf(i) => PatchesOf(i)' = PatchesOf(i)
           /\ (\A s \in PatchesOf(i) : s = r) /\ r \in PatchesOf(i) => PatchesOf(i)' = {}
BY DEF PatchesOf

\* A request has the form of a request.
LEMMA AskTyped ==
    ASSUME PanelTypeOK, NEW kind \in {"patch", "approve", "inform"}, NEW i \in ReviewItems,
           NEW value \in Shows, NEW version \in Nat
    PROVE  Ask(kind, i, value, version) \in Request
<1>1. clicks.here \in Nat /\ panel[i].value \in Shows /\ 0 \in Nat
  BY DEF PanelTypeOK, Item
<1> QED  BY <1>1 DEF Ask, Request

\* A change of an item on the screen, with no other under way, keeps the panel sound.
LEMMA ChoiceKeepsPanel ==
    ASSUME PanelInv, NEW i \in ReviewItems, NEW value \in Shows, value # Is("open"),
           Click, Show(i, value), sent' = sent \union {Patch(i, value)},
           UNCHANGED <<stored, caseVersion, panelVersion>>,
           overlapped \subseteq overlapped', i \notin overlapped' => PatchesOf(i) = {}
    PROVE  PanelInv'
<1> PICK p : p = Patch(i, value)
  OBVIOUS
<1>1. /\ p \in Request /\ p.kind = "patch" /\ p.item = i /\ p.value = value /\ p.answer = "none"
      /\ p.version = panel[i].version /\ p.before = panel[i].value
  BY AskTyped DEF Patch, Ask, PanelInv, PanelTypeOK, Item
<1>2. /\ panel' \in [ReviewItems -> Item] /\ panel'[i].value = value
      /\ panel'[i].version = panel[i].version
      /\ \A j \in ReviewItems \ {i} : panel'[j] = panel[j]
  BY DEF Show, PanelInv, PanelTypeOK, Item
<1>3. PanelTypeOK'
  <2>1. clicks' \in [here : Nat, elsewhere : Nat]
    BY DEF PanelInv, PanelTypeOK, Click
  <2> QED  BY <1>1, <1>2, <2>1 DEF PanelInv, PanelTypeOK
<1>4. ASSUME NEW j \in ReviewItems \ overlapped', j # i PROVE SoundItem(j)'
  <2>1. PatchesOf(j)' = PatchesOf(j)
    BY <1>1, <1>4 DEF PatchesOf
  <2> QED  BY <1>2, <1>4, <2>1, UntouchedItem DEF PanelInv
<1>5. ASSUME i \notin overlapped' PROVE SoundItem(i)'
  <2>1. PatchesOf(i)' = {p}
    BY <1>1, <1>5 DEF PatchesOf
  <2>2. SoundItem(i) /\ PatchesOf(i) = {} /\ UNCHANGED stored
    BY <1>5 DEF PanelInv
  <2>3. SoundPatch(p)'
    BY <1>1, <1>2, <2>2 DEF SoundPatch, SoundItem
  <2> QED  BY <1>2, <2>1, <2>2, <2>3 DEF SoundItem
<1> QED  BY <1>3, <1>4, <1>5 DEF PanelInv

LEMMA ChoicesKeepPanel ==
    ASSUME PanelInv,
           \/ \E f \in Findings, choice \in Settlements : SetFindingState(f, choice)
           \/ \E f \in Facts : SaveCorrection(f)
    PROVE  PanelInv'
<1>1. ASSUME NEW f \in Findings, NEW choice \in Settlements, SetFindingState(f, choice)
      PROVE  PanelInv'
  <2>1. f \in ReviewItems /\ choice \in Shows /\ choice # Is("open")
    BY DEF ReviewItems, Settlements, Is, Shows
  <2>2. f \notin overlapped => PatchesOf(f) = {}
    BY <1>1, <2>1 DEF SetFindingState, PanelInv, SoundItem, SoundPatch, PatchesOf
  <2>3. /\ Click /\ Show(f, choice) /\ sent' = sent \union {Patch(f, choice)}
        /\ UNCHANGED <<stored, caseVersion, panelVersion, overlapped>>
    BY <1>1 DEF SetFindingState
  <2> QED  BY <2>1, <2>2, <2>3, ChoiceKeepsPanel
<1>2. ASSUME NEW f \in Facts, SaveCorrection(f) PROVE PanelInv'
  <2> PICK value : value = Corrected(clicks.here)
    OBVIOUS
  <2>1. f \in ReviewItems /\ value \in Shows /\ value # Is("open")
    <3>1. clicks.here \in Nat
      BY DEF PanelInv, PanelTypeOK
    <3> QED  BY <3>1 DEF ReviewItems, Corrected, Is, Shows
  <2>2. overlapped \subseteq overlapped' /\ (f \notin overlapped' => PatchesOf(f) = {})
    BY <1>2 DEF SaveCorrection, PatchesOf
  <2>3. /\ Click /\ Show(f, value) /\ sent' = sent \union {Patch(f, value)}
        /\ UNCHANGED <<stored, caseVersion, panelVersion>>
    BY <1>2 DEF SaveCorrection
  <2> QED  BY <2>1, <2>2, <2>3, ChoiceKeepsPanel
<1> QED  BY <1>1, <1>2

\* A decision or a question under way changes nothing on the screen.
LEMMA AsksKeepPanel ==
    ASSUME PanelInv, NEW f \in Findings, Approve(f) \/ RequestInformation(f)
    PROVE  PanelInv'
<1>1. PICK kind \in {"approve", "inform"} : 
        /\ Click /\ sent' = sent \union {Ask(kind, f, panel[f].value, panelVersion)}
        /\ UNCHANGED <<stored, caseVersion, decided, panel, panelVersion, overlapped>>
  BY DEF Approve, RequestInformation
<1> PICK q : q = Ask(kind, f, panel[f].value, panelVersion)
  OBVIOUS
<1>2. q \in Request /\ q.kind # "patch"
  BY AskTyped DEF Ask, PanelInv, PanelTypeOK, ReviewItems, Item
<1>3. PanelTypeOK'
  BY <1>1, <1>2 DEF PanelInv, PanelTypeOK, Click
<1>4. \A i : PatchesOf(i)' = PatchesOf(i)
  BY <1>1, <1>2 DEF PatchesOf
<1> QED  BY <1>1, <1>3, <1>4, UntouchedItem DEF PanelInv

\* Writing an item moves its row past every version that was read before.
LEMMA WriteTyped ==
    ASSUME PanelTypeOK, NEW i \in ReviewItems, NEW value \in Shows, Write(i, value)
    PROVE  /\ stored' \in [ReviewItems -> Item] /\ caseVersion' \in Nat
           /\ stored'[i].value = value /\ stored'[i].version = stored[i].version + 1
           /\ \A j \in ReviewItems \ {i} : stored'[j] = stored[j]
<1>1. stored[i].version + 1 \in Nat /\ caseVersion + 1 \in Nat
  BY DEF PanelTypeOK, Item
<1> QED  BY <1>1 DEF Write, PanelTypeOK, Item

LEMMA OthersKeepPanel ==
    ASSUME PanelInv, NEW i \in ReviewItems, OtherReviewer(i)
    PROVE  PanelInv'
<1>1. PICK value \in Shows : Write(i, value)
  <2>1. Settlements \subseteq Shows
    BY DEF Settlements, Shows, Is
  <2>2. Corrected(MaxClicks + clicks.elsewhere) \in Shows
    BY PanelBounds DEF Corrected, Shows, PanelInv, PanelTypeOK
  <2> QED  BY <2>1, <2>2 DEF OtherReviewer
<1>2. UNCHANGED <<panel, panelVersion, sent, overlapped>> /\ clicks' \in [here : Nat, elsewhere : Nat]
  BY DEF OtherReviewer, PanelInv, PanelTypeOK
<1>3. PanelTypeOK'
  BY <1>1, <1>2, WriteTyped DEF PanelInv, PanelTypeOK
<1>4. \A j : PatchesOf(j)' = PatchesOf(j)
  BY <1>2 DEF PatchesOf
<1>5. ASSUME NEW j \in ReviewItems \ overlapped', j # i PROVE SoundItem(j)'
  BY <1>1, <1>2, <1>4, <1>5, WriteTyped, UntouchedItem DEF PanelInv
<1>6. ASSUME i \notin overlapped' PROVE SoundItem(i)'
  <2>1. SoundItem(i)
    BY <1>2, <1>6 DEF PanelInv
  <2>2. stored'[i].version = stored[i].version + 1 /\ stored[i].version \in Nat /\ panel[i].version \in Nat
    BY <1>1, WriteTyped DEF PanelInv, PanelTypeOK, Item
  <2>3. \A r \in PatchesOf(i) : r.item = i /\ r.newVersion \in Nat
    BY DEF PatchesOf, PanelInv, PanelTypeOK, Request
  <2>4. \A r \in PatchesOf(i) : SoundPatch(r)'
    BY <1>2, <2>1, <2>2, <2>3 DEF SoundItem, SoundPatch
  <2> QED  BY <1>2, <1>4, <2>1, <2>2, <2>4 DEF SoundItem
<1> QED  BY <1>3, <1>5, <1>6 DEF PanelInv

\* Answering or dropping a request touches the items it is about, and no other.
LEMMA AnswersKeepOthers ==
    ASSUME PanelInv, NEW r \in sent, NEW change \in Request,
           change.kind = r.kind, change.item = r.item,
           Answers(r, change) \/ sent' = sent \ {r},
           NEW j \in ReviewItems \ overlapped, UNCHANGED <<stored[j], panel[j]>>,
           r \notin PatchesOf(j)
    PROVE  SoundItem(j)'
<1>1. PatchesOf(j)' = PatchesOf(j)
  BY AnsweredPatches, RemovedPatches
<1> QED  BY <1>1, UntouchedItem DEF PanelInv

LEMMA ServesKeepPanel ==
    ASSUME PanelInv, NEW r \in sent, ServeReview(r)
    PROVE  PanelInv'
<1>1. r \in Request /\ r.item \in ReviewItems /\ r.value \in Shows /\ r.version \in Nat
  BY DEF PanelInv, PanelTypeOK, Request
<1>2. r.version + 1 \in Nat /\ caseVersion + 1 \in Nat
  BY <1>1 DEF PanelInv, PanelTypeOK
<1>3. UNCHANGED <<panel, panelVersion, overlapped, clicks>> /\ r.answer = "none"
  BY DEF ServeReview
<1>4. CASE Answers(r, [r EXCEPT !.answer = "refused"]) /\ UNCHANGED <<stored, caseVersion>>
  <2> PICK q : q = [r EXCEPT !.answer = "refused"]
    OBVIOUS
  <2>1. /\ q \in Request /\ q.kind = r.kind /\ q.item = r.item /\ q.answer = "refused"
        /\ q.value = r.value /\ q.before = r.before
    BY <1>1 DEF Request
  <2>2. PanelTypeOK'
    BY <1>3, <1>4, <2>1 DEF PanelInv, PanelTypeOK, Answers
  <2>3. ASSUME NEW j \in ReviewItems \ overlapped, r \notin PatchesOf(j) PROVE SoundItem(j)'
    BY <1>3, <1>4, <2>1, <2>3, AnswersKeepOthers
  <2>4. ASSUME NEW j \in ReviewItems \ overlapped, r \in PatchesOf(j) PROVE SoundItem(j)'
    <3>1. SoundItem(j) /\ j = r.item /\ SoundPatch(r)
      BY <2>4 DEF PanelInv, SoundItem, PatchesOf
    <3>2. PatchesOf(j)' = {q}
      BY <1>4, <2>1, <2>4, <3>1, AnsweredPatches DEF SoundItem
    <3>3. SoundPatch(q)'
      BY <1>3, <1>4, <2>1, <3>1 DEF SoundPatch
    <3> QED  BY <1>3, <1>4, <3>1, <3>2, <3>3 DEF SoundItem
  <2> QED  BY <1>3, <2>2, <2>3, <2>4 DEF PanelInv
<1>5. ASSUME NEW q \in Request, Answers(r, q), AsHeld(r),
             q = [r EXCEPT !.answer = "saved", !.newVersion = r.version + 1,
                           !.newCase = caseVersion + 1],
             IF r.kind = "patch" THEN Write(r.item, r.value)
             ELSE caseVersion' = caseVersion + 1 /\ UNCHANGED stored
      PROVE  PanelInv'
  <2>1. /\ q.kind = r.kind /\ q.item = r.item /\ q.answer = "saved" /\ q.value = r.value
        /\ q.newVersion = r.version + 1 /\ q.version = r.version
    BY <1>1, <1>5 DEF Request
  <2>2. stored' \in [ReviewItems -> Item] /\ caseVersion' \in Nat
    BY <1>1, <1>2, <1>5, WriteTyped DEF PanelInv, PanelTypeOK
  <2>3. PanelTypeOK'
    BY <1>3, <1>5, <2>2 DEF PanelInv, PanelTypeOK, Answers
  <2>4. ASSUME NEW j \in ReviewItems \ overlapped, r \notin PatchesOf(j) PROVE SoundItem(j)'
    <3>1. stored'[j] = stored[j]
      BY <1>1, <1>5, <2>4, WriteTyped DEF PatchesOf, PanelInv
    <3> QED  BY <1>3, <1>5, <2>1, <2>4, <3>1, AnswersKeepOthers
  <2>5. ASSUME NEW j \in ReviewItems \ overlapped, r \in PatchesOf(j) PROVE SoundItem(j)'
    <3>1. SoundItem(j) /\ j = r.item /\ r.kind = "patch" /\ SoundPatch(r)
      BY <2>5 DEF PanelInv, SoundItem, PatchesOf
    <3>2. PatchesOf(j)' = {q}
      BY <1>5, <2>1, <2>5, <3>1, AnsweredPatches DEF SoundItem
    <3>3. /\ stored'[j].value = r.value /\ stored'[j].version = r.version + 1
          /\ stored[j].version = r.version /\ panel[j].version = r.version
      BY <1>1, <1>3, <1>5, <3>1, WriteTyped DEF PanelInv, AsHeld, SoundPatch
    <3>4. SoundPatch(q)'
      BY <1>1, <1>3, <2>1, <3>1, <3>3 DEF SoundPatch
    <3> QED  BY <1>1, <1>3, <3>2, <3>3, <3>4 DEF SoundItem
  <2> QED  BY <1>3, <2>3, <2>4, <2>5 DEF PanelInv
<1>6. [r EXCEPT !.answer = "saved", !.newVersion = r.version + 1,
                !.newCase = caseVersion + 1] \in Request
  BY <1>1, <1>2 DEF Request
<1> QED  BY <1>4, <1>5, <1>6 DEF ServeReview

LEMMA BreaksKeepPanel ==
    ASSUME PanelInv, NEW r \in sent, Breaks(r)
    PROVE  PanelInv'
<1> PICK q : q = [r EXCEPT !.answer = "refused"]
  OBVIOUS
<1>1. r \in Request
  BY DEF PanelInv, PanelTypeOK
<1>2. /\ q \in Request /\ q.kind = r.kind /\ q.item = r.item /\ q.answer = "refused"
      /\ q.value = r.value /\ q.before = r.before
  BY <1>1 DEF Request
<1>3. /\ Answers(r, q) /\ r.answer \in {"none", "saved"}
      /\ UNCHANGED <<stored, caseVersion, panel, panelVersion, overlapped, clicks>>
  BY DEF Breaks
<1>4. PanelTypeOK'
  BY <1>2, <1>3 DEF PanelInv, PanelTypeOK, Answers
<1>5. ASSUME NEW j \in ReviewItems \ overlapped, r \notin PatchesOf(j) PROVE SoundItem(j)'
  BY <1>2, <1>3, <1>5, AnswersKeepOthers
<1>6. ASSUME NEW j \in ReviewItems \ overlapped, r \in PatchesOf(j) PROVE SoundItem(j)'
  <2>1. SoundItem(j) /\ j = r.item /\ SoundPatch(r)
    BY <1>6 DEF PanelInv, SoundItem, PatchesOf
  <2>2. PatchesOf(j)' = {q}
    BY <1>2, <1>3, <1>6, <2>1, AnsweredPatches DEF SoundItem
  <2>3. panel[j].version \in Nat /\ stored[j].version \in Nat
    BY <1>6 DEF PanelInv, PanelTypeOK, Item
  <2>4. SoundPatch(q)'
    BY <1>2, <1>3, <2>1, <2>3 DEF SoundPatch
  <2> QED  BY <1>3, <2>1, <2>2, <2>4 DEF SoundItem
<1> QED  BY <1>3, <1>4, <1>5, <1>6 DEF PanelInv

\* An answer on the screen: the new version, or the value from before the click.
LEMMA ConfirmsKeepPanel ==
    ASSUME PanelInv, NEW r \in sent, Confirmed(r)
    PROVE  PanelInv'
<1>1. r \in Request /\ r.item \in ReviewItems /\ r.newVersion \in Nat /\ r.newCase \in Nat
  BY DEF PanelInv, PanelTypeOK, Request
<1>2. /\ r.answer = "saved" /\ sent' = sent \ {r}
      /\ panel' = IF r.kind = "patch" THEN [panel EXCEPT ![r.item].version = r.newVersion] ELSE panel
      /\ panelVersion' = IF r.kind = "approve" THEN panelVersion ELSE r.newCase
      /\ UNCHANGED <<stored, caseVersion, overlapped, clicks>>
  BY DEF Confirmed
<1>3. /\ panel' \in [ReviewItems -> Item]
      /\ r.kind = "patch" => /\ panel'[r.item].value = panel[r.item].value
                             /\ panel'[r.item].version = r.newVersion
      /\ \A j \in ReviewItems : r.kind # "patch" \/ j # r.item => panel'[j] = panel[j]
  BY <1>1, <1>2 DEF PanelInv, PanelTypeOK, Item
<1>4. PanelTypeOK'
  BY <1>1, <1>2, <1>3 DEF PanelInv, PanelTypeOK
<1>5. ASSUME NEW j \in ReviewItems \ overlapped, r \notin PatchesOf(j) PROVE SoundItem(j)'
  <2>1. panel'[j] = panel[j]
    BY <1>3, <1>5 DEF PatchesOf
  <2> QED  BY <1>1, <1>2, <1>5, <2>1, AnswersKeepOthers
<1>6. ASSUME NEW j \in ReviewItems \ overlapped, r \in PatchesOf(j) PROVE SoundItem(j)'
  <2>1. SoundItem(j) /\ j = r.item /\ r.kind = "patch" /\ SoundPatch(r)
    BY <1>6 DEF PanelInv, SoundItem, PatchesOf
  <2>2. PatchesOf(j)' = {}
    BY <1>2, <1>6, <2>1, RemovedPatches DEF SoundItem
  <2> QED  BY <1>2, <1>3, <2>1, <2>2 DEF SoundItem, SoundPatch
<1> QED  BY <1>2, <1>4, <1>5, <1>6 DEF PanelInv

LEMMA RollbacksKeepPanel ==
    ASSUME PanelInv, NEW r \in sent, TakenBack(r)
    PROVE  PanelInv'
<1>1. r \in Request /\ r.item \in ReviewItems /\ r.before \in Shows
  BY DEF PanelInv, PanelTypeOK, Request
<1>2. /\ r.answer = "refused" /\ sent' = sent \ {r}
      /\ panel' = IF r.kind = "patch" THEN [panel EXCEPT ![r.item].value = r.before] ELSE panel
      /\ UNCHANGED <<stored, caseVersion, panelVersion, overlapped, clicks>>
  BY DEF TakenBack, Show, RolledBack
<1>3. /\ panel' \in [ReviewItems -> Item]
      /\ r.kind = "patch" => /\ panel'[r.item].value = r.before
                             /\ panel'[r.item].version = panel[r.item].version
      /\ \A j \in ReviewItems : r.kind # "patch" \/ j # r.item => panel'[j] = panel[j]
  BY <1>1, <1>2 DEF PanelInv, PanelTypeOK, Item
<1>4. PanelTypeOK'
  BY <1>1, <1>2, <1>3 DEF PanelInv, PanelTypeOK
<1>5. ASSUME NEW j \in ReviewItems \ overlapped, r \notin PatchesOf(j) PROVE SoundItem(j)'
  <2>1. panel'[j] = panel[j]
    BY <1>3, <1>5 DEF PatchesOf
  <2> QED  BY <1>1, <1>2, <1>5, <2>1, AnswersKeepOthers
<1>6. ASSUME NEW j \in ReviewItems \ overlapped, r \in PatchesOf(j) PROVE SoundItem(j)'
  <2>1. SoundItem(j) /\ j = r.item /\ r.kind = "patch" /\ SoundPatch(r)
    BY <1>6 DEF PanelInv, SoundItem, PatchesOf
  <2>2. PatchesOf(j)' = {}
    BY <1>2, <1>6, <2>1, RemovedPatches DEF SoundItem
  <2> QED  BY <1>2, <1>3, <2>1, <2>2 DEF SoundItem, SoundPatch
<1> QED  BY <1>2, <1>4, <1>5, <1>6 DEF PanelInv

LEMMA PanelInitially == PanelInit => PanelInv
<1> SUFFICES ASSUME PanelInit PROVE PanelInv
  OBVIOUS
<1>1. \A i \in ReviewItems : [value |-> Is(IF i \in Findings THEN "open" ELSE "proposed"), version |-> 1] \in Item
  BY DEF Is, Shows, Item
<1>2. PanelTypeOK
  BY <1>1 DEF PanelInit, PanelTypeOK
<1> QED  BY <1>2 DEF PanelInit, PanelInv, SoundItem, PatchesOf, PanelTypeOK, Item

\* What the screen holds at the version of the row is what the row holds, once the answers
\* are in, for every item no one corrected twice before the first answer.
THEOREM ScreenShowsWhatIsSaved == PanelSpec => []ShownAsSaved
<1>1. PanelInit => PanelInv
  BY PanelInitially
<1>2. PanelInv /\ [PanelNext]_panelVars => PanelInv'
  <2> SUFFICES ASSUME PanelInv, [PanelNext]_panelVars PROVE PanelInv'
    OBVIOUS
  <2>1. CASE UNCHANGED panelVars
    BY <2>1 DEF panelVars, PanelInv, PanelTypeOK, SoundItem, SoundPatch, PatchesOf
  <2>2. ASSUME NEW r \in sent, ServeReview(r) \/ Breaks(r) \/ Confirmed(r) \/ TakenBack(r)
        PROVE  PanelInv'
    BY <2>2, ServesKeepPanel, BreaksKeepPanel, ConfirmsKeepPanel, RollbacksKeepPanel
  <2> QED
    BY <2>1, <2>2, ChoicesKeepPanel, AsksKeepPanel, OthersKeepPanel DEF PanelNext
<1>3. PanelInv => ShownAsSaved
  BY DEF PanelInv, SoundItem, PatchesOf, ShownAsSaved
<1> QED  BY <1>1, <1>2, <1>3, PTL DEF PanelSpec

-----------------------------------------------------------------------------
(* The policy library. *)

AllProposed == UNION {Proposed[t] : t \in Tenants}
Load == [tenant : Tenants \union {NoOne}, state : {"loading", "ready", "error"},
         items : SUBSET (Collections \union AllProposed)]
ReadUnderWay == [tenant : Tenants \union {NoOne}, answered : BOOLEAN,
                 items : SUBSET (Collections \union AllProposed)]
Upload == [step : {"sent", "reload", "answered"}, tenant : Tenants,
           into : Collections \union {Classify, NewCollection},
           filed : Collections \union {NoOne}, ok : BOOLEAN]

LibraryTypeOK ==
    /\ declared \in [Tenants -> SUBSET Collections]
    /\ proposals \in [Tenants -> SUBSET AllProposed]
    /\ tenantId \in Tenants
    /\ reads \in [{"pack", "list"} -> ReadUnderWay]
    /\ packLoad \in Load /\ listLoad \in Load
    /\ \A d \in deciding : d.prior \in Load
    /\ uploading \in {NoUpload} \union Upload

\* What a workspace may ever show of the pack and of the list.
OwnItems(what, t) == IF what = "pack" THEN declared[t] ELSE Proposed[t]
OwnLoad(what, load) == load.tenant \in Tenants => load.items \subseteq OwnItems(what, load.tenant)

\* Every answer under way, every load and every load kept for a refusal is of one workspace.
LibraryInv ==
    /\ LibraryTypeOK
    /\ \A t \in Tenants : proposals[t] \subseteq Proposed[t]
    /\ \A what \in {"pack", "list"} : OwnLoad(what, reads[what])
    /\ OwnLoad("pack", packLoad) /\ OwnLoad("list", listLoad)
    /\ \A d \in deciding : OwnLoad("list", d.prior)
    /\ UploadsIntoDeclared

\* Collections are only added, and the rest follows the actions.
LEMMA OwnLoadsStay ==
    ASSUME \A t \in Tenants : declared[t] \subseteq declared'[t],
           NEW what, NEW load, OwnLoad(what, load)
    PROVE  OwnLoad(what, load)'
BY DEF OwnLoad, OwnItems

LEMMA NothingLoaded ==
    /\ NotLoaded \in Load
    /\ \A what : OwnLoad(what, NotLoaded)
    /\ \A t \in Tenants : Reading(t) \in ReadUnderWay
    /\ \A what, t : OwnLoad(what, Reading(t))
BY DEF NotLoaded, Load, OwnLoad, Reading, ReadUnderWay

LEMMA LibraryInitially == LibraryInit => LibraryInv
<1> SUFFICES ASSUME LibraryInit PROVE LibraryInv
  OBVIOUS
<1>1. tenantId \in Tenants /\ packLoad = NotLoaded /\ listLoad = NotLoaded /\ deciding = {}
  BY DEF LibraryInit
<1>2. \A what \in {"pack", "list"} : reads[what] = Reading(tenantId)
  BY DEF LibraryInit
<1>3. reads \in [{"pack", "list"} -> ReadUnderWay]
  BY <1>1, NothingLoaded DEF LibraryInit
<1>4. proposals \in [Tenants -> SUBSET AllProposed]
  BY LibraryAssumption DEF LibraryInit, AllProposed
<1>5. LibraryTypeOK
  BY <1>1, <1>3, <1>4, LibraryAssumption, NothingLoaded DEF LibraryInit, LibraryTypeOK
<1> QED
  BY <1>1, <1>2, <1>5, NothingLoaded DEF LibraryInit, LibraryInv, UploadsIntoDeclared, NoUpload

\* A read is answered from the workspace it was made for.
LEMMA ReadsKeepLibrary ==
    ASSUME LibraryInv, NEW what \in {"pack", "list"}, ReadAnswered(what) \/ ReadArrives(what)
    PROVE  LibraryInv'
<1> PICK r \in ReadUnderWay : r = reads[what]
  BY DEF LibraryInv, LibraryTypeOK
<1>1. OwnLoad(what, r) /\ r.tenant # NoOne /\ r.tenant \in Tenants
  BY DEF LibraryInv, ReadAnswered, ReadArrives, Asked, ReadUnderWay
<1>2. UNCHANGED <<declared, proposals, tenantId, deciding, uploading>>
  BY DEF ReadAnswered, ReadArrives
<1>3. ASSUME NEW q \in ReadUnderWay, reads' = [reads EXCEPT ![what] = q], OwnLoad(what, q)
      PROVE  /\ reads' \in [{"pack", "list"} -> ReadUnderWay]
             /\ \A w \in {"pack", "list"} : OwnLoad(w, reads[w])'
  BY <1>2, <1>3 DEF LibraryInv, LibraryTypeOK, OwnLoad, OwnItems
<1>4. CASE ReadAnswered(what)
  <2> PICK q : q = [r EXCEPT !.answered = TRUE, !.items = Content(what, r.tenant)]
    OBVIOUS
  <2>1. /\ Content(what, r.tenant) \subseteq OwnItems(what, r.tenant)
        /\ Content(what, r.tenant) \subseteq Collections \union AllProposed
    BY <1>1 DEF Content, OwnItems, LibraryInv, LibraryTypeOK
  <2>2. q \in ReadUnderWay /\ q.tenant = r.tenant /\ q.items = Content(what, r.tenant)
    BY <2>1 DEF ReadUnderWay
  <2>3. reads' = [reads EXCEPT ![what] = q] /\ UNCHANGED <<packLoad, listLoad>>
    BY <1>4 DEF ReadAnswered, LibraryInv, LibraryTypeOK
  <2> QED
    BY <1>2, <1>3, <2>1, <2>2, <2>3
       DEF LibraryInv, LibraryTypeOK, OwnLoad, OwnItems, UploadsIntoDeclared
<1>5. CASE ReadArrives(what)
  <2> PICK q : q = [r EXCEPT !.tenant = NoOne, !.items = {}]
    OBVIOUS
  <2>1. q \in ReadUnderWay /\ OwnLoad(what, q)
    BY LibraryAssumption DEF ReadUnderWay, OwnLoad
  <2>2. reads' = [reads EXCEPT ![what] = q]
    BY <1>5 DEF ReadArrives, Over, LibraryInv, LibraryTypeOK
  <2>3. PICK load \in Load : Loaded(what, load) /\ OwnLoad(what, load)
    BY <1>1, <1>5 DEF ReadArrives, Load, ReadUnderWay, OwnLoad
  <2>4. /\ packLoad' \in Load /\ OwnLoad("pack", packLoad)'
        /\ listLoad' \in Load /\ OwnLoad("list", listLoad)'
    BY <1>2, <2>3 DEF Loaded, LibraryInv, LibraryTypeOK, OwnLoad, OwnItems
  <2> QED
    BY <1>2, <1>3, <2>1, <2>2, <2>4
       DEF LibraryInv, LibraryTypeOK, OwnLoad, OwnItems, UploadsIntoDeclared
<1> QED  BY <1>4, <1>5

LEMMA SwitchKeepsLibrary ==
    ASSUME LibraryInv, NEW t \in Tenants, SelectWorkspace(t)
    PROVE  LibraryInv'
<1>1. /\ tenantId' \in Tenants
      /\ UNCHANGED <<declared, proposals, packLoad, listLoad, deciding, uploading>>
      /\ reads' = [pack |-> Reading(t), list |-> Reading(t)]
  BY DEF SelectWorkspace
<1>2. reads' \in [{"pack", "list"} -> ReadUnderWay] /\ \A w \in {"pack", "list"} : reads'[w] = Reading(t)
  BY <1>1, NothingLoaded
<1>3. \A w \in {"pack", "list"} : OwnLoad(w, reads[w])'
  BY <1>2 DEF OwnLoad, Reading
<1> QED
  BY <1>1, <1>2, <1>3 DEF LibraryInv, LibraryTypeOK, OwnLoad, OwnItems, UploadsIntoDeclared

\* A decision takes its field off the list it read, and a refusal brings that list back.
LEMMA DecidesKeepLibrary ==
    ASSUME LibraryInv, NEW t \in Tenants, NEW p \in Proposed[t], DecideField(p)
    PROVE  LibraryInv'
<1>1. /\ listLoad' = [listLoad EXCEPT !.items = @ \ {p}]
      /\ deciding' = deciding \union {[proposal |-> p, prior |-> listLoad, answer |-> "none"]}
      /\ UNCHANGED <<declared, proposals, tenantId, reads, packLoad, uploading>>
  BY DEF DecideField
<1>2. listLoad' \in Load /\ listLoad'.tenant = listLoad.tenant /\ listLoad'.items \subseteq listLoad.items
  BY <1>1 DEF LibraryInv, LibraryTypeOK, Load
<1> QED
  BY <1>1, <1>2 DEF LibraryInv, LibraryTypeOK, OwnLoad, OwnItems, UploadsIntoDeclared

LEMMA AnswersKeepLibrary ==
    ASSUME LibraryInv, NEW d \in deciding,
           FieldDecided(d) \/ FieldRefused(d) \/ FieldAnswerArrives(d)
    PROVE  LibraryInv'
<1>1. UNCHANGED <<declared, tenantId, reads, packLoad, uploading>>
  BY DEF FieldDecided, FieldRefused, FieldAnswerArrives
<1>2. /\ proposals' \in [Tenants -> SUBSET AllProposed]
      /\ \A t \in Tenants : proposals'[t] \subseteq Proposed[t]
  BY DEF FieldDecided, FieldRefused, FieldAnswerArrives, LibraryInv, LibraryTypeOK
<1>3. \A e \in deciding' : \E x \in deciding : e.prior = x.prior
  <2>1. ASSUME NEW answer, Answered(d, answer), NEW e \in deciding'
        PROVE  \E x \in deciding : e.prior = x.prior
    <3>1. [d EXCEPT !.answer = answer].prior = d.prior
      OBVIOUS
    <3> QED  BY <2>1, <3>1 DEF Answered
  <2> QED  BY <2>1 DEF FieldDecided, FieldRefused, FieldAnswerArrives
<1>4. listLoad' \in Load /\ OwnLoad("list", listLoad)'
  BY <1>1 DEF FieldDecided, FieldRefused, FieldAnswerArrives, LibraryInv, LibraryTypeOK,
     OwnLoad, OwnItems
<1> QED
  BY <1>1, <1>2, <1>3, <1>4
     DEF LibraryInv, LibraryTypeOK, OwnLoad, OwnItems, UploadsIntoDeclared

\* What is selected is a collection of the workspace on the screen, or none.
LEMMA SelectedIsDeclared ==
    ASSUME LibraryInv
    PROVE  /\ SelectedCollection \in Collections \union {Classify, NewCollection}
           /\ SelectedCollection \in Collections => SelectedCollection \in declared[tenantId]
<1>1. Displayed(packLoad).items \subseteq declared[tenantId]
  BY DEF Displayed, LibraryInv, LibraryTypeOK, OwnLoad, OwnItems, NotLoaded
<1>2. declared[tenantId] \subseteq Collections
  BY DEF LibraryInv, LibraryTypeOK
<1> QED  BY <1>1, <1>2, LibraryAssumption DEF SelectedCollection

LEMMA UploadsKeepLibrary ==
    ASSUME LibraryInv, SubmitUpload \/ UploadServed \/ PackReloaded \/ UploadAnswerArrives
    PROVE  LibraryInv'
<1>1. CASE SubmitUpload
  <2>1. /\ uploading' = [step |-> "sent", tenant |-> tenantId, into |-> SelectedCollection,
                         filed |-> NoOne, ok |-> FALSE]
        /\ UNCHANGED <<declared, proposals, tenantId, reads, packLoad, listLoad, deciding>>
    BY <1>1 DEF SubmitUpload
  <2>2. uploading' \in Upload
    BY <2>1, SelectedIsDeclared DEF Upload, LibraryInv, LibraryTypeOK
  <2>3. UploadsIntoDeclared'
    BY <2>1, SelectedIsDeclared DEF UploadsIntoDeclared
  <2> QED
    BY <2>1, <2>2, <2>3 DEF LibraryInv, LibraryTypeOK, OwnLoad, OwnItems
<1>2. ASSUME NEW q \in Upload, uploading' = q, uploading \in Upload,
             q.tenant = uploading.tenant, q.into = uploading.into,
             declared' \in [Tenants -> SUBSET Collections],
             \A t \in Tenants : declared[t] \subseteq declared'[t],
             packLoad' \in Load, OwnLoad("pack", packLoad)',
             UNCHANGED <<proposals, tenantId, reads, listLoad, deciding>>
      PROVE  LibraryInv'
  <2>1. uploading # NoUpload
    BY <1>2 DEF Upload, NoUpload
  <2>2. UploadsIntoDeclared'
    BY <1>2, <2>1 DEF UploadsIntoDeclared, LibraryInv, Upload
  <2>3. \A what, load : OwnLoad(what, load) => OwnLoad(what, load)'
    BY <1>2, OwnLoadsStay
  <2> QED
    BY <1>2, <2>2, <2>3 DEF LibraryInv, LibraryTypeOK
<1>3. uploading.step # "idle" => uploading \in Upload
  BY DEF LibraryInv, LibraryTypeOK, NoUpload
<1>4. CASE UploadServed
  <2>1. PICK ok \in BOOLEAN, c \in Collections, mint \in BOOLEAN :
          /\ declared' = declared \/ declared' = [declared EXCEPT ![uploading.tenant] = @ \union {c}]
          /\ uploading' = [uploading EXCEPT !.step = IF mint THEN "reload" ELSE "answered",
                             !.ok = ok,
                             !.filed = IF ok /\ uploading.into # Classify THEN c ELSE NoOne]
    BY <1>4, Zenon DEF UploadServed
  <2>2. uploading.step = "sent" /\ UNCHANGED <<proposals, tenantId, reads, packLoad, listLoad, deciding>>
    BY <1>4 DEF UploadServed
  <2>3. uploading \in Upload
    BY <1>3, <2>2
  <2>4. /\ uploading' \in Upload
        /\ uploading'.tenant = uploading.tenant /\ uploading'.into = uploading.into
    BY <2>1, <2>3 DEF Upload
  <2>5. /\ declared' \in [Tenants -> SUBSET Collections]
        /\ \A t \in Tenants : declared[t] \subseteq declared'[t]
    BY <2>1 DEF LibraryInv, LibraryTypeOK
  <2>6. packLoad' \in Load /\ OwnLoad("pack", packLoad)'
    BY <2>2, <2>5, OwnLoadsStay DEF LibraryInv, LibraryTypeOK, OwnLoad, OwnItems
  <2> QED  BY <1>2, <2>2, <2>3, <2>4, <2>5, <2>6
<1>5. CASE PackReloaded
  <2>1. /\ uploading \in Upload
        /\ UNCHANGED <<declared, proposals, tenantId, reads, listLoad, deciding>>
    BY <1>3, <1>5 DEF PackReloaded
  <2>2. /\ uploading' \in Upload
        /\ uploading'.tenant = uploading.tenant /\ uploading'.into = uploading.into
    BY <1>5, <2>1 DEF PackReloaded, Upload
  <2>3. packLoad' \in Load /\ OwnLoad("pack", packLoad)'
    <3> PICK load : load = [tenant |-> uploading.tenant, state |-> "ready", items |-> declared[uploading.tenant]]
      OBVIOUS
    <3>1. load \in Load /\ load.tenant = uploading.tenant /\ load.items = declared[uploading.tenant]
      BY <2>1 DEF Load, LibraryInv, LibraryTypeOK, Upload
    <3>2. packLoad' \in {packLoad, load}
      BY <1>5 DEF PackReloaded
    <3> QED  BY <2>1, <3>1, <3>2 DEF LibraryInv, LibraryTypeOK, OwnLoad, OwnItems
  <2>4. \A t \in Tenants : declared[t] \subseteq declared'[t]
    BY <2>1
  <2> QED  BY <1>2, <2>1, <2>2, <2>3, <2>4 DEF LibraryInv, LibraryTypeOK
<1>6. CASE UploadAnswerArrives
  BY <1>6 DEF UploadAnswerArrives, LibraryInv, LibraryTypeOK, OwnLoad, OwnItems,
     UploadsIntoDeclared, NoUpload
<1> QED  BY <1>1, <1>4, <1>5, <1>6

\* Whatever answer arrives after the administrator went to another workspace, the page shows
\* what belongs to the workspace it names, and uploads into a collection that one declares.
THEOREM LibraryKeepsToItsWorkspace == LibrarySpec => []KeepsToItsWorkspace
<1>1. LibraryInit => LibraryInv
  BY LibraryInitially
<1>2. LibraryInv /\ [LibraryNext]_libraryVars => LibraryInv'
  <2> SUFFICES ASSUME LibraryInv, [LibraryNext]_libraryVars PROVE LibraryInv'
    OBVIOUS
  <2>1. CASE UNCHANGED <<declared, proposals, tenantId, reads, packLoad, listLoad, deciding, uploading>>
    BY <2>1 DEF LibraryInv, LibraryTypeOK, OwnLoad, OwnItems, UploadsIntoDeclared
  <2>2. ASSUME NEW value, Choose(value) PROVE LibraryInv'
    BY <2>1, <2>2 DEF Choose
  <2>3. CASE UNCHANGED libraryVars
    BY <2>1, <2>3 DEF libraryVars
  <2> QED
    BY <2>2, <2>3, ReadsKeepLibrary, SwitchKeepsLibrary, DecidesKeepLibrary, AnswersKeepLibrary,
       UploadsKeepLibrary DEF LibraryNext
<1>3. LibraryInv => KeepsToItsWorkspace
  BY DEF LibraryInv, LibraryTypeOK, KeepsToItsWorkspace, ShowsOneWorkspace, Displayed, NotLoaded,
     OwnLoad, OwnItems
<1> QED  BY <1>1, <1>2, <1>3, PTL DEF LibrarySpec

-----------------------------------------------------------------------------
(* The notification feed. *)

Pages == Seq(AllJobs \X Nat)
Stream == [profile : Profiles, mount : Nat, prior : Pages, arriving : Pages]
Poll == [profile : Profiles, mount : Nat, step : {"asking", "answered", "waiting"},
         timed : BOOLEAN, page : Pages]
OwnPage(page, p) == \A i \in DOMAIN page : page[i][1] \in FeedJobs[p]
LivePolls == {l \in polls : Live(l)}

FeedTypeOK ==
    /\ recent \in [Profiles -> Seq(AllJobs)]
    /\ latest \in [AllJobs -> Nat]
    /\ profile \in Profiles
    /\ streams \subseteq Stream
    /\ polls \subseteq Poll
    /\ feedSteps \in [updates : Nat, switches : Nat]

\* Every page under way is of the jobs of the profile it was asked for.
OwnPages ==
    /\ \A p \in Profiles : recent[p] \in Seq(FeedJobs[p])
    /\ \A s \in streams : s.profile = profile /\ Live(s) /\ OwnPage(s.arriving, profile)
    /\ \A l \in polls : /\ l.mount <= feedSteps.switches
                        /\ Live(l) => l.profile = profile
                        /\ OwnPage(l.page, l.profile)
    /\ OwnPage(shown, profile)

\* Either the stream is open, or one loop of this profile polls.
StreamOrPoll ==
    \/ LivePolls = {} /\ \E s \in streams : streams = {s}
    \/ streams = {} /\ \E l \in LivePolls : LivePolls = {l}

AnnouncedIsKnown == \A e \in DOMAIN announced : e \in known /\ announced[e] = 1

FeedInv == FeedTypeOK /\ OwnPages /\ StreamOrPoll /\ AnnouncedIsKnown

\* The window of a profile holds jobs of that profile.
LEMMA PageTyped ==
    ASSUME FeedTypeOK, OwnPages, NEW p \in Profiles
    PROVE  Page(p) \in Pages /\ OwnPage(Page(p), p)
<1> DEFINE n == IF Window < Len(recent[p]) THEN Window ELSE Len(recent[p])
           ids == SubSeq(recent[p], 1, n)
<1>1. recent[p] \in Seq(FeedJobs[p]) /\ Len(recent[p]) \in Nat /\ FeedJobs[p] \subseteq AllJobs
  BY DEF OwnPages, AllJobs
<1>2. n \in Nat /\ n <= Len(recent[p])
  BY <1>1, FeedAssumption
<1>3. ids \in Seq(FeedJobs[p])
  BY <1>1, <1>2, PrefixTyped
<1>4. PICK s \in Seq(FeedJobs[p]) : s = ids
  BY <1>3
<1>5. Page(p) = [i \in DOMAIN s |-> <<s[i], latest[s[i]]>>]
  BY <1>4 DEF Page
<1> HIDE DEF n, ids
<1>6. /\ DOMAIN s = 1..Len(s) /\ Len(s) \in Nat
      /\ \A i \in DOMAIN s : s[i] \in FeedJobs[p] /\ <<s[i], latest[s[i]]>> \in AllJobs \X Nat
  BY <1>1 DEF FeedTypeOK
<1>7. Page(p) \in [1..Len(s) -> AllJobs \X Nat]
  BY <1>5, <1>6
<1>8. Page(p) \in Pages
  BY <1>6, <1>7 DEF Pages
<1>9. OwnPage(Page(p), p)
  BY <1>5, <1>6 DEF OwnPage
<1> QED  BY <1>8, <1>9

\* Applying a page announces one event that was not known, and knows it from then on.
LEMMA ApplyAnnouncesOnce ==
    ASSUME AnnouncedIsKnown, NEW page \in Pages, OwnPage(page, profile), Apply(page)
    PROVE  AnnouncedIsKnown' /\ OwnPage(shown', profile)
<1> PICK events : events = {page[i] : i \in {k \in DOMAIN page : page[k][2] > 0}}
  OBVIOUS
<1> PICK fresh : fresh = {i \in DOMAIN page : page[i] \in events \ known}
  OBVIOUS
<1>1. /\ known' = known \union events /\ shown' = page
      /\ announced' = IF initialized /\ fresh # {}
                      THEN LET e == page[Min(fresh)]
                               times == IF e \in DOMAIN announced THEN announced[e] ELSE 0
                           IN  [x \in DOMAIN announced \union {e} |->
                                   IF x = e THEN times + 1 ELSE announced[x]]
                      ELSE announced
  BY DEF Apply, Known
<1>2. CASE announced' = announced
  BY <1>1, <1>2 DEF AnnouncedIsKnown
<1>3. CASE fresh # {} /\ announced' # announced
  <2>1. fresh \subseteq Nat
    BY DEF Pages
  <2>2. Min(fresh) \in fresh
    BY <1>3, <2>1, MinIsLeast
  <2>3. PICK e : e = page[Min(fresh)]
    OBVIOUS
  <2>4. e \in events /\ e \notin known /\ e \notin DOMAIN announced
    BY <2>2, <2>3 DEF AnnouncedIsKnown
  <2>5. announced' = [x \in DOMAIN announced \union {e} |-> IF x = e THEN 1 ELSE announced[x]]
    BY <1>1, <1>3, <2>3, <2>4
  <2> QED  BY <1>1, <2>4, <2>5 DEF AnnouncedIsKnown
<1> QED  BY <1>1, <1>2, <1>3

LEMMA FeedInitially == FeedInit => FeedInv
<1> SUFFICES ASSUME FeedInit PROVE FeedInv
  OBVIOUS
<1>1. \A p \in Profiles : SetToSeq(FeedJobs[p]) \in Seq(FeedJobs[p])
  BY SetInOrder, FeedAssumption
<1>2. \A p \in Profiles : \A s \in Seq(FeedJobs[p]) : s \in Seq(AllJobs)
  BY DEF AllJobs
<1>3. /\ recent \in [Profiles -> Seq(AllJobs)]
      /\ \A p \in Profiles : recent[p] \in Seq(FeedJobs[p])
  BY <1>1, <1>2 DEF FeedInit
<1>4. <<>> \in Pages /\ \A p : OwnPage(<<>>, p)
  BY DEF Pages, OwnPage
<1>5. Opened(profile, 0) \in Stream /\ streams = {Opened(profile, 0)} /\ profile \in Profiles
  BY <1>4 DEF FeedInit, Opened, Stream, NoPage
<1>6. FeedTypeOK
  BY <1>3, <1>5 DEF FeedInit, FeedTypeOK
<1>7. OwnPages
  BY <1>3, <1>4, <1>5 DEF FeedInit, OwnPages, Opened, NoPage, Live
<1>8. StreamOrPoll
  BY <1>5 DEF FeedInit, StreamOrPoll, LivePolls
<1> QED  BY <1>6, <1>7, <1>8 DEF FeedInit, FeedInv, AnnouncedIsKnown

\* Jobs and events come and go at the API; the pages under way stay what they are.
LEMMA UpdateKeepsFeed ==
    ASSUME FeedInv, NEW p \in Profiles, NEW j \in FeedJobs[p], NEW event \in BOOLEAN,
           UpdateFeedJob(p, j, event)
    PROVE  FeedInv'
<1>1. /\ recent' = [recent EXCEPT ![p] = <<j>> \o RemoveFirst(@, j)]
      /\ latest' = IF event THEN [latest EXCEPT ![j] = @ + 1] ELSE latest
      /\ feedSteps' = [feedSteps EXCEPT !.updates = @ + 1]
      /\ UNCHANGED <<profile, streams, polls, known, initialized, shown, announced>>
  BY DEF UpdateFeedJob
<1>2. <<j>> \o RemoveFirst(recent[p], j) \in Seq(FeedJobs[p])
  BY FrontTyped DEF FeedInv, OwnPages
<1>3. j \in AllJobs /\ \A q \in Profiles : \A s \in Seq(FeedJobs[q]) : s \in Seq(AllJobs)
  BY DEF AllJobs
<1>4. PICK s : s = <<j>> \o RemoveFirst(recent[p], j)
  OBVIOUS
<1>5. /\ recent' \in [Profiles -> Seq(AllJobs)]
      /\ \A q \in Profiles : recent'[q] \in Seq(FeedJobs[q])
  <2>1. recent' = [recent EXCEPT ![p] = s] /\ s \in Seq(FeedJobs[p]) /\ s \in Seq(AllJobs)
    BY <1>1, <1>2, <1>3, <1>4
  <2> QED  BY <2>1 DEF FeedInv, FeedTypeOK, OwnPages
<1>6. latest' \in [AllJobs -> Nat]
  BY <1>1, <1>3 DEF FeedInv, FeedTypeOK
<1>7. /\ feedSteps' \in [updates : Nat, switches : Nat] /\ feedSteps'.switches = feedSteps.switches
  <2>1. feedSteps \in [updates : Nat, switches : Nat] /\ feedSteps.updates + 1 \in Nat
    BY DEF FeedInv, FeedTypeOK
  <2> QED  BY <1>1, <2>1
<1>8. LivePolls' = LivePolls /\ \A f : Live(f)' <=> Live(f)
  BY <1>1, <1>7 DEF LivePolls, Live
<1>9. FeedTypeOK'
  BY <1>1, <1>5, <1>6, <1>7 DEF FeedInv, FeedTypeOK
<1>10. OwnPages'
  BY <1>1, <1>5, <1>7, <1>8 DEF FeedInv, OwnPages
<1> QED
  BY <1>1, <1>8, <1>9, <1>10 DEF FeedInv, StreamOrPoll, AnnouncedIsKnown

\* A stream of this profile that is replaced by one with another page of the profile.
LEMMA StreamsKeepFeed ==
    ASSUME FeedInv, NEW s \in streams, StreamSends(s) \/ StreamArrives(s)
    PROVE  FeedInv'
<1>1. UNCHANGED <<recent, latest, profile, polls, feedSteps>>
  BY DEF StreamSends, StreamArrives
<1>2. s \in Stream /\ s.profile = profile /\ Live(s) /\ OwnPage(s.arriving, profile)
      /\ s.arriving \in Pages
  BY DEF FeedInv, FeedTypeOK, OwnPages, Stream
<1>3. PICK q \in Stream :
        /\ streams' = (streams \ {s}) \union {q}
        /\ q.profile = s.profile /\ q.mount = s.mount /\ OwnPage(q.arriving, profile)
  <2>1. CASE StreamSends(s)
    <3> PICK page : page = Page(s.profile)
      OBVIOUS
    <3>1. page \in Pages /\ OwnPage(page, profile)
      BY <1>2, PageTyped DEF FeedInv, FeedTypeOK
    <3> PICK q : q = [s EXCEPT !.prior = page, !.arriving = page]
      OBVIOUS
    <3>2. q \in Stream /\ q.profile = s.profile /\ q.mount = s.mount /\ q.arriving = page
      BY <1>2, <3>1 DEF Stream
    <3> QED  BY <2>1, <3>1, <3>2 DEF StreamSends
  <2>2. CASE StreamArrives(s)
    <3>1. NoPage \in Pages /\ OwnPage(NoPage, profile)
      BY DEF NoPage, Pages, OwnPage
    <3> PICK q : q = [s EXCEPT !.arriving = NoPage]
      OBVIOUS
    <3>2. q \in Stream /\ q.profile = s.profile /\ q.mount = s.mount /\ q.arriving = NoPage
      BY <1>2, <3>1 DEF Stream
    <3> QED  BY <2>2, <3>1, <3>2 DEF StreamArrives
  <2> QED  BY <2>1, <2>2
<1>4. AnnouncedIsKnown' /\ OwnPage(shown', profile)
  <2>1. CASE StreamSends(s)
    BY <2>1 DEF StreamSends, FeedInv, AnnouncedIsKnown, OwnPages
  <2>2. CASE StreamArrives(s)
    BY <1>2, <2>2, ApplyAnnouncesOnce DEF StreamArrives, FeedInv
  <2> QED  BY <2>1, <2>2
<1>5. LivePolls' = LivePolls /\ \A f : Live(f)' <=> Live(f)
  BY <1>1 DEF LivePolls, Live
<1>6. Live(q)
  BY <1>2, <1>3 DEF Live
<1>7. FeedTypeOK'
  BY <1>1, <1>3 DEF FeedInv, FeedTypeOK
<1>8. OwnPages'
  BY <1>1, <1>2, <1>3, <1>4, <1>5, <1>6 DEF FeedInv, OwnPages
<1>9. StreamOrPoll'
  BY <1>3, <1>5 DEF FeedInv, StreamOrPoll
<1> QED  BY <1>4, <1>7, <1>8, <1>9 DEF FeedInv

\* The stream gives way to a loop; there is no live loop while a stream is open.
LEMMA FallBackKeepsFeed ==
    ASSUME FeedInv, NEW s \in streams, FallBack(s)
    PROVE  FeedInv'
<1> PICK l : l = Polling(s.profile, s.mount)
  OBVIOUS
<1>1. s \in Stream /\ s.profile = profile /\ Live(s)
  BY DEF FeedInv, FeedTypeOK, OwnPages
<1>2. /\ streams' = streams \ {s} /\ polls' = polls \union {l}
      /\ UNCHANGED <<recent, latest, profile, known, initialized, shown, announced, feedSteps>>
  BY DEF FallBack, Closed
<1>3. NoPage \in Pages /\ \A p : OwnPage(NoPage, p)
  BY DEF NoPage, Pages, OwnPage
<1>4. /\ l \in Poll /\ l.profile = profile /\ l.mount = feedSteps.switches /\ l.page = NoPage
  BY <1>1, <1>3 DEF Polling, Poll, Stream, Live
<1>5. streams = {s} /\ LivePolls = {}
  BY DEF FeedInv, StreamOrPoll
<1>6. \A f : Live(f)' <=> Live(f)
  BY <1>2 DEF Live
<1>7. streams' = {} /\ LivePolls' = {l}
  BY <1>2, <1>4, <1>5, <1>6 DEF LivePolls, Live
<1>8. FeedTypeOK'
  BY <1>2, <1>4 DEF FeedInv, FeedTypeOK
<1>9. OwnPages'
  <2>1. feedSteps.switches <= feedSteps.switches
    BY DEF FeedInv, FeedTypeOK
  <2> QED  BY <1>2, <1>3, <1>4, <1>6, <1>7, <2>1 DEF FeedInv, OwnPages
<1> QED  BY <1>2, <1>7, <1>8, <1>9 DEF FeedInv, StreamOrPoll, AnnouncedIsKnown

\* A loop that takes its next step, and a loop of another profile that ends.
LEMMA LoopReplaced ==
    ASSUME FeedInv, NEW l \in polls, NEW q \in Poll,
           q.profile = l.profile, q.mount = l.mount, OwnPage(q.page, l.profile),
           polls' = (polls \ {l}) \union (IF Live(l) THEN {q} ELSE {}) \/ polls' = (polls \ {l}) \union {q},
           UNCHANGED <<recent, latest, profile, streams, feedSteps>>,
           AnnouncedIsKnown', OwnPage(shown', profile)
    PROVE  FeedInv'
<1>1. \A f : Live(f)' <=> Live(f)
  BY DEF Live
<1>2. Live(q) <=> Live(l)
  BY DEF Live
<1>3. FeedTypeOK'
  BY DEF FeedInv, FeedTypeOK
<1>4. OwnPages'
  BY <1>1, <1>2 DEF FeedInv, OwnPages
<1>5. ~ Live(l) => LivePolls' = LivePolls
  BY <1>1, <1>2 DEF LivePolls
<1>6. Live(l) /\ LivePolls = {l} => LivePolls' = {q}
  BY <1>1, <1>2 DEF LivePolls
<1>7. Live(l) => LivePolls = {l} /\ streams = {}
  BY DEF LivePolls, FeedInv, StreamOrPoll
<1>8. StreamOrPoll'
  BY <1>5, <1>6, <1>7 DEF FeedInv, StreamOrPoll
<1> QED  BY <1>3, <1>4, <1>8 DEF FeedInv

LEMMA LoopsKeepFeed ==
    ASSUME FeedInv, NEW l \in polls, PollAnswered(l) \/ PollApplies(l) \/ PollFails(l) \/ PollAgain(l)
    PROVE  FeedInv'
<1>1. l \in Poll /\ OwnPage(l.page, l.profile) /\ (Live(l) => l.profile = profile)
  BY DEF FeedInv, FeedTypeOK, OwnPages
<1>2. UNCHANGED <<recent, latest, profile, streams, feedSteps>>
  BY DEF PollAnswered, PollApplies, PollFails, PollAgain
<1>3. NoPage \in Pages /\ \A p : OwnPage(NoPage, p)
  BY DEF NoPage, Pages, OwnPage
<1>4. /\ Waits(l) \in Poll /\ Waits(l).profile = l.profile /\ Waits(l).mount = l.mount
      /\ OwnPage(Waits(l).page, l.profile)
  BY <1>1, <1>3 DEF Waits, Poll
<1>5. UNCHANGED <<known, initialized, shown, announced>> => AnnouncedIsKnown' /\ OwnPage(shown', profile)
  BY DEF FeedInv, AnnouncedIsKnown, OwnPages
<1>6. CASE PollAnswered(l)
  <2> PICK page : page = Page(l.profile)
    OBVIOUS
  <2>1. page \in Pages /\ OwnPage(page, l.profile)
    BY <1>1, PageTyped DEF FeedInv, Poll
  <2> PICK q : q = [l EXCEPT !.step = "answered", !.page = page]
    OBVIOUS
  <2>2. q \in Poll /\ q.profile = l.profile /\ q.mount = l.mount /\ q.page = page
    BY <1>1, <2>1 DEF Poll
  <2>3. polls' = (polls \ {l}) \union {q} /\ UNCHANGED <<known, initialized, shown, announced>>
    BY <1>6 DEF PollAnswered
  <2> QED  BY <1>2, <1>5, <2>1, <2>2, <2>3, LoopReplaced
<1>7. CASE PollApplies(l)
  <2>1. AnnouncedIsKnown' /\ OwnPage(shown', profile)
    <3>1. CASE Live(l)
      <4>1. l.page \in Pages /\ OwnPage(l.page, profile) /\ Apply(l.page)
        BY <1>1, <1>7, <3>1 DEF PollApplies, Wanted, Poll
      <4> QED  BY <4>1, ApplyAnnouncesOnce DEF FeedInv
    <3>2. CASE ~ Live(l)
      BY <1>5, <1>7, <3>2 DEF PollApplies, Wanted
    <3> QED  BY <3>1, <3>2
  <2>2. polls' = (polls \ {l}) \union (IF Live(l) THEN {Waits(l)} ELSE {})
    BY <1>7 DEF PollApplies
  <2> QED  BY <1>2, <1>4, <2>1, <2>2, LoopReplaced
<1>8. CASE PollFails(l)
  <2>1. polls' = (polls \ {l}) \union (IF Live(l) THEN {Waits(l)} ELSE {})
    BY <1>8 DEF PollFails
  <2>2. UNCHANGED <<known, initialized, shown, announced>>
    BY <1>8 DEF PollFails
  <2> QED  BY <1>2, <1>4, <1>5, <2>1, <2>2, LoopReplaced
<1>9. CASE PollAgain(l)
  <2> PICK q : q = [l EXCEPT !.step = "asking"]
    OBVIOUS
  <2>1. q \in Poll /\ q.profile = l.profile /\ q.mount = l.mount /\ q.page = l.page
    BY <1>1 DEF Poll
  <2>2. polls' = (polls \ {l}) \union {q} /\ UNCHANGED <<known, initialized, shown, announced>>
    BY <1>9 DEF PollAgain
  <2> QED  BY <1>1, <1>2, <1>5, <2>1, <2>2, LoopReplaced
<1> QED  BY <1>6, <1>7, <1>8, <1>9

\* The feed of the profile before is over: what is left of its loops is not live.
LEMMA ProfilesKeepFeed ==
    ASSUME FeedInv, NEW p \in Profiles, SwitchProfile(p)
    PROVE  FeedInv'
<1>1. /\ feedSteps' = [feedSteps EXCEPT !.switches = @ + 1]
      /\ profile' = p /\ streams' = {Opened(p, feedSteps'.switches)} /\ polls' \subseteq polls
      /\ shown' = NoPage /\ announced' = [e \in {} |-> 0]
      /\ UNCHANGED <<recent, latest>>
  BY DEF SwitchProfile
<1>2. /\ feedSteps.switches \in Nat /\ feedSteps' \in [updates : Nat, switches : Nat]
      /\ feedSteps'.switches = feedSteps.switches + 1
  BY <1>1 DEF FeedInv, FeedTypeOK
<1> PICK s : s = Opened(p, feedSteps'.switches)
  OBVIOUS
<1>3. NoPage \in Pages /\ OwnPage(NoPage, p)
  BY DEF NoPage, Pages, OwnPage
<1>4. s \in Stream /\ s.profile = p /\ Live(s)' /\ s.arriving = NoPage
  BY <1>2, <1>3 DEF Opened, Stream, Live
<1>5. \A l \in polls' : l.mount \in Nat /\ l.mount <= feedSteps.switches
  BY <1>1 DEF FeedInv, FeedTypeOK, OwnPages, Poll
<1>6. LivePolls' = {}
  BY <1>2, <1>5 DEF LivePolls, Live
<1>7. FeedTypeOK'
  BY <1>1, <1>2, <1>4 DEF FeedInv, FeedTypeOK
<1>8. OwnPages'
  <2>1. \A l \in polls' : ~ Live(l)' /\ l.mount <= feedSteps'.switches
    BY <1>2, <1>5, <1>6 DEF LivePolls
  <2> QED  BY <1>1, <1>3, <1>4, <2>1 DEF FeedInv, OwnPages
<1>9. StreamOrPoll' /\ AnnouncedIsKnown'
  BY <1>1, <1>6 DEF StreamOrPoll, AnnouncedIsKnown
<1> QED  BY <1>7, <1>8, <1>9 DEF FeedInv

\* The profile on the screen has one feed, of its own jobs, that announces each event once,
\* whatever fails and whatever answer of another profile's feed is still under way.
THEOREM FeedIsFaithful == FeedSpec => []OneFaithfulFeed
<1>1. FeedInit => FeedInv
  BY FeedInitially
<1>2. FeedInv /\ [FeedNext]_feedVars => FeedInv'
  <2> SUFFICES ASSUME FeedInv, [FeedNext]_feedVars PROVE FeedInv'
    OBVIOUS
  <2>1. CASE UNCHANGED feedVars
    BY <2>1 DEF feedVars, FeedInv, FeedTypeOK, OwnPages, StreamOrPoll, LivePolls, Live,
       AnnouncedIsKnown
  <2> QED
    BY <2>1, UpdateKeepsFeed, StreamsKeepFeed, FallBackKeepsFeed, LoopsKeepFeed, ProfilesKeepFeed
       DEF FeedNext
<1>3. FeedInv => OneFaithfulFeed
  <2> SUFFICES ASSUME FeedInv PROVE OneFaithfulFeed
    OBVIOUS
  <2>1. {s \in streams : Live(s)} = streams
    BY DEF FeedInv, OwnPages
  <2>2. OneFeed
    <3>1. Cardinality({}) = 0 /\ \A x : Cardinality({x}) = 1
      BY FS_EmptySet, FS_Singleton
    <3>2. \/ LivePolls = {} /\ \E s : streams = {s}
          \/ streams = {} /\ \E l : LivePolls = {l}
      BY DEF FeedInv, StreamOrPoll
    <3>3. \/ Cardinality(streams) = 1 /\ Cardinality(LivePolls) = 0
          \/ Cardinality(streams) = 0 /\ Cardinality(LivePolls) = 1
      BY <3>1, <3>2
    <3>4. Cardinality(streams) + Cardinality(LivePolls) = 1
      BY <3>3
    <3> QED  BY <2>1, <3>4 DEF OneFeed, LivePolls
  <2> QED  BY <2>2 DEF FeedInv, OneFaithfulFeed, AnnouncedOnce, OnlyOwnJobs, OwnPages, OwnPage, AnnouncedIsKnown
<1> QED  BY <1>1, <1>2, <1>3, PTL DEF FeedSpec

=============================================================================
