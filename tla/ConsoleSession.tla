--------------------------- MODULE ConsoleSession ---------------------------
(***************************************************************************)
(* The session of a browser at the console: the sign-in routes (app/auth), *)
(* the proxy that renews tokens (proxy.ts) and the cookies they set.       *)
(* Requests of one browser overlap, and their answers set the cookies in   *)
(* the order they arrive.  The identity provider is modelled from how the  *)
(* console uses it.                                                        *)
(***************************************************************************)
EXTENDS Naturals, FiniteSets

CONSTANTS
    Lifetime,           \* of an access token, in ticks
    Margin,             \* REFRESH_MARGIN_MS: tokens are renewed this early
    Grants,             \* roles an account may hold; NoRole: none
    NoRole,
    ReturnsIdToken,     \* whether the provider's answer to a refresh has an ID token
    Horizon, MaxSignIns, MaxOpen    \* bounds: time, sign-ins, requests under way

ASSUME SessionAssumption ==
    /\ {Lifetime, Margin, Horizon, MaxSignIns, MaxOpen} \subseteq Nat
    /\ Margin < Lifetime
    /\ NoRole \notin Grants
    /\ ReturnsIdToken \in BOOLEAN

VARIABLES
    now,
    provider,       \* live single sign-on session (0: none), role granted and since when
    cookies,        \* what the browser holds
    renewing,       \* requests that renew their tokens: the cookies they came with
    arriving,       \* answers under way to the browser: the cookies they set
    served          \* the last request: its role, and how long ago the account lost it

sessionVars == <<now, provider, cookies, renewing, arriving, served>>

\* A session cookie holds an identity and an access token, whose expiry follows from when
\* it was issued.
NoSession == [role |-> NoRole, issued |-> 0]
NoCookies == [session |-> NoSession, refresh |-> 0, transaction |-> 0]

SessionInit ==
    /\ now = 0
    /\ provider \in [sso : {0}, role : Grants, since : {0}, signIns : {0}]
    /\ cookies = NoCookies
    /\ renewing = {} /\ arriving = {}
    /\ served = [role |-> NoRole, lost |-> 0]

MayOpen == Cardinality(renewing) + Cardinality(arriving) < MaxOpen
ServeAs(session) ==
    served' = [role |-> session.role,
               lost |-> IF session.role = provider.role THEN 0 ELSE now - provider.since]
SetCookies(session, refresh) == arriving' = arriving \union {[session |-> session, refresh |-> refresh]}

-----------------------------------------------------------------------------
(* The proxy, before every page and every call. *)

\* unauthenticated: the answer clears both cookies.
Unauthenticated == SetCookies(NoSession, 0)

VisitSignedOut ==
    /\ cookies.session = NoSession \/ cookies.refresh = 0
    /\ MayOpen /\ Unauthenticated
    /\ UNCHANGED <<now, provider, cookies, renewing, served>>

Usable(session) == session.issued + Lifetime > now + Margin

VisitFresh ==
    /\ cookies.session # NoSession /\ Usable(cookies.session)
    /\ ServeAs(cookies.session)
    /\ UNCHANGED <<now, provider, cookies, renewing, arriving>>

VisitStale ==
    /\ cookies.session # NoSession /\ cookies.refresh # 0 /\ ~ Usable(cookies.session)
    /\ MayOpen
    /\ renewing' = renewing \union {[session |-> cookies.session, refresh |-> cookies.refresh]}
    /\ UNCHANGED <<now, provider, cookies, arriving, served>>

\* Mutant: the identity of the session is carried over.
CarriedOver(session) == session

\* The identity is read again from the ID token of the answer.
Reread(session) ==
    IF ReturnsIdToken THEN [session EXCEPT !.role = provider.role] ELSE session

\* identityFromClaims: an account without a role is refused, authenticated or not.
Refused(role) == role = NoRole

Renewed(session) == [Reread(session) EXCEPT !.issued = now]

\* refreshTokenGrant succeeds: with new cookies, or, of an account without a role, as if
\* signed out.  The provider accepts a refresh token again (revokeRefreshToken is false).
Renew(r) ==
    /\ r.refresh = provider.sso
    /\ renewing' = renewing \ {r}
    /\ IF Refused(Renewed(r.session).role)
       THEN Unauthenticated /\ UNCHANGED served
       ELSE ServeAs(Renewed(r.session)) /\ SetCookies(Renewed(r.session), r.refresh)
    /\ UNCHANGED <<now, provider, cookies>>

\* It fails: the provider's session is over, or the provider cannot be reached.
RenewFails(r) ==
    /\ renewing' = renewing \ {r}
    /\ Unauthenticated
    /\ UNCHANGED <<now, provider, cookies, served>>

Receive(c) ==
    /\ arriving' = arriving \ {c}
    /\ cookies' = [cookies EXCEPT !.session = c.session, !.refresh = c.refresh]
    /\ UNCHANGED <<now, provider, renewing, served>>

-----------------------------------------------------------------------------
(* Sign-in and sign-out. *)

\* login: the transaction of this sign-in replaces that of another tab.
Login ==
    /\ provider.signIns < MaxSignIns
    /\ provider' = [provider EXCEPT !.signIns = @ + 1]
    /\ cookies' = [cookies EXCEPT !.transaction = provider.signIns + 1]
    /\ UNCHANGED <<now, renewing, arriving, served>>

\* The provider authenticates the n-th sign-in, if need be in a new session of its own,
\* and the callback opens a session.
Callback(n) ==
    /\ n \in 1..provider.signIns
    /\ LET sso == IF provider.sso = 0 THEN n ELSE provider.sso
       IN  /\ provider' = [provider EXCEPT !.sso = sso]
           /\ cookies' =
                IF cookies.transaction = n /\ ~ Refused(provider.role)
                THEN [session |-> [role |-> provider.role, issued |-> now],
                      refresh |-> sso, transaction |-> 0]
                ELSE [cookies EXCEPT !.transaction = 0]
    /\ UNCHANGED <<now, renewing, arriving, served>>

\* logout: both sessions end, or the console's alone when the provider cannot be reached.
Logout ==
    /\ cookies' = [cookies EXCEPT !.session = NoSession, !.refresh = 0]
    /\ provider' \in {[provider EXCEPT !.sso = 0], provider}
    /\ UNCHANGED <<now, renewing, arriving, served>>

-----------------------------------------------------------------------------
(* The identity provider, and time. *)

ProviderEnds ==
    /\ provider.sso # 0
    /\ provider' = [provider EXCEPT !.sso = 0]
    /\ UNCHANGED <<now, cookies, renewing, arriving, served>>

Regrant(role) ==
    /\ role # provider.role
    /\ provider' = [provider EXCEPT !.role = role, !.since = now]
    /\ UNCHANGED <<now, cookies, renewing, arriving, served>>

Tick ==
    /\ now < Horizon
    /\ now' = now + 1
    /\ UNCHANGED <<provider, cookies, renewing, arriving, served>>

SessionNext ==
    \/ VisitSignedOut \/ VisitFresh \/ VisitStale
    \/ \E r \in renewing : Renew(r) \/ RenewFails(r)
    \/ \E c \in arriving : Receive(c)
    \/ Login \/ (\E n \in 1..MaxSignIns : Callback(n)) \/ Logout
    \/ ProviderEnds \/ (\E role \in Grants \union {NoRole} : Regrant(role)) \/ Tick

SessionSpec == SessionInit /\ [][SessionNext]_sessionVars

-----------------------------------------------------------------------------
(* Properties. *)

\* A role taken away at the identity provider is gone from the console within one
\* access-token lifetime, without anyone having to sign out: nothing is served under a role
\* the account lost longer ago, whichever answer set the cookies last.
LostRolesExpire == served.lost < Lifetime
=============================================================================
