-------------------------- MODULE MCPolicyConsole --------------------------
(***************************************************************************)
(* Instances of PolicyLifecycle and of the screens of the console.  The    *)
(* screens share no state with each other; of the API each knows only its  *)
(* answers.  A behaviour follows one part: the API and its worker, or the  *)
(* person at one screen.                                                   *)
(***************************************************************************)
EXTENDS PolicyLifecycle, PolicyLibrary, ReviewPanel, NotificationFeed, ConsoleSession

CONSTANTS p1, p2, w1, w2,           \* policies and workers
          ta, tb, c1, c2, fa, fb,   \* workspaces, collections, proposed fields
          f1, f2, a1,               \* findings, a fact
          pa, pb, ja, jb, jc,       \* profiles and their jobs
          admin, reviewer

WorkerSymmetry == Permutations(Workers)
FieldsOf == [t \in Tenants |-> IF t = ta THEN {fa, fb} ELSE {}]
CollectionsOf == [t \in Tenants |-> IF t = ta THEN {c1} ELSE {}]
JobsOf == [p \in Profiles |-> IF p = pa THEN {ja, jb} ELSE {jc}]

VARIABLE part
Parts == {"api", "library", "panel", "feed", "session"}

\* The screens that are not followed begin in one state only.
ConsoleInit ==
    /\ part \in Parts
    /\ Init /\ LibraryInit /\ PanelInit /\ FeedInit /\ SessionInit
    /\ tenantId = ta \/ part = "library"
    /\ profile = pa \/ part = "feed"
    /\ provider.role = admin \/ part = "session"

ConsoleNext ==
    /\ UNCHANGED part
    /\ \/ part = "api" /\ Next /\ UNCHANGED <<libraryVars, panelVars, feedVars, sessionVars>>
       \/ part = "library" /\ LibraryNext /\ UNCHANGED <<vars, panelVars, feedVars, sessionVars>>
       \/ part = "panel" /\ PanelNext /\ UNCHANGED <<vars, libraryVars, feedVars, sessionVars>>
       \/ part = "feed" /\ FeedNext /\ UNCHANGED <<vars, libraryVars, panelVars, sessionVars>>
       \/ part = "session" /\ SessionNext /\ UNCHANGED <<vars, libraryVars, panelVars, feedVars>>

consoleVars == <<part, vars, libraryVars, panelVars, feedVars, sessionVars>>
ConsoleSpec == ConsoleInit /\ [][ConsoleNext]_consoleVars
=============================================================================
