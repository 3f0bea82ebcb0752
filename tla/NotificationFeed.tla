-------------------------- MODULE NotificationFeed --------------------------
(***************************************************************************)
(* The notification feed of the console (components/notification-center.tsx*)
(* and app/api/job-events/stream/route.ts): the jobs of a profile arrive   *)
(* over an event stream, and by polling once the stream has failed.  A     *)
(* page holds the jobs updated last, each with its latest event; an event  *)
(* of a page that was not there before is announced.                       *)
(***************************************************************************)
EXTENDS Naturals, FiniteSets, Sequences, SequencesExt

CONSTANTS
    Profiles,
    FeedJobs,       \* [Profiles -> sets of job ids]: whose jobs are whose
    Window,         \* jobs of a page: the limit of the request
    MaxUpdates,     \* bounds: updates of jobs,
    MaxProfileSwitches

ASSUME FeedAssumption ==
    /\ Window \in Nat \ {0}
    /\ \A p \in Profiles : IsFiniteSet(FeedJobs[p])
    /\ \A p, q \in Profiles : p # q => FeedJobs[p] \intersect FeedJobs[q] = {}

VARIABLES
    recent,         \* the jobs of each profile, the one updated last first
    latest,         \* number of the latest event of each job
    profile,        \* whose feed is mounted
    streams,        \* event streams that are open: last payload, page under way
    polls,          \* poll loops: what they do, whether pollTimer was set, the page under way
    known,          \* knownEventIds
    initialized,
    shown,          \* the page on the screen
    announced,      \* <<event, times>> since the profile was mounted
    feedSteps       \* updates and switches made

feedVars == <<recent, latest, profile, streams, polls, known, initialized, shown, announced, feedSteps>>

AllJobs == UNION {FeedJobs[p] : p \in Profiles}
NoPage == <<>>

\* What the API answers: the window of a profile, each job with its latest event (0: none).
Page(p) ==
    LET ids == SubSeq(recent[p], 1, IF Window < Len(recent[p]) THEN Window ELSE Len(recent[p]))
    IN  [i \in DOMAIN ids |-> <<ids[i], latest[ids[i]]>>]

\* A stream or loop belongs to one run of the effect, the n-th; every browser has EventSource,
\* so that each run opens a stream.
Opened(p, n) == [profile |-> p, mount |-> n, prior |-> NoPage, arriving |-> NoPage]
Polling(p, n) == [profile |-> p, mount |-> n, step |-> "asking", timed |-> FALSE, page |-> NoPage]

FeedInit ==
    /\ recent = [p \in Profiles |-> SetToSeq(FeedJobs[p])]
    /\ latest = [j \in AllJobs |-> 0]
    /\ profile \in Profiles
    /\ streams = {Opened(profile, 0)}
    /\ polls = {}
    /\ known = {} /\ initialized = FALSE
    /\ shown = NoPage
    /\ announced = [e \in {} |-> 0]
    /\ feedSteps = [updates |-> 0, switches |-> 0]

\* A worker or the API updates a job, with or without an event of its own.
UpdateFeedJob(p, j, event) ==
    /\ feedSteps.updates < MaxUpdates
    /\ feedSteps' = [feedSteps EXCEPT !.updates = @ + 1]
    /\ recent' = [recent EXCEPT ![p] = <<j>> \o RemoveFirst(@, j)]
    /\ latest' = IF event THEN [latest EXCEPT ![j] = @ + 1] ELSE latest
    /\ UNCHANGED <<profile, streams, polls, known, initialized, shown, announced>>

\* Mutant: only the events of the page before are known.
KnownFromPage(events) == events

Known(events) == known \union events

\* applyPage: the first event that is not known is announced, all of them are known.
Apply(page) ==
    LET events == {page[i] : i \in {k \in DOMAIN page : page[k][2] > 0}}
        fresh == {i \in DOMAIN page : page[i] \in events \ known}
    IN  /\ announced' = IF initialized /\ fresh # {}
                        THEN LET e == page[Min(fresh)]
                                 times == IF e \in DOMAIN announced THEN announced[e] ELSE 0
                             IN  [x \in DOMAIN announced \union {e} |->
                                     IF x = e THEN times + 1 ELSE announced[x]]
                        ELSE announced
        /\ known' = Known(events)
        /\ initialized' = TRUE
        /\ shown' = page

\* Not `cancelled`.
Live(f) == f.mount = feedSteps.switches

-----------------------------------------------------------------------------
(* The stream: the route polls the API and sends what has changed. *)

StreamSends(s) ==
    /\ s.arriving = NoPage /\ Page(s.profile) # s.prior
    /\ streams' = (streams \ {s}) \union
                    {[s EXCEPT !.prior = Page(s.profile), !.arriving = Page(s.profile)]}
    /\ UNCHANGED <<recent, latest, profile, polls, known, initialized, shown, announced, feedSteps>>

StreamArrives(s) ==
    /\ s.arriving # NoPage /\ Live(s)
    /\ streams' = (streams \ {s}) \union {[s EXCEPT !.arriving = NoPage]}
    /\ Apply(s.arriving)
    /\ UNCHANGED <<recent, latest, profile, polls, feedSteps>>

\* Mutant: the stream is left open.
StillOpen(s) == {s}

\* source.close(): nothing more of it is dispatched.
Closed(s) == {}

\* startPollingFallback, on an `unavailable` event, a payload that does not parse, or an
\* error: the route closes a stream whose token has expired.
FallBack(s) ==
    /\ Live(s)
    /\ ~ \E l \in polls : Live(l) /\ l.timed
    /\ streams' = (streams \ {s}) \union Closed(s)
    /\ polls' = polls \union {Polling(s.profile, s.mount)}
    /\ UNCHANGED <<recent, latest, profile, known, initialized, shown, announced, feedSteps>>

-----------------------------------------------------------------------------
(* A poll loop: asks, applies the answer, waits. *)

Waits(l) == [l EXCEPT !.step = "waiting", !.timed = TRUE, !.page = NoPage]

PollAnswered(l) ==
    /\ l.step = "asking"
    /\ polls' = (polls \ {l}) \union {[l EXCEPT !.step = "answered", !.page = Page(l.profile)]}
    /\ UNCHANGED <<recent, latest, profile, streams, known, initialized, shown, announced, feedSteps>>

\* Mutant: the page of an effect that was cleaned up is applied.
WantedAnyway(l) == TRUE

\* A loop of an effect that was cleaned up is `cancelled`: it applies nothing and ends.
Wanted(l) == Live(l)

PollApplies(l) ==
    /\ l.step = "answered"
    /\ IF Wanted(l) THEN Apply(l.page) ELSE UNCHANGED <<known, initialized, shown, announced>>
    /\ polls' = (polls \ {l}) \union
                    (IF Live(l) THEN {Waits(l)} ELSE {})
    /\ UNCHANGED <<recent, latest, profile, streams, feedSteps>>

PollFails(l) ==
    /\ l.step = "asking"
    /\ polls' = (polls \ {l}) \union (IF Live(l) THEN {Waits(l)} ELSE {})
    /\ UNCHANGED <<recent, latest, profile, streams, known, initialized, shown, announced, feedSteps>>

PollAgain(l) ==
    /\ l.step = "waiting"
    /\ polls' = (polls \ {l}) \union {[l EXCEPT !.step = "asking"]}
    /\ UNCHANGED <<recent, latest, profile, streams, known, initialized, shown, announced, feedSteps>>

\* The person switches the profile: the effect is cleaned up and runs anew.  Its timer of
\* 0 ms empties the screen before any answer of the network.
SwitchProfile(p) ==
    /\ p # profile
    /\ feedSteps.switches < MaxProfileSwitches
    /\ feedSteps' = [feedSteps EXCEPT !.switches = @ + 1]
    /\ profile' = p
    /\ streams' = {Opened(p, feedSteps'.switches)}
    /\ polls' = {l \in polls : l.step # "waiting"}
    /\ known' = {} /\ initialized' = FALSE
    /\ shown' = NoPage
    /\ announced' = [e \in {} |-> 0]
    /\ UNCHANGED <<recent, latest>>

FeedNext ==
    \/ \E p \in Profiles : \E j \in FeedJobs[p], event \in BOOLEAN : UpdateFeedJob(p, j, event)
    \/ \E s \in streams : StreamSends(s) \/ StreamArrives(s) \/ FallBack(s)
    \/ \E l \in polls : PollAnswered(l) \/ PollApplies(l) \/ PollFails(l) \/ PollAgain(l)
    \/ \E p \in Profiles : SwitchProfile(p)

FeedSpec == FeedInit /\ [][FeedNext]_feedVars

-----------------------------------------------------------------------------
(* Properties. *)

\* The mounted profile has one feed, the stream or one poll loop, whatever fails and in
\* whatever order: two would apply their pages in turn.
OneFeed == Cardinality({s \in streams : Live(s)}) + Cardinality({l \in polls : Live(l)}) = 1

\* An event is announced once while a profile is mounted, though its job leaves the window
\* and comes back and though the stream gives way to polling.
AnnouncedOnce == \A e \in DOMAIN announced : announced[e] = 1

\* After a switch the jobs of the other profile do not come back, whatever answer of its
\* feed is still under way.
OnlyOwnJobs == \A i \in DOMAIN shown : shown[i][1] \in FeedJobs[profile]

\* The profile on the screen has one feed, of its own jobs, that says everything once.
OneFaithfulFeed == OneFeed /\ AnnouncedOnce /\ OnlyOwnJobs
=============================================================================
