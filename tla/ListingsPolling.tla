-------------------------- MODULE ListingsPolling ---------------------------
(***************************************************************************)
(* The listings page with its two serial pollers: visibility, the right to *)
(* view, an expired login and the manual refresh, against rounds that take *)
(* as long as they take.  A round's mark is whether the manual refresh was *)
(* waiting for this part when the round began.  ListingsPage adds the data *)
(* shown and the clock.                                                    *)
(***************************************************************************)
EXTENDS SerialPoller

CONSTANTS
    Parts,          \* operations, announcements
    MaxGenerations  \* bound: starts and stops by visibility and the right to view

ASSUME PollingAssumption ==
    Marks = BOOLEAN /\ Parts # {} /\ MaxGenerations \in Nat

VARIABLES
    pollers,            \* operationsPoller, announcementPoller
    canView, visible,
    disposed, authenticationExpired,
    manualRefreshing, manualPending

pageVars == <<canView, visible, disposed, authenticationExpired>>
manualVars == <<manualRefreshing, manualPending>>
vars == <<pollers, pageVars, manualVars>>

PollingTypeOK ==
    /\ pollers \in [Parts -> PollerStates]
    /\ canView \in BOOLEAN /\ visible \in BOOLEAN
    /\ disposed \in BOOLEAN /\ authenticationExpired \in BOOLEAN
    /\ manualRefreshing \in BOOLEAN
    /\ manualPending \in [Parts -> BOOLEAN]

\* Mutant: polling resumes although the login has expired.
MayPollExpired(view, seen, gone, expired) == view /\ ~gone /\ seen

\* The condition of syncPolling.
MayPoll(view, seen, gone, expired) == view /\ ~gone /\ ~expired /\ seen

Pollable == MayPoll(canView, visible, disposed, authenticationExpired)

StartAll(old) == [p \in Parts |-> Started(old[p], manualPending[p])]
StopAll(old) == [p \in Parts |-> Stopped(old[p])]

SyncPolling(old, pollable) == IF pollable THEN StartAll(old) ELSE StopAll(old)

\* created and mounted
PollingInit ==
    /\ canView \in BOOLEAN /\ visible \in BOOLEAN
    /\ disposed = FALSE /\ authenticationExpired = FALSE
    /\ manualRefreshing = FALSE
    /\ manualPending = [p \in Parts |-> FALSE]
    /\ pollers = LET fresh == [p \in Parts |-> NewPoller]
                 IN  SyncPolling(fresh, Pollable)

MayStillSwitch ==
    ~disposed /\ \A p \in Parts : pollers[p].generation < MaxGenerations

\* watch: canView
CanViewChanges ==
    /\ MayStillSwitch
    /\ canView' = ~canView
    /\ pollers' = SyncPolling(pollers, canView'
                    /\ MayPoll(canView', visible, disposed, authenticationExpired))
    /\ UNCHANGED <<visible, disposed, authenticationExpired, manualVars>>

VisibilityChanges ==
    /\ MayStillSwitch
    /\ visible' = ~visible
    /\ pollers' = SyncPolling(pollers, visible'
                    /\ MayPoll(canView, visible', disposed, authenticationExpired))
    /\ UNCHANGED <<canView, disposed, authenticationExpired, manualVars>>

\* AUTH_EXPIRED_EVENT, announced by any request of the console
AuthenticationExpires ==
    /\ ~disposed /\ ~authenticationExpired
    /\ authenticationExpired' = TRUE
    /\ manualRefreshing' = FALSE
    /\ manualPending' = [p \in Parts |-> FALSE]
    /\ pollers' = StopAll(pollers)
    /\ UNCHANGED <<canView, visible, disposed>>

\* beforeDestroy.  Signing in again reloads the page, which ends it likewise.
Dispose ==
    /\ ~disposed
    /\ disposed' = TRUE
    /\ pollers' = StopAll(pollers)
    /\ UNCHANGED <<canView, visible, authenticationExpired, manualVars>>

RefreshAndCalibrate ==
    /\ ~disposed /\ ~manualRefreshing /\ ~authenticationExpired /\ canView /\ visible
    /\ manualRefreshing' = TRUE
    /\ manualPending' = [p \in Parts |-> TRUE]
    /\ pollers' = [p \in Parts |-> Refreshed(pollers[p], TRUE)]
    /\ UNCHANGED pageVars

TimerFires(p) ==
    /\ pollers[p].timer # NoTimer
    /\ pollers' = [pollers EXCEPT ![p] = TimerFired(@, manualPending[p])]
    /\ UNCHANGED <<pageVars, manualVars>>

\* Mutant: the refresh is found complete before the part is marked.
CompleteManualPartLate(p) ==
    /\ manualPending' = [manualPending EXCEPT ![p] = FALSE]
    /\ manualRefreshing' = (manualRefreshing /\ \E q \in Parts : manualPending[q])

\* Mutant: the first part to end completes the whole refresh.
CompleteManualRefresh(p) ==
    /\ manualPending' = [q \in Parts |-> FALSE]
    /\ manualRefreshing' = FALSE

CompleteManualPart(p) ==
    /\ manualPending' = [manualPending EXCEPT ![p] = FALSE]
    /\ manualRefreshing' = (manualRefreshing /\ \E q \in Parts : manualPending'[q])

\* pollOperations, pollAnnouncements: answered, failed or not sent at all.
RoundEnds(p, r) ==
    /\ IF r.mark THEN CompleteManualPart(p) ELSE UNCHANGED manualVars
    /\ pollers' = [pollers EXCEPT ![p] = Ended(@, r, manualPending'[p])]
    /\ UNCHANGED pageVars

SomeRoundEnds(p) == \E r \in pollers[p].rounds : RoundEnds(p, r)

PollingNext ==
    \/ CanViewChanges \/ VisibilityChanges \/ AuthenticationExpires \/ Dispose
    \/ RefreshAndCalibrate
    \/ \E p \in Parts : TimerFires(p) \/ SomeRoundEnds(p)

PollingSpec == PollingInit /\ [][PollingNext]_vars

-----------------------------------------------------------------------------
(***************************************************************************)
(* Properties                                                              *)
(***************************************************************************)

\* "A slow request can never overlap the next polling round", through every
\* sequence of stops, starts and refreshes while it is under way.
OneRoundAtATime ==
    \A p \in Parts : \A q, r \in pollers[p].rounds : q = r

\* An active poller always has a round under way or one scheduled that will not
\* be refused: no order of stop, start, refresh and end of a round strands it.
PollingGoesOn ==
    \A p \in Parts : LET s == pollers[p] IN
        s.active => s.rounds # {} \/ s.timer = s.generation

\* The pollers are active while the page is in view, the user may view it and the
\* login holds, and never otherwise; nothing is scheduled on a quiet page.
PollingFollowsPage ==
    \A p \in Parts :
        /\ pollers[p].active = Pollable
        /\ ~Pollable => pollers[p].timer = NoTimer /\ ~pollers[p].pendingImmediate

\* A round that began for a manual refresh completes a part of that refresh and
\* never of a later one.
ManualRoundsCount ==
    \A p \in Parts : \A r \in pollers[p].rounds :
        r.mark => manualPending[p] \/ authenticationExpired

\* A manual refresh never waits for the timer: it has a part to complete, and each
\* such part has a round of the refresh under way, or one to begin the moment an
\* earlier round ends.
RefreshIsInHand ==
    /\ manualRefreshing => \E p \in Parts : manualPending[p]
    /\ \A p \in Parts : manualPending[p] /\ Pollable =>
          \/ \E r \in pollers[p].rounds : r.mark
          \/ pollers[p].rounds # {} /\ pollers[p].pendingImmediate
=============================================================================
