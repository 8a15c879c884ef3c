---------------------------- MODULE ListingsPage ----------------------------
(***************************************************************************)
(* The listings page around its pollers: the operation on the radar, which *)
(* answers, clock ticks and the user's choice compete for; the calibration *)
(* of the page's clock; and the drawer with one announcement, whose        *)
(* answers may come late.  Wording and warnings are left out.  Times are   *)
(* compared only; the clock may show any of them after a tick, since it    *)
(* follows the computer's and is moved by each calibration.                *)
(***************************************************************************)
EXTENDS ListingsPolling

CONSTANTS
    OperationsPart,     \* the part of a refresh that loads the operations
    MaxSafeInteger,     \* Number.MAX_SAFE_INTEGER
    OperationKeys,      \* numbers, in the order of the operation keys
    NoOperation,        \* no selection, or nothing to show
    Times,              \* what the page's clock may show
    Snapshots,          \* answers: what is listed, each operation with its state
    Grace, History,     \* OPENING_MISSION_GRACE_MS, RECENT_OPENING_HISTORY_MS
    Announcements,      \* ids
    NoDetail            \* announcementDetail is null

\* stage is "coming" if the group is upcoming or opening and the exchange neither
\* trades nor has disabled it; recency is the latest of all its times.
OperationStates ==
    [stage : {"coming", "trading", "disabled", "other"},
     start : 0 .. MaxSafeInteger, recency : 0 .. MaxSafeInteger]

ASSUME PageAssumption ==
    /\ OperationsPart \in Parts
    /\ MaxSafeInteger \in Nat
    /\ OperationKeys \subseteq 0 .. MaxSafeInteger /\ NoOperation \notin OperationKeys
    /\ Times \subseteq Nat /\ Times # {} /\ Grace \in Nat /\ History \in Nat
    /\ \A s \in Snapshots : /\ DOMAIN s \subseteq OperationKeys
                           /\ \A k \in DOMAIN s : s[k] \in OperationStates
    /\ NoDetail \notin Announcements

VARIABLES
    radar,      \* operations, nowMs, selectedOperationKey, selectionLocked
    clock,      \* calibrated, requested; recalibrate: what the round under way has
                \* read, or the next will; owed: a refresh waits for calibration
    drawer,     \* the announcement's drawer; opened: the id it was opened with last
    details     \* requests for an announcement under way

dialogVars == <<drawer, details>>
pageStateVars == <<radar, clock, dialogVars>>
allVars == <<vars, pageStateVars>>

PageTypeOK ==
    /\ PollingTypeOK
    /\ radar \in [operations : Snapshots \cup {<<>>}, nowMs : Times,
                  selected : OperationKeys \cup {NoOperation}, locked : BOOLEAN]
    /\ clock \in [calibrated : BOOLEAN, requested : BOOLEAN,
                  recalibrate : BOOLEAN, owed : BOOLEAN]
    /\ drawer \in [visible : BOOLEAN, leaving : BOOLEAN, loading : BOOLEAN,
                   unavailable : BOOLEAN, request : Nat,
                   detail : Announcements \cup {NoDetail},
                   opened : Announcements \cup {NoDetail}]
    /\ details \subseteq [request : Nat, id : Announcements]

-----------------------------------------------------------------------------
(***************************************************************************)
(* The operation on the radar                                              *)
(***************************************************************************)

Earlier(ops, j, k) ==
    \/ ops[j].start < ops[k].start
    \/ ops[j].start = ops[k].start /\ j < k

Newer(ops, j, k) ==
    \/ ops[j].recency > ops[k].recency
    \/ ops[j].recency = ops[k].recency /\ j < k

\* isCountdownMission; a start of 0 stands for none.
Missions(ops, now) ==
    {k \in DOMAIN ops : /\ ops[k].stage = "coming" /\ ops[k].start > 0
                        /\ ops[k].start + Grace >= now}

\* preferredCountdownMission: the next to start, else the last that has started.
PreferredMission(ops, now) ==
    LET missions == Missions(ops, now)
        future == {k \in missions : ops[k].start > now}
    IN  CASE future # {} ->
               CHOOSE k \in future : \A j \in future \ {k} : Earlier(ops, k, j)
          [] future = {} /\ missions # {} ->
               CHOOSE k \in missions : \A j \in missions \ {k} : Earlier(ops, j, k)
          [] OTHER -> NoOperation

\* fallbackDisplayOperation: the newest that has recently begun to trade.
FallbackOperation(ops, now) ==
    LET recent == {k \in DOMAIN ops : /\ ops[k].stage = "trading"
                                      /\ ops[k].start > 0 /\ ops[k].start <= now
                                      /\ ops[k].start + History >= now}
    IN  IF recent = {} THEN NoOperation
        ELSE CHOOSE k \in recent : \A j \in recent \ {k} : Newer(ops, k, j)

DefaultOperation(ops, now) ==
    LET preferred == PreferredMission(ops, now)
    IN  IF preferred # NoOperation THEN preferred ELSE FallbackOperation(ops, now)

Terminal(o) == o.stage \in {"trading", "disabled"}

\* displayOperation
Displayed(r) ==
    IF r.selected \in DOMAIN r.operations THEN r.selected
    ELSE DefaultOperation(r.operations, r.nowMs)

\* Mutant: the selection of the last answer stays until the next one.
TickedOnly(r, now) == [r EXCEPT !.nowMs = now]

\* tickClock with reconcileAutomaticSelectionAtClock
Ticked(r, now) ==
    [r EXCEPT !.nowMs = now,
              !.selected = IF r.locked THEN @ ELSE DefaultOperation(r.operations, now)]

\* reconcileSelection, after an answer
Reconciled(r) ==
    IF r.locked /\ r.selected \in DOMAIN r.operations
    THEN IF Terminal(r.operations[r.selected])
         THEN [r EXCEPT !.selected = PreferredMission(r.operations, r.nowMs),
                        !.locked = FALSE]
         ELSE r
    ELSE [r EXCEPT !.selected = DefaultOperation(r.operations, r.nowMs),
                   !.locked = FALSE]

-----------------------------------------------------------------------------
(***************************************************************************)
(* The pollers, with what their rounds read and bring                      *)
(***************************************************************************)

PageInit ==
    /\ PollingInit
    /\ \E t \in Times : radar = [operations |-> <<>>, nowMs |-> t, locked |-> FALSE,
                                 selected |-> NoOperation]
    /\ clock = [calibrated |-> FALSE, requested |-> FALSE, recalibrate |-> FALSE,
                owed |-> FALSE]
    /\ drawer = [visible |-> FALSE, leaving |-> FALSE, loading |-> FALSE,
                 unavailable |-> FALSE, request |-> 0, detail |-> NoDetail,
                 opened |-> NoDetail]
    /\ details = {}

\* A round that begins in this step reads calibrationRequested.
Reading(c) ==
    IF pollers[OperationsPart].rounds = {} THEN [c EXCEPT !.recalibrate = c.requested]
    ELSE c

\* Without the right to view there is no drawer, whose animation would end.
SwitchView ==
    /\ CanViewChanges
    /\ clock' = Reading(clock)
    /\ drawer' = [drawer EXCEPT !.leaving = FALSE]
    /\ UNCHANGED <<radar, details>>

\* startTicker shows the time at once.
SwitchVisibility ==
    /\ VisibilityChanges
    /\ clock' = Reading(clock)
    /\ IF visible' THEN \E t \in Times : radar' = Ticked(radar, t)
       ELSE UNCHANGED radar
    /\ UNCHANGED dialogVars

EndPolling ==
    /\ AuthenticationExpires \/ Dispose
    /\ UNCHANGED pageStateVars

Refresh ==
    /\ RefreshAndCalibrate
    /\ clock' = Reading([clock EXCEPT !.requested = TRUE, !.owed = TRUE])
    /\ UNCHANGED <<radar, dialogVars>>

RoundIsDue(p) ==
    /\ TimerFires(p)
    /\ clock' = IF p = OperationsPart THEN Reading(clock) ELSE clock
    /\ UNCHANGED <<radar, dialogVars>>

\* loadOperations fails, or finds the page gone; loadAnnouncements either way.
RoundFails(p, r) ==
    /\ RoundEnds(p, r)
    /\ clock' = IF p = OperationsPart
                THEN [clock EXCEPT !.recalibrate = clock.requested] ELSE clock
    /\ UNCHANGED <<radar, dialogVars>>

\* Mutant: whatever answer comes fulfils the request for a calibration.
ForgetRequest(c, calibrates) ==
    LET requested == FALSE
    IN  [calibrated |-> c.calibrated \/ calibrates, requested |-> requested,
         recalibrate |-> requested, owed |-> c.owed /\ ~calibrates]

\* pollOperations after an answer; the next round may begin at once.
ClockAfter(c, calibrates) ==
    LET requested == c.requested /\ ~c.recalibrate
    IN  [calibrated |-> c.calibrated \/ calibrates, requested |-> requested,
         recalibrate |-> requested, owed |-> c.owed /\ ~calibrates]

OperationsArrive(r, snapshot) ==
    LET calibrates == ~clock.calibrated \/ clock.recalibrate
        listed == [radar EXCEPT !.operations = snapshot]
    IN  /\ RoundEnds(OperationsPart, r)
        /\ ~disposed /\ canView
        /\ IF calibrates THEN \E t \in Times : radar' = Reconciled(Ticked(listed, t))
           ELSE radar' = Reconciled(listed)
        /\ clock' = ClockAfter(clock, calibrates)
        /\ UNCHANGED dialogVars

RoundIsOver(p) ==
    \E r \in pollers[p].rounds :
        \/ RoundFails(p, r)
        \/ p = OperationsPart /\ \E s \in Snapshots : OperationsArrive(r, s)

-----------------------------------------------------------------------------
(***************************************************************************)
(* The ticker and the user                                                 *)
(***************************************************************************)

Tick ==
    /\ visible /\ ~disposed
    /\ \E t \in Times : radar' = Ticked(radar, t)
    /\ UNCHANGED <<vars, clock, dialogVars>>

UserPresent == canView /\ visible /\ ~disposed

\* selectOperation, also by selectRelative
SelectOperation ==
    /\ UserPresent
    /\ \E k \in DOMAIN radar.operations :
        radar' = [radar EXCEPT !.selected = k, !.locked = TRUE]
    /\ UNCHANGED <<vars, clock, dialogVars>>

ReturnToLatest ==
    /\ UserPresent
    /\ radar' = [radar EXCEPT !.locked = FALSE,
                   !.selected = DefaultOperation(radar.operations, radar.nowMs)]
    /\ UNCHANGED <<vars, clock, dialogVars>>

-----------------------------------------------------------------------------
(***************************************************************************)
(* The drawer                                                              *)
(***************************************************************************)

\* Opened again while it closes, the drawer does not report that it has closed.
OpenAnnouncement(id) ==
    /\ UserPresent
    /\ LET request == drawer.request + 1
       IN  /\ drawer' = [visible |-> TRUE, leaving |-> FALSE, loading |-> TRUE,
                         unavailable |-> FALSE, request |-> request,
                         detail |-> NoDetail, opened |-> id]
           /\ details' = details \cup {[request |-> request, id |-> id]}
    /\ UNCHANGED <<vars, radar, clock>>

\* el-drawer sets announcementVisible and reports the end of its animation later.
CloseDrawer ==
    /\ UserPresent /\ drawer.visible
    /\ drawer' = [drawer EXCEPT !.visible = FALSE, !.leaving = TRUE]
    /\ UNCHANGED <<vars, radar, clock, details>>

HandleAnnouncementClosed ==
    /\ drawer.leaving /\ ~disposed
    /\ drawer' = [drawer EXCEPT !.visible = FALSE, !.leaving = FALSE,
                    !.loading = FALSE, !.unavailable = FALSE,
                    !.request = @ + 1, !.detail = NoDetail]
    /\ UNCHANGED <<vars, radar, clock, details>>

\* Mutant: the drawer shows whatever arrives while it is open.
CurrentIfOpen(d) == drawer.visible

\* The comparison that protects what the drawer shows.
Current(d) == d.request = drawer.request /\ drawer.visible

\* The request for d is answered, or fails; disposed, only loading is touched.
DetailEnds(d) ==
    /\ details' = details \ {d}
    /\ \E answered \in BOOLEAN :
        drawer' = IF ~Current(d) THEN drawer
                  ELSE [drawer EXCEPT !.loading = FALSE,
                          !.detail = IF answered /\ ~disposed THEN d.id ELSE @,
                          !.unavailable = @ \/ (~answered /\ ~disposed)]
    /\ UNCHANGED <<vars, radar, clock>>

PageNext ==
    \/ SwitchView \/ SwitchVisibility \/ EndPolling \/ Refresh
    \/ \E p \in Parts : RoundIsDue(p) \/ RoundIsOver(p)
    \/ Tick \/ SelectOperation \/ ReturnToLatest
    \/ \E id \in Announcements : OpenAnnouncement(id)
    \/ CloseDrawer \/ HandleAnnouncementClosed
    \/ \E d \in details : DetailEnds(d)

\* A timeout fires, and a request is answered or aborted after five seconds.
PageFairness ==
    \A p \in Parts : WF_allVars(RoundIsDue(p)) /\ WF_allVars(RoundIsOver(p))

PageSpec == PageInit /\ [][PageNext]_allVars /\ PageFairness

-----------------------------------------------------------------------------
(***************************************************************************)
(* Properties                                                              *)
(***************************************************************************)

\* The radar shows the operation the user has chosen as long as it is listed, and
\* otherwise the next to start by the clock the page shows: no order of answers,
\* ticks, calibrations and hiding leaves an old choice on it.
RadarShowsTheNext ==
    IF radar.locked THEN Displayed(radar) = radar.selected
                         /\ radar.selected \in DOMAIN radar.operations
    ELSE Displayed(radar) = DefaultOperation(radar.operations, radar.nowMs)

\* A manual refresh is owed a calibration until an answer has moved the clock,
\* through failed rounds, rounds that began before it, and a hidden page.
CalibrationIsNotLost == clock.owed => clock.requested

\* An open drawer is loading and waits for the announcement it was opened with
\* last, or shows that one, or says that it is unavailable.
DrawerTellsTheTruth ==
    drawer.visible /\ ~disposed =>
        \/ /\ drawer.loading /\ drawer.detail = NoDetail /\ ~drawer.unavailable
           /\ [request |-> drawer.request, id |-> drawer.opened] \in details
        \/ ~drawer.loading /\ drawer.detail = drawer.opened /\ ~drawer.unavailable
        \/ ~drawer.loading /\ drawer.detail = NoDetail /\ drawer.unavailable

\* A manual refresh ends as long as the page may poll, whatever was under way when
\* it was asked for and however often the page was hidden meanwhile.
ManualRefreshEnds == manualRefreshing ~> ~manualRefreshing \/ ~Pollable
=============================================================================
