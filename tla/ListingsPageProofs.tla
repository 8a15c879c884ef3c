------------------------- MODULE ListingsPageProofs -------------------------
(***************************************************************************)
(* Proofs for the listings page: what each function of a poller keeps, and *)
(* from it the safety properties of the page with any number of pollers;   *)
(* then its radar, its clock and its drawer.                               *)
(***************************************************************************)
EXTENDS ListingsPage, TLAPS, WellFoundedInduction

\* A poller between two handlers.
PollerInv(s) ==
    /\ s \in PollerStates
    /\ s.running <=> s.rounds # {}
    /\ \A q, r \in s.rounds : q = r
    /\ s.timer # NoTimer => s.active /\ ~s.running /\ s.timer = s.generation
    /\ s.active /\ ~s.running => s.timer = s.generation
    /\ s.pendingImmediate => s.active /\ s.running

\* A round of s is marked only if b.
MarkedOnlyIf(s, b) == \A r \in s.rounds : r.mark => b

PageInv ==
    /\ PollingTypeOK
    /\ \A p \in Parts : PollerInv(pollers[p])
    /\ \A p \in Parts : pollers[p].active = Pollable
    /\ \A p \in Parts : MarkedOnlyIf(pollers[p], manualPending[p] \/ authenticationExpired)

\* A new poller is one between two handlers.
LEMMA NewPollerInv == PollerInv(NewPoller)
BY PollerAssumption DEF PollerInv, NewPoller, PollerStates

\* execute at a moment when no round is under way and none is scheduled.
LEMMA ExecuteInv ==
    ASSUME NEW s \in PollerStates, NEW mark \in BOOLEAN, NEW b \in BOOLEAN,
           s.active, ~s.running, s.rounds = {}, s.timer = NoTimer,
           ~s.pendingImmediate, mark => b
    PROVE  LET t == Execute(s, s.generation, mark) IN
           PollerInv(t) /\ t.active /\ MarkedOnlyIf(t, b)
<1> DEFINE r == [generation |-> s.generation, mark |-> mark, second |-> s.rounds # {}]
           t == [s EXCEPT !.running = TRUE, !.rounds = s.rounds \cup {r}]
<1>1. Execute(s, s.generation, mark) = t
  BY DEF Execute, MayRun, PollerStates
<1>2. r \in Rounds
  BY PollingAssumption DEF Rounds, PollerStates
<1>3. t.rounds = {r} /\ t.running /\ t.active /\ t.timer = NoTimer /\ ~t.pendingImmediate
  BY DEF PollerStates
<1>4. t \in PollerStates
  BY <1>2 DEF PollerStates
<1>5. r.mark = mark
  OBVIOUS
<1> HIDE DEF r, t
<1>6. QED
  BY <1>1, <1>3, <1>4, <1>5 DEF PollerInv, MarkedOnlyIf

\* start leaves an active poller.
LEMMA StartedInv ==
    ASSUME NEW s, PollerInv(s), NEW mark \in BOOLEAN, NEW b \in BOOLEAN,
           mark => b, MarkedOnlyIf(s, b)
    PROVE  LET t == Started(s, mark) IN PollerInv(t) /\ t.active /\ MarkedOnlyIf(t, b)
<1>1. CASE s.active
  BY <1>1 DEF Started
<1>2. CASE ~s.active
  <2> DEFINE u == [s EXCEPT !.active = TRUE, !.generation = s.generation + 1,
                            !.timer = NoTimer]
  <2>1. Started(s, mark) = ExecuteOrWait(u, mark)
    BY <1>2 DEF Started
  <2>a. s \in PollerStates
    BY DEF PollerInv
  <2>b. PICK g \in Nat : g = s.generation + 1
    BY <2>a DEF PollerStates
  <2>c. u = [s EXCEPT !.active = TRUE, !.generation = g, !.timer = NoTimer]
    BY <2>b
  <2> HIDE DEF u
  <2>2. u \in PollerStates /\ u.active /\ u.running = s.running /\ u.rounds = s.rounds
        /\ u.timer = NoTimer /\ u.pendingImmediate = s.pendingImmediate
    BY <2>a, <2>c DEF PollerStates
  <2>3. CASE u.running
    <3> DEFINE w == [u EXCEPT !.pendingImmediate = TRUE]
    <3>1. w \in PollerStates /\ w.active /\ w.running /\ w.rounds = s.rounds
          /\ w.timer = NoTimer /\ w.pendingImmediate
      BY <2>2, <2>3 DEF PollerStates
    <3>2. ExecuteOrWait(u, mark) = w
      BY <2>3 DEF ExecuteOrWait
    <3> HIDE DEF w
    <3>3. QED
      BY <2>1, <2>2, <2>3, <3>1, <3>2 DEF PollerInv, MarkedOnlyIf
  <2>4. CASE ~u.running
    <3>1. s.rounds = {} /\ ~s.pendingImmediate
      BY <1>2, <2>2, <2>4 DEF PollerInv
    <3>2. ExecuteOrWait(u, mark) = Execute(u, u.generation, mark)
      BY <2>4 DEF ExecuteOrWait
    <3>3. QED
      BY <2>1, <2>2, <2>4, <3>1, <3>2, ExecuteInv
  <2>5. QED
    BY <2>3, <2>4
<1>3. QED
  BY <1>1, <1>2

\* stop leaves a poller with nothing scheduled, and a round under way to its end.
LEMMA StoppedInv ==
    ASSUME NEW s, PollerInv(s)
    PROVE  LET t == Stopped(s) IN PollerInv(t) /\ t.active = FALSE /\ t.rounds = s.rounds
<1>a. s \in PollerStates
  BY DEF PollerInv
<1>b. PICK g \in Nat : g = s.generation + 1
  BY <1>a DEF PollerStates
<1>c. Stopped(s) = [s EXCEPT !.active = FALSE, !.generation = g,
                      !.pendingImmediate = FALSE, !.timer = NoTimer]
  BY <1>b DEF Stopped
<1>1. /\ Stopped(s) \in PollerStates
      /\ Stopped(s).active = FALSE /\ Stopped(s).timer = NoTimer
      /\ Stopped(s).pendingImmediate = FALSE
      /\ Stopped(s).running = s.running /\ Stopped(s).rounds = s.rounds
  BY <1>a, <1>c DEF PollerStates
<1>2. QED
  BY <1>1 DEF PollerInv

\* refresh keeps the poller active.
LEMMA RefreshedInv ==
    ASSUME NEW s, PollerInv(s), s.active, NEW mark \in BOOLEAN, NEW b \in BOOLEAN,
           mark => b, MarkedOnlyIf(s, b)
    PROVE  LET t == Refreshed(s, mark) IN PollerInv(t) /\ t.active /\ MarkedOnlyIf(t, b)
<1> DEFINE u == [s EXCEPT !.timer = NoTimer]
<1>1. Refreshed(s, mark) = ExecuteOrWait(u, mark)
  BY DEF Refreshed
<1>a. s \in PollerStates
  BY DEF PollerInv
<1>2. u \in PollerStates /\ u.active /\ u.running = s.running /\ u.rounds = s.rounds
      /\ u.timer = NoTimer /\ u.pendingImmediate = s.pendingImmediate
  BY <1>a DEF PollerStates
<1> HIDE DEF u
<1>3. CASE u.running
  <2> DEFINE w == [u EXCEPT !.pendingImmediate = TRUE]
  <2>1. w \in PollerStates /\ w.active /\ w.running /\ w.rounds = s.rounds
        /\ w.timer = NoTimer /\ w.pendingImmediate
    BY <1>2, <1>3 DEF PollerStates
  <2>2. ExecuteOrWait(u, mark) = w
    BY <1>3 DEF ExecuteOrWait
  <2> HIDE DEF w
  <2>3. QED
    BY <1>1, <1>2, <1>3, <2>1, <2>2 DEF PollerInv, MarkedOnlyIf
<1>4. CASE ~u.running
  <2>1. s.rounds = {} /\ ~s.pendingImmediate
    BY <1>2, <1>4 DEF PollerInv
  <2>2. ExecuteOrWait(u, mark) = Execute(u, u.generation, mark)
    BY <1>4 DEF ExecuteOrWait
  <2>3. QED
    BY <1>1, <1>2, <1>4, <2>1, <2>2, ExecuteInv
<1>5. QED
  BY <1>3, <1>4

\* The timer of a poller fires: it was the one scheduled for the present
\* generation, so the round begins.
LEMMA TimerFiredInv ==
    ASSUME NEW s, PollerInv(s), s.timer # NoTimer, NEW mark \in BOOLEAN,
           NEW b \in BOOLEAN, mark => b
    PROVE  LET t == TimerFired(s, mark) IN PollerInv(t) /\ t.active /\ MarkedOnlyIf(t, b)
<1> DEFINE u == [s EXCEPT !.timer = NoTimer]
<1>1. /\ s \in PollerStates /\ s.active /\ ~s.running /\ s.rounds = {}
      /\ ~s.pendingImmediate /\ s.timer = s.generation
  BY DEF PollerInv
<1>2. /\ u \in PollerStates /\ u.active /\ ~u.running /\ u.rounds = {}
      /\ u.timer = NoTimer /\ ~u.pendingImmediate /\ u.generation = s.timer
  BY <1>1 DEF PollerStates
<1>3. TimerFired(s, mark) = Execute(u, s.timer, mark)
  BY DEF TimerFired
<1> HIDE DEF u
<1>4. QED
  BY <1>2, <1>3, ExecuteInv

\* A round ends: the next one begins or is scheduled if the poller is active, and
\* neither if it has been stopped.
LEMMA EndedInv ==
    ASSUME NEW s, PollerInv(s), NEW r \in s.rounds, NEW mark \in BOOLEAN,
           NEW b \in BOOLEAN, mark => b
    PROVE  LET t == Ended(s, r, mark) IN
           PollerInv(t) /\ t.active = s.active /\ MarkedOnlyIf(t, b)
<1> DEFINE t == [s EXCEPT !.running = FALSE, !.rounds = s.rounds \ {r}]
           u == [t EXCEPT !.pendingImmediate = FALSE]
           again == t.active /\ (t.pendingImmediate \/ r.generation # t.generation)
<1>1. s \in PollerStates /\ s.running /\ s.timer = NoTimer /\ s.rounds \ {r} = {}
  BY DEF PollerInv, PollerStates
<1>2. /\ t \in PollerStates /\ t.active = s.active /\ ~t.running /\ t.rounds = {}
      /\ t.timer = NoTimer /\ t.pendingImmediate = s.pendingImmediate
  BY <1>1 DEF PollerStates
<1>3. Ended(s, r, mark) = IF again THEN Execute(u, u.generation, mark)
                          ELSE Schedule(t, r.generation)
  BY DEF Ended
<1>4. s.pendingImmediate => s.active
  BY DEF PollerInv
<1> HIDE DEF t
<1>5. CASE again
  <2>1. /\ u \in PollerStates /\ u.active /\ ~u.running /\ u.rounds = {}
        /\ u.timer = NoTimer /\ ~u.pendingImmediate
    BY <1>2, <1>5 DEF PollerStates
  <2>2. t.active = TRUE /\ s.active = TRUE
    BY <1>2, <1>5 DEF PollerStates
  <2> HIDE DEF u, again
  <2>3. LET v == Execute(u, u.generation, mark)
        IN  PollerInv(v) /\ v.active /\ MarkedOnlyIf(v, b)
    BY <2>1, ExecuteInv
  <2>4. Ended(s, r, mark).active \in BOOLEAN
    BY <2>3, <1>3, <1>5 DEF PollerInv, PollerStates
  <2>5. QED
    BY <1>3, <1>5, <2>2, <2>3, <2>4
<1>6. CASE ~again /\ t.active
  <2> DEFINE v == [t EXCEPT !.timer = t.generation]
  <2>1. r.generation = t.generation /\ ~t.pendingImmediate
    BY <1>6
  <2>2. Ended(s, r, mark) = v
    BY <1>2, <1>3, <1>6, <2>1 DEF Schedule, MayRun
  <2>3. /\ v \in PollerStates /\ v.active = s.active /\ ~v.running /\ v.rounds = {}
        /\ v.timer = v.generation /\ ~v.pendingImmediate /\ v.active
    BY <1>2, <1>6, <2>1 DEF PollerStates
  <2> HIDE DEF v, again
  <2>4. QED
    BY <2>2, <2>3 DEF PollerInv, MarkedOnlyIf
<1>7. CASE ~t.active
  <2>1. Ended(s, r, mark) = t
    BY <1>3, <1>7 DEF Schedule, MayRun
  <2> HIDE DEF u, again
  <2>2. QED
    BY <1>2, <1>4, <1>7, <2>1 DEF PollerInv, MarkedOnlyIf
<1>8. QED
  BY <1>5, <1>6, <1>7 DEF PollerStates

-----------------------------------------------------------------------------
\* What the page keeps of a family of pollers that has this activity and these
\* conditions on marked rounds.
PollersInv(f, on, b) ==
    /\ f \in [Parts -> PollerStates]
    /\ \A p \in Parts : PollerInv(f[p])
    /\ \A p \in Parts : f[p].active = on
    /\ \A p \in Parts : MarkedOnlyIf(f[p], b[p])

\* syncPolling, whatever the pollers were doing.
LEMMA SyncInv ==
    ASSUME NEW f \in [Parts -> PollerStates], \A p \in Parts : PollerInv(f[p]),
           NEW on \in BOOLEAN, manualPending \in [Parts -> BOOLEAN],
           NEW b \in [Parts -> BOOLEAN], \A p \in Parts : manualPending[p] => b[p],
           \A p \in Parts : MarkedOnlyIf(f[p], b[p])
    PROVE  PollersInv(SyncPolling(f, on), on, b)
<1>1. CASE on = TRUE
  <2> DEFINE g == [p \in Parts |-> Started(f[p], manualPending[p])]
  <2>1. SyncPolling(f, on) = g
    BY <1>1 DEF SyncPolling, StartAll
  <2>2. ASSUME NEW p \in Parts
        PROVE  /\ PollerInv(g[p]) /\ g[p] \in PollerStates
               /\ g[p].active = TRUE /\ MarkedOnlyIf(g[p], b[p])
    <3>1. manualPending[p] \in BOOLEAN /\ b[p] \in BOOLEAN /\ PollerInv(f[p])
          /\ MarkedOnlyIf(f[p], b[p]) /\ (manualPending[p] => b[p])
      OBVIOUS
    <3>2. /\ PollerInv(g[p]) /\ g[p].active /\ MarkedOnlyIf(g[p], b[p])
      BY <3>1, StartedInv
    <3>3. g[p] \in PollerStates
      BY <3>2 DEF PollerInv
    <3>4. QED
      BY <3>2, <3>3 DEF PollerStates
  <2>3. g \in [Parts -> PollerStates]
    BY <2>2
  <2> HIDE DEF g
  <2>4. QED
    BY <1>1, <2>1, <2>2, <2>3 DEF PollersInv
<1>2. CASE on = FALSE
  <2> DEFINE g == [p \in Parts |-> Stopped(f[p])]
  <2>1. SyncPolling(f, on) = g
    BY <1>2 DEF SyncPolling, StopAll
  <2>2. ASSUME NEW p \in Parts
        PROVE  /\ PollerInv(g[p]) /\ g[p] \in PollerStates
               /\ g[p].active = FALSE /\ MarkedOnlyIf(g[p], b[p])
    <3>1. PollerInv(g[p]) /\ g[p].active = FALSE /\ g[p].rounds = f[p].rounds
      BY StoppedInv
    <3>2. QED
      BY <3>1 DEF PollerInv, MarkedOnlyIf
  <2>3. g \in [Parts -> PollerStates]
    BY <2>2
  <2> HIDE DEF g
  <2>4. QED
    BY <1>2, <2>1, <2>2, <2>3 DEF PollersInv
<1>3. QED
  BY <1>1, <1>2

\* stopPolling is syncPolling on a page that may not poll.
LEMMA StopIsSync == \A f : StopAll(f) = SyncPolling(f, FALSE)
BY DEF SyncPolling

\* The rounds that may be marked.
Covered == [p \in Parts |-> manualPending[p] \/ authenticationExpired]

ScalarsOK ==
    /\ canView \in BOOLEAN /\ visible \in BOOLEAN
    /\ disposed \in BOOLEAN /\ authenticationExpired \in BOOLEAN
    /\ manualRefreshing \in BOOLEAN
    /\ manualPending \in [Parts -> BOOLEAN]

\* The invariant in the form the steps are proved in.
LEMMA PageInvForm ==
    PageInv <=> ScalarsOK /\ PollersInv(pollers, Pollable, Covered)
BY DEF PageInv, ScalarsOK, PollersInv, PollingTypeOK, Covered

\* The page once it is mounted.
LEMMA PollingInitInv == PollingInit => PageInv
<1> SUFFICES ASSUME PollingInit PROVE PageInv
  OBVIOUS
<1> DEFINE fresh == [p \in Parts |-> NewPoller]
<1>1. ScalarsOK /\ Covered \in [Parts -> BOOLEAN] /\ Pollable \in BOOLEAN
  BY DEF PollingInit, ScalarsOK, Covered, Pollable, MayPoll
<1>2. NewPoller \in PollerStates /\ NewPoller.rounds = {}
  BY NewPollerInv DEF PollerInv, NewPoller
<1>3. /\ fresh \in [Parts -> PollerStates]
      /\ \A p \in Parts : PollerInv(fresh[p])
      /\ \A p \in Parts : MarkedOnlyIf(fresh[p], Covered[p])
  BY <1>2, NewPollerInv DEF MarkedOnlyIf
<1>4. \A p \in Parts : manualPending[p] => Covered[p]
  BY DEF PollingInit, Covered
<1>5. pollers = SyncPolling(fresh, Pollable)
  BY DEF PollingInit
<1> HIDE DEF fresh
<1>6. PollersInv(pollers, Pollable, Covered)
  BY <1>1, <1>3, <1>4, <1>5, SyncInv DEF ScalarsOK
<1>7. QED
  BY <1>1, <1>6, PageInvForm

\* Every step of the page and of its pollers keeps the invariant.
LEMMA PollingStepInv == PageInv /\ [PollingNext]_vars => PageInv'
<1> SUFFICES ASSUME PageInv, [PollingNext]_vars PROVE PageInv'
  OBVIOUS
<1>1. ScalarsOK /\ PollersInv(pollers, Pollable, Covered)
  BY PageInvForm
<1>2. /\ pollers \in [Parts -> PollerStates]
      /\ \A p \in Parts : PollerInv(pollers[p])
      /\ \A p \in Parts : pollers[p].active = Pollable
      /\ \A p \in Parts : MarkedOnlyIf(pollers[p], Covered[p])
      /\ Covered \in [Parts -> BOOLEAN]
      /\ Pollable \in BOOLEAN
      /\ \A p \in Parts : manualPending[p] => Covered[p]
  BY <1>1 DEF PollersInv, Covered, ScalarsOK, Pollable, MayPoll
<1>3. SUFFICES ScalarsOK' /\ PollersInv(pollers', Pollable', Covered')
  BY DEF PageInv, ScalarsOK, PollersInv, PollingTypeOK, Covered
<1>4. CASE CanViewChanges
  <2>1. ScalarsOK' /\ Covered' = Covered /\ Pollable' \in BOOLEAN
        /\ pollers' = SyncPolling(pollers, Pollable')
    BY <1>1, <1>4 DEF CanViewChanges, ScalarsOK, Covered, Pollable, MayPoll, manualVars
  <2>2. QED
    BY <1>1, <1>2, <2>1, SyncInv DEF ScalarsOK
<1>5. CASE VisibilityChanges
  <2>1. ScalarsOK' /\ Covered' = Covered /\ Pollable' \in BOOLEAN
        /\ pollers' = SyncPolling(pollers, Pollable')
    BY <1>1, <1>5 DEF VisibilityChanges, ScalarsOK, Covered, Pollable, MayPoll, manualVars
  <2>2. QED
    BY <1>1, <1>2, <2>1, SyncInv DEF ScalarsOK
<1>6. CASE AuthenticationExpires
  <2>1. ScalarsOK' /\ Pollable' = FALSE /\ pollers' = SyncPolling(pollers, FALSE)
    BY <1>1, <1>6, StopIsSync
       DEF AuthenticationExpires, ScalarsOK, Pollable, MayPoll
  <2>2. Covered' = [p \in Parts |-> TRUE]
    BY <1>6 DEF AuthenticationExpires, Covered
  <2>3. /\ [p \in Parts |-> TRUE] \in [Parts -> BOOLEAN]
        /\ \A p \in Parts : MarkedOnlyIf(pollers[p], [q \in Parts |-> TRUE][p])
    BY DEF MarkedOnlyIf
  <2>4. PollersInv(SyncPolling(pollers, FALSE), FALSE, Covered')
    BY <1>1, <1>2, <2>2, <2>3, SyncInv DEF ScalarsOK
  <2>5. QED
    BY <2>1, <2>4
<1>7. CASE Dispose
  <2>1. ScalarsOK' /\ Covered' = Covered /\ Pollable' = FALSE
        /\ pollers' = SyncPolling(pollers, FALSE)
    BY <1>1, <1>7, StopIsSync
       DEF Dispose, ScalarsOK, Covered, Pollable, MayPoll, manualVars
  <2>2. QED
    BY <1>1, <1>2, <2>1, SyncInv DEF ScalarsOK
<1>8. CASE RefreshAndCalibrate
  <2>1. ScalarsOK' /\ Pollable' = TRUE /\ Pollable = TRUE
        /\ Covered' = [p \in Parts |-> TRUE]
    BY <1>1, <1>8
       DEF RefreshAndCalibrate, ScalarsOK, Covered, Pollable, MayPoll, pageVars
  <2>2. ASSUME NEW p \in Parts
        PROVE  LET t == Refreshed(pollers[p], TRUE) IN
               PollerInv(t) /\ t.active /\ MarkedOnlyIf(t, TRUE)
    BY <1>2, <2>1, RefreshedInv DEF MarkedOnlyIf
  <2>3. pollers' = [p \in Parts |-> Refreshed(pollers[p], TRUE)]
    BY <1>8 DEF RefreshAndCalibrate
  <2>4. ASSUME NEW p \in Parts
        PROVE  /\ PollerInv(pollers'[p]) /\ pollers'[p] \in PollerStates
               /\ pollers'[p].active = TRUE /\ MarkedOnlyIf(pollers'[p], Covered'[p])
    <3>1. PollerInv(pollers'[p]) /\ pollers'[p].active /\ MarkedOnlyIf(pollers'[p], TRUE)
      BY <2>2, <2>3
    <3>2. pollers'[p] \in PollerStates
      BY <3>1 DEF PollerInv
    <3>3. pollers'[p].active = TRUE
      BY <3>1, <3>2 DEF PollerStates
    <3>4. QED
      BY <2>1, <3>1, <3>2, <3>3
  <2>5. pollers' \in [Parts -> PollerStates]
    BY <2>3, <2>4
  <2>6. QED
    BY <2>1, <2>4, <2>5 DEF PollersInv
<1>9. ASSUME NEW p \in Parts, TimerFires(p)
      PROVE  ScalarsOK' /\ PollersInv(pollers', Pollable', Covered')
  <2>1. ScalarsOK' /\ Covered' = Covered /\ Pollable' = Pollable
    BY <1>1, <1>9
       DEF TimerFires, ScalarsOK, Covered, Pollable, MayPoll, pageVars, manualVars
  <2> DEFINE t == TimerFired(pollers[p], manualPending[p])
  <2>2. pollers' = [pollers EXCEPT ![p] = t]
    BY <1>9 DEF TimerFires
  <2>3. /\ pollers[p].timer # NoTimer /\ PollerInv(pollers[p])
        /\ manualPending[p] \in BOOLEAN /\ Covered[p] \in BOOLEAN
        /\ manualPending[p] => Covered[p]
    BY <1>1, <1>2, <1>9 DEF TimerFires, ScalarsOK
  <2>4. PollerInv(t) /\ t.active /\ MarkedOnlyIf(t, Covered[p])
    BY <2>3, TimerFiredInv
  <2>5. pollers[p].active
    BY <2>3 DEF PollerInv
  <2>6. t \in PollerStates /\ t.active = Pollable
    BY <1>2, <2>4, <2>5 DEF PollerInv, PollerStates
  <2> HIDE DEF t
  <2>7. QED
    BY <1>2, <2>1, <2>2, <2>4, <2>6 DEF PollersInv
<1>10. ASSUME NEW p \in Parts, SomeRoundEnds(p)
       PROVE  ScalarsOK' /\ PollersInv(pollers', Pollable', Covered')
  <2>1. PICK r \in pollers[p].rounds : RoundEnds(p, r)
    BY <1>10 DEF SomeRoundEnds
  <2>2. /\ manualPending' \in [Parts -> BOOLEAN]
        /\ \A q \in Parts \ {p} : manualPending'[q] = manualPending[q]
    BY <1>1, <2>1 DEF RoundEnds, CompleteManualPart, manualVars, ScalarsOK
  <2>3. manualRefreshing' \in BOOLEAN
    BY <1>1, <2>1 DEF RoundEnds, CompleteManualPart, manualVars, ScalarsOK
  <2>4. ScalarsOK' /\ Pollable' = Pollable
    BY <1>1, <2>1, <2>2, <2>3 DEF RoundEnds, ScalarsOK, Pollable, MayPoll, pageVars
  <2>5. /\ Covered' \in [Parts -> BOOLEAN]
        /\ manualPending'[p] => Covered'[p]
        /\ \A q \in Parts \ {p} : Covered'[q] = Covered[q]
    BY <2>1, <2>2, <2>4 DEF Covered, RoundEnds, pageVars, ScalarsOK
  <2> DEFINE t == Ended(pollers[p], r, manualPending'[p])
  <2>6. pollers' = [pollers EXCEPT ![p] = t]
    BY <2>1 DEF RoundEnds
  <2>7. PollerInv(t) /\ t.active = pollers[p].active /\ MarkedOnlyIf(t, Covered'[p])
    <3>1. manualPending'[p] \in BOOLEAN /\ Covered'[p] \in BOOLEAN
          /\ PollerInv(pollers[p])
      BY <1>2, <2>2, <2>5
    <3>2. QED
      BY <2>5, <3>1, EndedInv
  <2>8. t \in PollerStates /\ t.active = Pollable
    BY <1>2, <2>7 DEF PollerInv
  <2> HIDE DEF t
  <2>9. QED
    BY <1>2, <2>4, <2>5, <2>6, <2>7, <2>8 DEF PollersInv
<1>11. CASE UNCHANGED vars
  BY <1>1, <1>11 DEF vars, pageVars, manualVars, ScalarsOK, PollersInv, Pollable,
     MayPoll, Covered
<1>12. QED
  BY <1>4, <1>5, <1>6, <1>7, <1>8, <1>9, <1>10, <1>11 DEF PollingNext

\* What holds of each poller in every reachable state of the page.
LEMMA PageInvHolds == PollingSpec => []PageInv
<1>1. PollingInit => PageInv
  BY PollingInitInv
<1>2. PageInv /\ [PollingNext]_vars => PageInv'
  BY PollingStepInv
<1>3. QED
  BY <1>1, <1>2, PTL DEF PollingSpec

\* Every reachable state of the page is well typed.
THEOREM PollingTypeCorrect == PollingSpec => []PollingTypeOK
<1>1. PageInv => PollingTypeOK
  BY DEF PageInv
<1>2. QED
  BY <1>1, PageInvHolds, PTL

\* Rounds of one poller never overlap, whatever stops, starts and refreshes fall
\* into a round: running is true exactly while a round is under way.
THEOREM RoundsNeverOverlap == PollingSpec => []OneRoundAtATime
<1>1. PageInv => OneRoundAtATime
  BY DEF PageInv, PollerInv, OneRoundAtATime
<1>2. QED
  BY <1>1, PageInvHolds, PTL

\* No active poller is left without a round under way or scheduled.
THEOREM NoPollerIsStranded == PollingSpec => []PollingGoesOn
<1>1. PageInv => PollingGoesOn
  BY DEF PageInv, PollerInv, PollingGoesOn
<1>2. QED
  BY <1>1, PageInvHolds, PTL

\* The page polls exactly while it may, and a quiet page has nothing scheduled.
THEOREM QuietPageIsQuiet == PollingSpec => []PollingFollowsPage
<1>1. PageInv => PollingFollowsPage
  <2> SUFFICES ASSUME PageInv, NEW p \in Parts
               PROVE  /\ pollers[p].active = Pollable
                      /\ ~Pollable => pollers[p].timer = NoTimer
                                      /\ ~pollers[p].pendingImmediate
    BY DEF PollingFollowsPage
  <2>1. PollerInv(pollers[p]) /\ pollers[p].active = Pollable
    BY DEF PageInv
  <2>2. QED
    BY <2>1 DEF PollerInv
<1>2. QED
  BY <1>1, PageInvHolds, PTL

\* Only rounds of the present manual refresh complete its parts.
THEOREM ManualRoundsAreOfTheRefresh == PollingSpec => []ManualRoundsCount
<1>1. PageInv => ManualRoundsCount
  BY DEF PageInv, MarkedOnlyIf, ManualRoundsCount
<1>2. QED
  BY <1>1, PageInvHolds, PTL

-----------------------------------------------------------------------------
(***************************************************************************)
(* The manual refresh                                                      *)
(***************************************************************************)

\* A pending part is served by a round that is marked, or by the next one.
Served(s, pending) ==
    pending /\ s.active => s.pendingImmediate \/ \E r \in s.rounds : r.mark

\* A round that may begin does, with the mark it reads.
LEMMA ExecuteServes ==
    ASSUME NEW s \in PollerStates, s.active, ~s.running, NEW mark \in BOOLEAN
    PROVE  Served(Execute(s, s.generation, mark), mark)
<1> DEFINE r == [generation |-> s.generation, mark |-> mark, second |-> s.rounds # {}]
<1>1. Execute(s, s.generation, mark) =
        [s EXCEPT !.running = TRUE, !.rounds = s.rounds \cup {r}]
  BY DEF Execute, MayRun
<1>2. Execute(s, s.generation, mark).rounds = s.rounds \cup {r}
  BY <1>1 DEF PollerStates
<1>3. r.mark = mark
  OBVIOUS
<1> HIDE DEF r
<1> QED BY <1>2, <1>3 DEF Served

\* Asked to begin a round, a poller begins it or remembers to.
LEMMA ExecuteOrWaitServes ==
    ASSUME NEW s \in PollerStates, s.active, NEW mark \in BOOLEAN
    PROVE  Served(ExecuteOrWait(s, mark), mark)
<1>1. CASE s.running
  <2>1. ExecuteOrWait(s, mark).pendingImmediate
    BY <1>1 DEF ExecuteOrWait, PollerStates
  <2> QED BY <2>1 DEF Served
<1>2. CASE ~s.running
  BY <1>2, ExecuteServes DEF ExecuteOrWait
<1> QED BY <1>1, <1>2

\* syncPolling: what is pending is served once the page may poll again.
LEMMA SyncServes ==
    ASSUME NEW f \in [Parts -> PollerStates], NEW on \in BOOLEAN,
           manualPending \in [Parts -> BOOLEAN],
           \A p \in Parts : Served(f[p], manualPending[p])
    PROVE  \A p \in Parts : Served(SyncPolling(f, on)[p], manualPending[p])
<1> SUFFICES ASSUME NEW p \in Parts
             PROVE  Served(SyncPolling(f, on)[p], manualPending[p])
  OBVIOUS
<1> DEFINE s == f[p]
           mark == manualPending[p]
<1>1. s \in PollerStates /\ mark \in BOOLEAN /\ Served(s, mark)
  OBVIOUS
<1>2. SyncPolling(f, on)[p] = IF on THEN Started(s, mark) ELSE Stopped(s)
  BY DEF SyncPolling, StartAll, StopAll
<1> SUFFICES Served(SyncPolling(f, on)[p], mark)
  OBVIOUS
<1> HIDE DEF s, mark
<1>3. CASE ~on
  <2>1. Stopped(s).active = FALSE
    BY <1>1 DEF Stopped, PollerStates
  <2> QED BY <1>2, <1>3, <2>1 DEF Served
<1>4. CASE on /\ s.active
  BY <1>1, <1>2, <1>4 DEF Started
<1>5. CASE on /\ ~s.active
  <2>1. PICK g \in Nat : g = s.generation + 1
    BY <1>1 DEF PollerStates
  <2> DEFINE u == [s EXCEPT !.active = TRUE, !.generation = g, !.timer = NoTimer]
  <2>2. u \in PollerStates /\ u.active
    BY <1>1 DEF PollerStates
  <2>3. Started(s, mark) = ExecuteOrWait(u, mark)
    BY <1>5, <2>1 DEF Started
  <2>4. SyncPolling(f, on)[p] = ExecuteOrWait(u, mark)
    BY <1>2, <1>5, <2>3
  <2> HIDE DEF u
  <2> QED BY <1>1, <2>2, <2>4, ExecuteOrWaitServes
<1> QED BY <1>3, <1>4, <1>5

\* A timer of the present generation begins a round.
LEMMA TimerServes ==
    ASSUME NEW s, PollerInv(s), s.timer # NoTimer, NEW mark \in BOOLEAN
    PROVE  Served(TimerFired(s, mark), mark)
<1> DEFINE u == [s EXCEPT !.timer = NoTimer]
<1>1. s \in PollerStates /\ s.active /\ ~s.running /\ s.timer = s.generation
  BY DEF PollerInv
<1>2. u \in PollerStates /\ u.active /\ ~u.running /\ u.generation = s.timer
  BY <1>1 DEF PollerStates
<1>3. TimerFired(s, mark) = Execute(u, u.generation, mark)
  BY <1>2 DEF TimerFired
<1> HIDE DEF u
<1> QED BY <1>2, <1>3, ExecuteServes

\* The end of a round that was not marked begins the one a pending part waits for.
LEMMA EndServes ==
    ASSUME NEW s, PollerInv(s), NEW r \in s.rounds, NEW mark \in BOOLEAN,
           Served(s, mark), ~r.mark
    PROVE  Served(Ended(s, r, mark), mark)
<1> DEFINE t == [s EXCEPT !.running = FALSE, !.rounds = s.rounds \ {r}]
           u == [t EXCEPT !.pendingImmediate = FALSE]
           again == t.active /\ (t.pendingImmediate \/ r.generation # t.generation)
<1>1. s \in PollerStates /\ \A q \in s.rounds : q = r
  BY DEF PollerInv
<1>2. /\ t \in PollerStates /\ t.active = s.active /\ ~t.running
      /\ t.pendingImmediate = s.pendingImmediate
  BY <1>1 DEF PollerStates
<1>3. Ended(s, r, mark) = IF again THEN Execute(u, u.generation, mark)
                          ELSE Schedule(t, r.generation)
  BY DEF Ended
<1> HIDE DEF t
<1>4. CASE again
  <2>1. u \in PollerStates /\ u.active /\ ~u.running
    BY <1>2, <1>4 DEF PollerStates
  <2> HIDE DEF u, again
  <2> QED BY <1>3, <1>4, <2>1, ExecuteServes
<1>5. CASE ~again
  <2>1. ~(mark /\ s.active)
    BY <1>1, <1>2, <1>5 DEF Served
  <2>2. Schedule(t, r.generation).active = t.active
    BY <1>2 DEF Schedule, PollerStates
  <2> HIDE DEF u, again
  <2> QED BY <1>2, <1>3, <1>5, <2>1, <2>2 DEF Served
<1> QED BY <1>4, <1>5

RefreshInv ==
    /\ manualRefreshing => \E p \in Parts : manualPending[p]
    /\ \A p \in Parts : Served(pollers[p], manualPending[p])

\* Every step of the page keeps the refresh served.
LEMMA RefreshStep == PageInv /\ RefreshInv /\ [PollingNext]_vars => RefreshInv'
<1> SUFFICES ASSUME PageInv, RefreshInv, [PollingNext]_vars PROVE RefreshInv'
  OBVIOUS
<1>1. /\ pollers \in [Parts -> PollerStates] /\ manualPending \in [Parts -> BOOLEAN]
      /\ manualRefreshing \in BOOLEAN /\ Pollable \in BOOLEAN
      /\ \A p \in Parts : PollerInv(pollers[p]) /\ pollers[p].active = Pollable
      /\ \A p \in Parts : Served(pollers[p], manualPending[p])
  BY DEF PageInv, PollingTypeOK, Pollable, MayPoll, RefreshInv
<1>2. ASSUME UNCHANGED manualVars, NEW on \in BOOLEAN, pollers' = SyncPolling(pollers, on)
      PROVE  RefreshInv'
  BY <1>1, <1>2, SyncServes DEF RefreshInv, manualVars
<1>3. CASE CanViewChanges
  <2>1. canView' \in BOOLEAN /\ visible \in BOOLEAN
    BY <1>3 DEF CanViewChanges, PageInv, PollingTypeOK
  <2> QED BY <1>2, <1>3, <2>1 DEF CanViewChanges, MayPoll
<1>4. CASE VisibilityChanges
  <2>1. visible' \in BOOLEAN /\ canView \in BOOLEAN
    BY <1>4 DEF VisibilityChanges, PageInv, PollingTypeOK
  <2> QED BY <1>2, <1>4, <2>1 DEF VisibilityChanges, MayPoll
<1>5. CASE AuthenticationExpires
  <2>1. manualRefreshing' = FALSE /\ \A p \in Parts : ~manualPending'[p]
    BY <1>5 DEF AuthenticationExpires
  <2> QED BY <2>1 DEF RefreshInv, Served
<1>6. CASE Dispose
  BY <1>2, <1>6, StopIsSync DEF Dispose
<1>7. CASE RefreshAndCalibrate
  <2>1. ASSUME NEW p \in Parts PROVE Served(pollers'[p], TRUE) /\ manualPending'[p] = TRUE
    <3> DEFINE u == [pollers[p] EXCEPT !.timer = NoTimer]
    <3>1. pollers[p] \in PollerStates /\ pollers[p].active
      BY <1>1, <1>7, PageInvForm DEF RefreshAndCalibrate, PageInv, PollingFollowsPage,
         Pollable, MayPoll, Dispose
    <3>2. u \in PollerStates /\ u.active
      BY <3>1 DEF PollerStates
    <3>3. pollers'[p] = ExecuteOrWait(u, TRUE)
      BY <1>7, <3>1 DEF RefreshAndCalibrate, Refreshed
    <3>4. manualPending'[p] = TRUE
      BY <1>7 DEF RefreshAndCalibrate
    <3> HIDE DEF u
    <3> QED BY <3>2, <3>3, <3>4, ExecuteOrWaitServes
  <2>2. \E p \in Parts : manualPending'[p]
    BY <2>1, PollingAssumption
  <2> QED BY <2>1, <2>2 DEF RefreshInv
<1>8. ASSUME NEW p \in Parts, TimerFires(p) PROVE RefreshInv'
  <2>1. Served(TimerFired(pollers[p], manualPending[p]), manualPending[p])
    BY <1>1, <1>8, TimerServes DEF TimerFires
  <2>2. pollers' = [pollers EXCEPT ![p] = TimerFired(pollers[p], manualPending[p])]
        /\ UNCHANGED <<manualRefreshing, manualPending>>
    BY <1>8 DEF TimerFires, manualVars
  <2>3. ASSUME NEW q \in Parts PROVE Served(pollers'[q], manualPending'[q])
    BY <1>1, <2>1, <2>2
  <2> QED BY <2>2, <2>3 DEF RefreshInv
<1>9. ASSUME NEW p \in Parts, NEW r \in pollers[p].rounds, RoundEnds(p, r)
      PROVE  RefreshInv'
  <2>1. pollers' = [pollers EXCEPT ![p] = Ended(pollers[p], r, manualPending'[p])]
    BY <1>9 DEF RoundEnds
  <2>2. CASE r.mark
    <3>1. /\ manualPending' = [manualPending EXCEPT ![p] = FALSE]
          /\ manualRefreshing' = (manualRefreshing /\ \E q \in Parts : manualPending'[q])
      BY <1>9, <2>2 DEF RoundEnds, CompleteManualPart
    <3>2. ASSUME NEW q \in Parts PROVE Served(pollers'[q], manualPending'[q])
      <4>1. CASE q = p
        BY <1>1, <3>1, <4>1 DEF Served
      <4>2. CASE q # p
        BY <1>1, <2>1, <3>1, <4>2
      <4> QED BY <4>1, <4>2
    <3> QED BY <3>1, <3>2 DEF RefreshInv
  <2>3. CASE ~r.mark
    <3>1. UNCHANGED <<manualRefreshing, manualPending>>
      BY <1>9, <2>3 DEF RoundEnds, manualVars
    <3>2. Served(Ended(pollers[p], r, manualPending[p]), manualPending[p])
      BY <1>1, <2>3, EndServes
    <3>3. ASSUME NEW q \in Parts PROVE Served(pollers'[q], manualPending'[q])
      BY <1>1, <2>1, <3>1, <3>2
    <3> QED BY <3>1, <3>3 DEF RefreshInv
  <2> QED BY <2>2, <2>3
<1>10. CASE UNCHANGED vars
  BY <1>10 DEF vars, manualVars, RefreshInv
<1> QED BY <1>3, <1>4, <1>5, <1>6, <1>7, <1>8, <1>9, <1>10
        DEF PollingNext, SomeRoundEnds

\* No hiding, return, slow round or second click leaves a manual refresh to the
\* timer, for any number of pollers.
THEOREM RefreshNeverWaits == PollingSpec => []RefreshIsInHand
<1>1. PollingInit => RefreshInv
  BY DEF PollingInit, RefreshInv, Served
<1>2. PageInv /\ RefreshInv => RefreshIsInHand
  <2> SUFFICES ASSUME PageInv, RefreshInv, NEW p \in Parts, manualPending[p], Pollable
               PROVE  \/ \E r \in pollers[p].rounds : r.mark
                      \/ pollers[p].rounds # {} /\ pollers[p].pendingImmediate
    BY DEF RefreshIsInHand, RefreshInv
  <2>1. PollerInv(pollers[p]) /\ pollers[p].active = Pollable
    BY DEF PageInv
  <2> QED BY <2>1 DEF PollerInv, RefreshInv, Served
<1> QED BY <1>1, <1>2, PageInvHolds, RefreshStep, PTL DEF PollingSpec

-----------------------------------------------------------------------------
(***************************************************************************)
(* The page runs the pollers                                               *)
(***************************************************************************)

\* What is said of the pollers above holds on the page with its radar, clock and
\* drawer: each of its steps is one of the pollers or leaves them alone.
THEOREM PageRunsThePollers == PageSpec => PollingSpec
<1>1. PageInit => PollingInit
  BY DEF PageInit
<1>2. [PageNext]_allVars => [PollingNext]_vars
  <2> SUFFICES ASSUME [PageNext]_allVars PROVE [PollingNext]_vars
    OBVIOUS
  <2>1. CASE SwitchView \/ SwitchVisibility \/ EndPolling \/ Refresh
    BY <2>1 DEF SwitchView, SwitchVisibility, EndPolling, Refresh, PollingNext
  <2>2. CASE \E p \in Parts : RoundIsDue(p)
    BY <2>2 DEF RoundIsDue, PollingNext
  <2>3. ASSUME NEW p \in Parts, RoundIsOver(p) PROVE PollingNext
    <3>1. SomeRoundEnds(p)
      BY <2>3 DEF RoundIsOver, RoundFails, OperationsArrive, SomeRoundEnds
    <3> QED BY <3>1 DEF PollingNext
  <2>4. CASE Tick \/ SelectOperation \/ ReturnToLatest
    BY <2>4 DEF Tick, SelectOperation, ReturnToLatest
  <2>5. CASE \E id \in Announcements : OpenAnnouncement(id)
    BY <2>5 DEF OpenAnnouncement
  <2>6. CASE CloseDrawer \/ HandleAnnouncementClosed
    BY <2>6 DEF CloseDrawer, HandleAnnouncementClosed
  <2>7. CASE \E d \in details : DetailEnds(d)
    BY <2>7 DEF DetailEnds
  <2>8. CASE UNCHANGED allVars
    BY <2>8 DEF allVars
  <2> QED BY <2>1, <2>2, <2>3, <2>4, <2>5, <2>6, <2>7, <2>8 DEF PageNext
<1> QED BY <1>1, <1>2, PTL DEF PageSpec, PollingSpec

-----------------------------------------------------------------------------
(***************************************************************************)
(* The radar and the clock                                                 *)
(***************************************************************************)

RadarFields == {"operations", "nowMs", "selected", "locked"}

\* A selection nobody has locked is the default one or has left the list.
RadarInv ==
    /\ DOMAIN radar = RadarFields /\ radar.locked \in BOOLEAN
    /\ radar.locked => radar.selected \in DOMAIN radar.operations
    /\ ~radar.locked =>
           \/ radar.selected = DefaultOperation(radar.operations, radar.nowMs)
           \/ radar.selected \notin DOMAIN radar.operations

ClockInv ==
    /\ clock \in [calibrated : BOOLEAN, requested : BOOLEAN,
                 recalibrate : BOOLEAN, owed : BOOLEAN]
    /\ CalibrationIsNotLost

\* A tick selects the default operation unless a selection is locked.
LEMMA TickedInv ==
    ASSUME RadarInv, NEW t, radar' = Ticked(radar, t)
    PROVE  RadarInv'
BY DEF RadarInv, Ticked, RadarFields

\* An answer unlocks a terminal or vanished selection; without a next mission
\* nothing is selected, and nothing is no listed operation.
LEMMA ReconciledInv ==
    ASSUME NEW r, DOMAIN r = RadarFields, r.locked \in BOOLEAN,
           DOMAIN r.operations \subseteq OperationKeys,
           radar' = Reconciled(r)
    PROVE  RadarInv'
<1>1. CASE r.locked /\ r.selected \in DOMAIN r.operations
           /\ ~Terminal(r.operations[r.selected])
  BY <1>1 DEF RadarInv, Reconciled, RadarFields
<1>2. CASE r.locked /\ r.selected \in DOMAIN r.operations
           /\ Terminal(r.operations[r.selected])
  <2> DEFINE preferred == PreferredMission(r.operations, r.nowMs)
  <2> HIDE DEF preferred
  <2>1. radar' = [r EXCEPT !.selected = preferred, !.locked = FALSE]
    BY <1>2 DEF Reconciled, preferred
  <2>2. preferred # NoOperation =>
            preferred = DefaultOperation(r.operations, r.nowMs)
    BY DEF DefaultOperation, preferred
  <2>3. preferred = NoOperation => preferred \notin DOMAIN r.operations
    BY PageAssumption
  <2> QED BY <2>1, <2>2, <2>3 DEF RadarInv, RadarFields
<1>3. CASE ~(r.locked /\ r.selected \in DOMAIN r.operations)
  BY <1>3 DEF RadarInv, Reconciled, RadarFields
<1> QED BY <1>1, <1>2, <1>3

\* An empty list, and every listed set of operations, is one of known keys.
LEMMA ListedKeys ==
    ASSUME NEW s \in Snapshots \cup {<<>>}
    PROVE  DOMAIN s \subseteq OperationKeys
<1>1. CASE s = <<>>
  BY <1>1
<1>2. CASE s \in Snapshots
  BY <1>2, PageAssumption
<1> QED BY <1>1, <1>2

\* Each step keeps the radar's selection in order.
LEMMA RadarStep == RadarInv /\ [PageNext]_allVars => RadarInv'
<1> SUFFICES ASSUME RadarInv, [PageNext]_allVars PROVE RadarInv'
  OBVIOUS
<1>1. CASE UNCHANGED radar
  BY <1>1 DEF RadarInv
<1>2. ASSUME NEW t \in Times, radar' = Ticked(radar, t) PROVE RadarInv'
  BY <1>2, TickedInv
<1>3. ASSUME NEW r, NEW s \in Snapshots, OperationsArrive(r, s) PROVE RadarInv'
  <2> DEFINE listed == [radar EXCEPT !.operations = s]
  <2>1. DOMAIN s \subseteq OperationKeys
    BY ListedKeys
  <2>2. /\ DOMAIN listed = RadarFields /\ listed.operations = s
        /\ listed.locked \in BOOLEAN
    BY DEF RadarInv, RadarFields
  <2>3. radar' = Reconciled(listed) \/ \E t \in Times : radar' = Reconciled(Ticked(listed, t))
    BY <1>3 DEF OperationsArrive
  <2> HIDE DEF listed
  <2>4. CASE radar' = Reconciled(listed)
    BY <2>1, <2>2, <2>4, ReconciledInv
  <2>5. ASSUME NEW t \in Times, radar' = Reconciled(Ticked(listed, t)) PROVE RadarInv'
    <3> DEFINE q == Ticked(listed, t)
    <3>1. DOMAIN q = RadarFields /\ q.operations = s /\ q.locked \in BOOLEAN
      BY <2>2 DEF Ticked, RadarFields
    <3> HIDE DEF q
    <3>2. radar' = Reconciled(q)
      BY <2>5 DEF q
    <3> QED BY <2>1, <3>1, <3>2, ReconciledInv
  <2> QED BY <2>3, <2>4, <2>5
<1>4. CASE SelectOperation
  BY <1>4 DEF SelectOperation, RadarInv, RadarFields
<1>5. CASE ReturnToLatest
  BY <1>5 DEF ReturnToLatest, RadarInv, RadarFields
<1>6. CASE SwitchVisibility
  BY <1>1, <1>2, <1>6 DEF SwitchVisibility
<1>7. CASE Tick
  BY <1>2, <1>7 DEF Tick
<1>8. ASSUME NEW p \in Parts, RoundIsOver(p) PROVE RadarInv'
  BY <1>1, <1>3, <1>8 DEF RoundIsOver, RoundFails
<1>9. CASE SwitchView \/ EndPolling \/ Refresh \/ \E p \in Parts : RoundIsDue(p)
  BY <1>1, <1>9 DEF SwitchView, EndPolling, Refresh, RoundIsDue, pageStateVars
<1>10. CASE CloseDrawer \/ HandleAnnouncementClosed \/ UNCHANGED allVars
  BY <1>1, <1>10 DEF CloseDrawer, HandleAnnouncementClosed, allVars, pageStateVars
<1>11. CASE \E id \in Announcements : OpenAnnouncement(id)
  BY <1>1, <1>11 DEF OpenAnnouncement
<1>12. CASE \E d \in details : DetailEnds(d)
  BY <1>1, <1>12 DEF DetailEnds
<1> QED
  BY <1>4, <1>5, <1>6, <1>7, <1>8, <1>9, <1>10, <1>11, <1>12 DEF PageNext

\* The radar shows the locked operation or the default one, in any order of
\* answers, ticks, calibrations and choices.
THEOREM RadarIsUpToDate == PageSpec => []RadarShowsTheNext
<1>1. PageInit => RadarInv
  BY DEF PageInit, RadarInv, RadarFields
<1>2. RadarInv => RadarShowsTheNext
  BY DEF RadarInv, RadarShowsTheNext, Displayed
<1> QED BY <1>1, <1>2, RadarStep, PTL DEF PageSpec

\* What a step makes of the clock is again one that owes nothing unrequested.
LEMMA ClockStep == ClockInv /\ [PageNext]_allVars => ClockInv'
<1> SUFFICES ASSUME ClockInv, [PageNext]_allVars PROVE ClockInv'
  OBVIOUS
<1> USE DEF ClockInv, CalibrationIsNotLost
<1>1. CASE UNCHANGED clock
  BY <1>1
<1>2. CASE clock' = Reading(clock) \/ clock' = [clock EXCEPT !.recalibrate = clock.requested]
  BY <1>2 DEF Reading
<1>3. CASE Refresh
  BY <1>3 DEF Refresh, Reading
<1>4. ASSUME NEW r, NEW s \in Snapshots, OperationsArrive(r, s) PROVE ClockInv'
  <2>1. clock' = ClockAfter(clock, ~clock.calibrated \/ clock.recalibrate)
    BY <1>4 DEF OperationsArrive
  <2> QED BY <2>1 DEF ClockAfter
<1>5. ASSUME NEW p \in Parts, RoundIsOver(p) PROVE ClockInv'
  BY <1>1, <1>2, <1>4, <1>5 DEF RoundIsOver, RoundFails
<1>6. ASSUME NEW p \in Parts, RoundIsDue(p) PROVE ClockInv'
  BY <1>1, <1>2, <1>6 DEF RoundIsDue
<1>7. CASE SwitchView \/ SwitchVisibility
  BY <1>2, <1>7 DEF SwitchView, SwitchVisibility
<1>8. CASE EndPolling \/ UNCHANGED allVars
  BY <1>1, <1>8 DEF EndPolling, pageStateVars, allVars
<1>9. CASE Tick \/ SelectOperation \/ ReturnToLatest
  BY <1>1, <1>9 DEF Tick, SelectOperation, ReturnToLatest
<1>10. CASE CloseDrawer \/ HandleAnnouncementClosed
  BY <1>1, <1>10 DEF CloseDrawer, HandleAnnouncementClosed
<1>11. CASE \E id \in Announcements : OpenAnnouncement(id)
  BY <1>1, <1>11 DEF OpenAnnouncement
<1>12. CASE \E d \in details : DetailEnds(d)
  BY <1>1, <1>12 DEF DetailEnds
<1> HIDE DEF ClockInv
<1> QED
  BY <1>3, <1>5, <1>6, <1>7, <1>8, <1>9, <1>10, <1>11, <1>12 DEF PageNext

\* A manual refresh keeps its request for a calibration until the clock has moved,
\* whatever rounds fail or had begun before.
THEOREM RefreshIsCalibrated == PageSpec => []CalibrationIsNotLost
<1>1. PageInit => ClockInv
  BY DEF PageInit, ClockInv, CalibrationIsNotLost
<1>2. ClockInv => CalibrationIsNotLost
  BY DEF ClockInv
<1> QED BY <1>1, <1>2, ClockStep, PTL DEF PageSpec

-----------------------------------------------------------------------------
(***************************************************************************)
(* The drawer                                                              *)
(***************************************************************************)

Requests == [request : Nat, id : Announcements]

Drawers ==
    [visible : BOOLEAN, leaving : BOOLEAN, loading : BOOLEAN, unavailable : BOOLEAN,
     request : Nat, detail : Announcements \cup {NoDetail},
     opened : Announcements \cup {NoDetail}]

\* No request is newer than the drawer's, and the one that has its number asks
\* for the announcement it was opened with.
DrawerInv ==
    /\ drawer \in Drawers /\ details \subseteq Requests
    /\ \A d \in details :
        /\ d.request <= drawer.request
        /\ d.request = drawer.request /\ drawer.visible =>
               d.id = drawer.opened /\ drawer.loading
    /\ DrawerTellsTheTruth

\* The page that is disposed remains so.
LEMMA DisposedStays == [PageNext]_allVars => (~disposed' => ~disposed)
<1> SUFFICES ASSUME [PageNext]_allVars, disposed PROVE disposed'
  OBVIOUS
<1>1. CASE UNCHANGED vars
  BY <1>1 DEF vars, pageVars
<1>2. CASE SwitchView \/ SwitchVisibility \/ EndPolling \/ Refresh
  BY <1>2 DEF SwitchView, SwitchVisibility, EndPolling, Refresh, CanViewChanges,
     VisibilityChanges, MayStillSwitch, AuthenticationExpires, Dispose,
     RefreshAndCalibrate
<1>3. CASE \E p \in Parts : RoundIsDue(p) \/ RoundIsOver(p)
  BY <1>3 DEF RoundIsDue, RoundIsOver, RoundFails, OperationsArrive, TimerFires,
     RoundEnds, pageVars
<1>4. CASE Tick \/ SelectOperation \/ ReturnToLatest
  BY <1>1, <1>4 DEF Tick, SelectOperation, ReturnToLatest
<1>5. CASE CloseDrawer \/ HandleAnnouncementClosed
  BY <1>1, <1>5 DEF CloseDrawer, HandleAnnouncementClosed
<1>6. CASE \E id \in Announcements : OpenAnnouncement(id)
  BY <1>1, <1>6 DEF OpenAnnouncement
<1>7. CASE \E d \in details : DetailEnds(d)
  BY <1>1, <1>7 DEF DetailEnds
<1> QED BY <1>1, <1>2, <1>3, <1>4, <1>5, <1>6, <1>7 DEF PageNext, allVars

\* The drawer after an answer, or none, to a request.
LEMMA DetailEndsInv ==
    ASSUME DrawerInv, NEW d \in details, DetailEnds(d), ~disposed' => ~disposed
    PROVE  DrawerInv'
<1>1. d \in Requests /\ details' = details \ {d}
  BY DEF DrawerInv, DetailEnds
<1>2. CASE ~Current(d)
  <2>1. drawer' = drawer
    BY <1>2 DEF DetailEnds
  <2>2. [request |-> drawer.request, id |-> drawer.opened] = d => ~drawer.visible
    BY <1>2 DEF Current
  <2> QED BY <1>1, <2>1, <2>2 DEF DrawerInv, DrawerTellsTheTruth
<1>3. CASE Current(d)
  <2>1. d.id = drawer.opened /\ d.id \in Announcements
    BY <1>1, <1>3 DEF Current, DrawerInv, Requests
  <2>2. PICK answered \in BOOLEAN :
            drawer' = [drawer EXCEPT !.loading = FALSE,
                          !.detail = IF answered /\ ~disposed THEN d.id ELSE drawer.detail,
                          !.unavailable = drawer.unavailable \/ (~answered /\ ~disposed)]
    BY <1>3 DEF DetailEnds
  <2>3. /\ drawer' \in Drawers
        /\ drawer'.request = drawer.request /\ drawer'.opened = drawer.opened
        /\ drawer'.visible = drawer.visible
    BY <2>1, <2>2 DEF DrawerInv, Drawers
  <2>4. drawer.visible /\ drawer.request \in Nat
    BY <1>3 DEF Current, DrawerInv, Drawers
  <2>5. ~disposed => drawer.detail = NoDetail /\ ~drawer.unavailable
    BY <1>3, <2>4 DEF DrawerInv, DrawerTellsTheTruth, Current
  <2>6. \A e \in details' : e.request # drawer.request /\ e.request <= drawer.request
    <3> SUFFICES ASSUME NEW e \in details, e # d, e.request = drawer.request
                 PROVE  FALSE
      BY <1>1 DEF DrawerInv
    <3>1. e.id = d.id /\ e.request = d.request
      BY <1>3, <2>1, <2>4 DEF DrawerInv, Current
    <3> QED BY <1>1, <3>1 DEF DrawerInv, Requests
  <2>7. DrawerTellsTheTruth'
    <3>1. CASE disposed'
      BY <3>1 DEF DrawerTellsTheTruth
    <3>2. CASE ~disposed'
      <4>1. ~disposed
        BY <3>2
      <4>2. drawer'.loading = FALSE
        BY <2>2 DEF DrawerInv, Drawers
      <4>3. CASE answered
        <5>1. drawer'.detail = d.id /\ drawer'.unavailable = FALSE
          BY <2>2, <2>5, <4>1, <4>3 DEF DrawerInv, Drawers
        <5> QED BY <2>1, <2>3, <4>2, <5>1 DEF DrawerTellsTheTruth
      <4>4. CASE ~answered
        <5>1. drawer'.detail = NoDetail /\ drawer'.unavailable = TRUE
          BY <2>2, <2>5, <4>1, <4>4 DEF DrawerInv, Drawers
        <5> QED BY <4>2, <5>1 DEF DrawerTellsTheTruth
      <4> QED BY <4>3, <4>4
    <3> QED BY <3>1, <3>2
  <2>8. details' \subseteq Requests
    BY <1>1 DEF DrawerInv
  <2> QED BY <2>3, <2>6, <2>7, <2>8 DEF DrawerInv
<1> QED BY <1>2, <1>3

\* Each step keeps the drawer and its requests in order.
LEMMA DrawerStep == DrawerInv /\ [PageNext]_allVars => DrawerInv'
<1> SUFFICES ASSUME DrawerInv, [PageNext]_allVars PROVE DrawerInv'
  OBVIOUS
<1>1. ~disposed' => ~disposed
  BY DisposedStays
<1>2. CASE UNCHANGED dialogVars
  BY <1>1, <1>2 DEF DrawerInv, DrawerTellsTheTruth, dialogVars
<1>3. CASE SwitchView
  BY <1>1, <1>3 DEF SwitchView, DrawerInv, DrawerTellsTheTruth, Drawers
<1>4. ASSUME NEW id \in Announcements, OpenAnnouncement(id) PROVE DrawerInv'
  <2> DEFINE request == drawer.request + 1
             new == [request |-> request, id |-> id]
  <2>1. drawer.request \in Nat /\ request \in Nat /\ new \in Requests
    BY DEF DrawerInv, Drawers, Requests
  <2>2. /\ drawer' = [visible |-> TRUE, leaving |-> FALSE, loading |-> TRUE,
                      unavailable |-> FALSE, request |-> request,
                      detail |-> NoDetail, opened |-> id]
        /\ details' = details \cup {new}
    BY <1>4 DEF OpenAnnouncement
  <2>3. \A d \in details : d.request \in Nat /\ d.request < request
    BY <2>1 DEF DrawerInv, Requests
  <2>4. drawer' \in Drawers /\ details' \subseteq Requests
    BY <2>1, <2>2 DEF DrawerInv, Drawers
  <2>5. DrawerTellsTheTruth'
    BY <2>2 DEF DrawerTellsTheTruth
  <2>6. \A d \in details' :
            /\ d.request <= drawer'.request
            /\ d.request = drawer'.request /\ drawer'.visible =>
                   d.id = drawer'.opened /\ drawer'.loading
    <3> SUFFICES ASSUME NEW d \in details'
                 PROVE  d.request <= request /\ (d.request = request => d.id = id)
      BY <2>2
    <3>1. CASE d = new
      BY <2>1, <3>1
    <3>2. CASE d \in details
      BY <2>1, <2>3, <3>2
    <3> QED BY <2>2, <3>1, <3>2
  <2> QED BY <2>4, <2>5, <2>6 DEF DrawerInv
<1>5. CASE CloseDrawer
  BY <1>5 DEF CloseDrawer, DrawerInv, DrawerTellsTheTruth, Drawers
<1>6. CASE HandleAnnouncementClosed
  <2>1. drawer.request \in Nat
    BY DEF DrawerInv, Drawers
  <2>2. \A d \in details : d.request \in Nat /\ d.request <= drawer.request
    BY DEF DrawerInv, Requests
  <2> DEFINE next == drawer.request + 1
  <2>3. next \in Nat /\ next = drawer.request + 1
    BY <2>1
  <2>4. /\ drawer' = [drawer EXCEPT !.visible = FALSE, !.leaving = FALSE,
                        !.loading = FALSE, !.unavailable = FALSE,
                        !.request = next, !.detail = NoDetail]
        /\ details' = details
    BY <1>6 DEF HandleAnnouncementClosed
  <2> HIDE DEF next
  <2>5. drawer' \in Drawers /\ drawer'.request = next /\ ~drawer'.visible
    BY <2>3, <2>4 DEF DrawerInv, Drawers
  <2> QED BY <2>1, <2>2, <2>3, <2>4, <2>5 DEF DrawerInv, DrawerTellsTheTruth
<1>7. ASSUME NEW d \in details, DetailEnds(d) PROVE DrawerInv'
  BY <1>1, <1>7, DetailEndsInv
<1>8. CASE SwitchVisibility \/ EndPolling \/ Refresh
  BY <1>2, <1>8 DEF SwitchVisibility, EndPolling, Refresh, pageStateVars, dialogVars
<1>9. CASE \E p \in Parts : RoundIsDue(p) \/ RoundIsOver(p)
  BY <1>2, <1>9 DEF RoundIsDue, RoundIsOver, RoundFails, OperationsArrive
<1>10. CASE Tick \/ SelectOperation \/ ReturnToLatest
  BY <1>2, <1>10 DEF Tick, SelectOperation, ReturnToLatest
<1>11. CASE UNCHANGED allVars
  BY <1>2, <1>11 DEF allVars, pageStateVars, dialogVars
<1> QED
  BY <1>3, <1>4, <1>5, <1>6, <1>7, <1>8, <1>9, <1>10, <1>11 DEF PageNext

\* The open drawer never shows another announcement than the one opened last, and
\* never waits for an answer that nobody will give.
THEOREM DrawerIsTrue == PageSpec => []DrawerTellsTheTruth
<1>1. PageInit => DrawerInv
  BY DEF PageInit, DrawerInv, Drawers, DrawerTellsTheTruth
<1>2. DrawerInv => DrawerTellsTheTruth
  BY DEF DrawerInv
<1> QED BY <1>1, <1>2, DrawerStep, PTL DEF PageSpec

-----------------------------------------------------------------------------
(***************************************************************************)
(* The operation shown by default is a listed one                          *)
(***************************************************************************)

\* A nonempty set of natural numbers has a least one.
LEMMA LeastExists ==
    ASSUME NEW S \in SUBSET Nat, S # {}
    PROVE  \E m \in S : \A n \in S : m <= n
<1> DEFINE R == OpToRel(<, Nat)
<1>1. IsWellFoundedOn(R, Nat)
  BY NatLessThanWellFounded
<1>2. \A a, b \in Nat : a < b => <<a, b>> \in R
  BY DEF OpToRel
<1> HIDE DEF R
<1>3. \E m \in S : \A n \in S : <<n, m>> \notin R
  BY <1>1, WFMin
<1>4. PICK m \in S : \A n \in S : <<n, m>> \notin R
  BY <1>3
<1>5. ASSUME NEW n \in S PROVE m <= n
  <2>1. n \in Nat /\ m \in Nat /\ ~(n < m)
    BY <1>2, <1>4
  <2> QED BY <2>1
<1> QED BY <1>5

NoTies(S, t) == \A j, k \in S : t[j] = t[k] => j = k

IsFirst(k, S, w, t) ==
    \A j \in S \ {k} : w[k] < w[j] \/ (w[k] = w[j] /\ t[k] < t[j])

\* Numbered twice, the second time without ties, a nonempty set has a first member.
LEMMA FirstExists ==
    ASSUME NEW S, S # {}, NEW w \in [S -> Nat], NEW t \in [S -> Nat], NoTies(S, t)
    PROVE  \E k \in S : IsFirst(k, S, w, t)
<1> USE DEF NoTies
<1> DEFINE W == {w[k] : k \in S}
<1>1. PICK m \in W : \A n \in W : m <= n
  <2>1. W \in SUBSET Nat /\ W # {}
    OBVIOUS
  <2> HIDE DEF W
  <2> QED BY <2>1, LeastExists
<1>2. \A j \in S : m <= w[j]
  BY <1>1
<1> DEFINE Ties == {k \in S : w[k] = m}
           T == {t[k] : k \in Ties}
<1>3. PICK l \in T : \A n \in T : l <= n
  <2>1. T \in SUBSET Nat /\ T # {}
    BY <1>1
  <2> HIDE DEF T
  <2> QED BY <2>1, LeastExists
<1>4. PICK k \in Ties : t[k] = l
  BY <1>3
<1>5. ASSUME NEW j \in S \ {k}
      PROVE  w[k] < w[j] \/ (w[k] = w[j] /\ t[k] < t[j])
  <2>1. w[k] = m /\ m <= w[j] /\ w[j] \in Nat /\ m \in Nat
    BY <1>2, <1>4
  <2>2. CASE w[j] = m
    <3>1. j \in Ties
      BY <2>2
    <3>2. l <= t[j] /\ t[j] # t[k] /\ t[j] \in Nat /\ t[k] \in Nat
      BY <1>3, <1>4, <3>1
    <3> QED BY <1>4, <2>1, <2>2, <3>2
  <2> QED BY <2>1, <2>2
<1> QED BY <1>4, <1>5 DEF IsFirst

\* What fallback and preference choose is listed, if anything is.
LEMMA DefaultIsListed ==
    ASSUME NEW ops \in Snapshots \cup {<<>>}, NEW now
    PROVE  /\ DefaultOperation(ops, now) \in OperationKeys \cup {NoOperation}
           /\ PreferredMission(ops, now) \in OperationKeys \cup {NoOperation}
<1> DEFINE Listed == DOMAIN ops
           N == MaxSafeInteger
<1>1. /\ N \in Nat /\ Listed \subseteq OperationKeys /\ Listed \subseteq 0 .. N
      /\ \A k \in Listed : ops[k].start \in 0 .. N /\ ops[k].recency \in 0 .. N
  <2>1. CASE ops = <<>>
    BY <2>1, PageAssumption
  <2>2. CASE ops \in Snapshots
    BY <2>2, PageAssumption DEF OperationStates
  <2> QED BY <2>1, <2>2
<1>2. \A S \in SUBSET Listed : S # {} =>
          \E k \in S : \A j \in S \ {k} : Earlier(ops, k, j)
  <2> SUFFICES ASSUME NEW S \in SUBSET Listed, S # {}
               PROVE  \E k \in S : \A j \in S \ {k} : Earlier(ops, k, j)
    OBVIOUS
  <2> DEFINE w == [k \in S |-> ops[k].start]
             t == [k \in S |-> k]
  <2>1. w \in [S -> Nat] /\ t \in [S -> Nat]
    BY <1>1
  <2>2. NoTies(S, t)
    BY <1>1 DEF NoTies
  <2>3. \E k \in S : IsFirst(k, S, w, t)
    <3> HIDE DEF w, t
    <3> QED BY <2>1, <2>2, FirstExists
  <2>4. PICK k \in S : IsFirst(k, S, w, t)
    BY <2>3
  <2>5. ASSUME NEW j \in S \ {k} PROVE Earlier(ops, k, j)
    <3>1. /\ j \in 0 .. N /\ k \in 0 .. N
          /\ ops[j].start \in 0 .. N /\ ops[k].start \in 0 .. N
      BY <1>1
    <3> QED BY <1>1, <2>4, <3>1 DEF Earlier, IsFirst
  <2> QED BY <2>5
<1>3. \A S \in SUBSET Listed : S # {} =>
          \E k \in S : \A j \in S \ {k} : Earlier(ops, j, k)
  <2> SUFFICES ASSUME NEW S \in SUBSET Listed, S # {}
               PROVE  \E k \in S : \A j \in S \ {k} : Earlier(ops, j, k)
    OBVIOUS
  <2> DEFINE w == [k \in S |-> N - ops[k].start]
             t == [k \in S |-> N - k]
  <2>1. w \in [S -> Nat] /\ t \in [S -> Nat]
    BY <1>1
  <2>2. NoTies(S, t)
    BY <1>1 DEF NoTies
  <2>3. \E k \in S : IsFirst(k, S, w, t)
    <3> HIDE DEF w, t
    <3> QED BY <2>1, <2>2, FirstExists
  <2>4. PICK k \in S : IsFirst(k, S, w, t)
    BY <2>3
  <2>5. ASSUME NEW j \in S \ {k} PROVE Earlier(ops, j, k)
    <3>1. /\ j \in 0 .. N /\ k \in 0 .. N
          /\ ops[j].start \in 0 .. N /\ ops[k].start \in 0 .. N
      BY <1>1
    <3> QED BY <1>1, <2>4, <3>1 DEF Earlier, IsFirst
  <2> QED BY <2>5
<1>4. \A S \in SUBSET Listed : S # {} =>
          \E k \in S : \A j \in S \ {k} : Newer(ops, k, j)
  <2> SUFFICES ASSUME NEW S \in SUBSET Listed, S # {}
               PROVE  \E k \in S : \A j \in S \ {k} : Newer(ops, k, j)
    OBVIOUS
  <2> DEFINE w == [k \in S |-> N - ops[k].recency]
             t == [k \in S |-> k]
  <2>1. w \in [S -> Nat] /\ t \in [S -> Nat]
    BY <1>1
  <2>2. NoTies(S, t)
    BY <1>1 DEF NoTies
  <2>3. \E k \in S : IsFirst(k, S, w, t)
    <3> HIDE DEF w, t
    <3> QED BY <2>1, <2>2, FirstExists
  <2>4. PICK k \in S : IsFirst(k, S, w, t)
    BY <2>3
  <2>5. ASSUME NEW j \in S \ {k} PROVE Newer(ops, k, j)
    <3>1. /\ j \in 0 .. N /\ k \in 0 .. N
          /\ ops[j].recency \in 0 .. N /\ ops[k].recency \in 0 .. N
      BY <1>1
    <3> QED BY <1>1, <2>4, <3>1 DEF Newer, IsFirst
  <2> QED BY <2>5
<1>5. PreferredMission(ops, now) \in OperationKeys \cup {NoOperation}
  <2> DEFINE missions == Missions(ops, now)
             future == {k \in missions : ops[k].start > now}
  <2>1. missions \in SUBSET Listed /\ future \in SUBSET Listed
    BY DEF Missions
  <2>2. CASE future # {}
    <3>1. PreferredMission(ops, now) =
              CHOOSE k \in future : \A j \in future \ {k} : Earlier(ops, k, j)
      BY <2>2 DEF PreferredMission
    <3> HIDE DEF future
    <3> QED BY <1>1, <1>2, <2>1, <2>2, <3>1
  <2>3. CASE future = {} /\ missions # {}
    <3>1. PreferredMission(ops, now) =
              CHOOSE k \in missions : \A j \in missions \ {k} : Earlier(ops, j, k)
      BY <2>3 DEF PreferredMission
    <3> HIDE DEF missions
    <3> QED BY <1>1, <1>3, <2>1, <2>3, <3>1
  <2>4. CASE future = {} /\ missions = {}
    BY <2>4 DEF PreferredMission
  <2> QED BY <2>2, <2>3, <2>4
<1>6. FallbackOperation(ops, now) \in OperationKeys \cup {NoOperation}
  <2> DEFINE recent == {k \in Listed : /\ ops[k].stage = "trading"
                                       /\ ops[k].start > 0 /\ ops[k].start <= now
                                       /\ ops[k].start + History >= now}
  <2>1. recent \in SUBSET Listed
    OBVIOUS
  <2>2. FallbackOperation(ops, now) =
            IF recent = {} THEN NoOperation
            ELSE CHOOSE k \in recent : \A j \in recent \ {k} : Newer(ops, k, j)
    BY DEF FallbackOperation
  <2> HIDE DEF recent
  <2> QED BY <1>1, <1>4, <2>1, <2>2
<1> HIDE DEF Listed
<1> QED BY <1>5, <1>6 DEF DefaultOperation

Radars ==
    [operations : Snapshots \cup {<<>>}, nowMs : Times,
     selected : OperationKeys \cup {NoOperation}, locked : BOOLEAN]

RadarTyped == radar \in Radars

\* A tick and an answer make of a radar again one.
LEMMA RadarsStay ==
    ASSUME NEW r \in Radars
    PROVE  /\ \A t \in Times : Ticked(r, t) \in Radars
           /\ \A s \in Snapshots : [r EXCEPT !.operations = s] \in Radars
           /\ Reconciled(r) \in Radars
<1>1. \A t \in Times : DefaultOperation(r.operations, t) \in OperationKeys \cup {NoOperation}
  BY DefaultIsListed DEF Radars
<1>2. /\ DefaultOperation(r.operations, r.nowMs) \in OperationKeys \cup {NoOperation}
      /\ PreferredMission(r.operations, r.nowMs) \in OperationKeys \cup {NoOperation}
  BY DefaultIsListed DEF Radars
<1>3. \A t \in Times : Ticked(r, t) \in Radars
  BY <1>1 DEF Ticked, Radars
<1>4. Reconciled(r) \in Radars
  BY <1>2 DEF Reconciled, Radars
<1>5. \A s \in Snapshots : [r EXCEPT !.operations = s] \in Radars
  BY DEF Radars
<1> QED BY <1>3, <1>4, <1>5

\* Each step leaves a radar.
LEMMA RadarsStep == RadarTyped /\ [PageNext]_allVars => RadarTyped'
<1> SUFFICES ASSUME radar \in Radars, [PageNext]_allVars PROVE radar' \in Radars
  BY DEF RadarTyped, Radars
<1>1. CASE UNCHANGED radar
  BY <1>1
<1>2. ASSUME NEW t \in Times, radar' = Ticked(radar, t) PROVE radar' \in Radars
  BY <1>2, RadarsStay
<1>3. ASSUME NEW r, NEW s \in Snapshots, OperationsArrive(r, s) PROVE radar' \in Radars
  <2> DEFINE listed == [radar EXCEPT !.operations = s]
  <2>1. radar' = Reconciled(listed) \/ \E t \in Times : radar' = Reconciled(Ticked(listed, t))
    BY <1>3 DEF OperationsArrive
  <2>2. listed \in Radars
    BY RadarsStay
  <2> HIDE DEF listed
  <2>3. \A t \in Times : Ticked(listed, t) \in Radars
    BY <2>2, RadarsStay
  <2> QED BY <2>1, <2>2, <2>3, RadarsStay
<1>4. CASE SelectOperation
  <2>1. PICK k \in DOMAIN radar.operations :
            radar' = [radar EXCEPT !.selected = k, !.locked = TRUE]
    BY <1>4 DEF SelectOperation
  <2>2. radar.operations \in Snapshots \cup {<<>>}
    BY DEF Radars
  <2>3. k \in OperationKeys
    BY <2>2, ListedKeys
  <2> QED BY <2>1, <2>3 DEF Radars
<1>5. CASE ReturnToLatest
  <2>1. DefaultOperation(radar.operations, radar.nowMs) \in OperationKeys \cup {NoOperation}
    BY DefaultIsListed DEF Radars
  <2> QED BY <1>5, <2>1 DEF ReturnToLatest, Radars
<1>6. CASE SwitchVisibility
  BY <1>1, <1>2, <1>6 DEF SwitchVisibility
<1>7. CASE Tick
  BY <1>2, <1>7 DEF Tick
<1>8. ASSUME NEW p \in Parts, RoundIsOver(p) PROVE radar' \in Radars
  BY <1>1, <1>3, <1>8 DEF RoundIsOver, RoundFails
<1>9. CASE SwitchView \/ EndPolling \/ Refresh \/ \E p \in Parts : RoundIsDue(p)
  BY <1>1, <1>9 DEF SwitchView, EndPolling, Refresh, RoundIsDue, pageStateVars
<1>10. CASE CloseDrawer \/ HandleAnnouncementClosed \/ UNCHANGED allVars
  BY <1>1, <1>10 DEF CloseDrawer, HandleAnnouncementClosed, allVars, pageStateVars
<1>11. CASE \E id \in Announcements : OpenAnnouncement(id)
  BY <1>1, <1>11 DEF OpenAnnouncement
<1>12. CASE \E d \in details : DetailEnds(d)
  BY <1>1, <1>12 DEF DetailEnds
<1> QED
  BY <1>4, <1>5, <1>6, <1>7, <1>8, <1>9, <1>10, <1>11, <1>12 DEF PageNext

\* Every reachable state of the page is well typed; in particular the radar shows
\* a known operation or nothing, whatever times the operations have.
THEOREM PageTypeCorrect == PageSpec => []PageTypeOK
<1>1. PageInit => RadarTyped /\ ClockInv /\ DrawerInv
  BY PageAssumption DEF PageInit, RadarTyped, Radars, ClockInv, CalibrationIsNotLost, DrawerInv,
     Drawers, DrawerTellsTheTruth
<1>2. PageInit /\ [][PageNext]_allVars => [](RadarTyped /\ ClockInv /\ DrawerInv)
  BY <1>1, RadarsStep, ClockStep, DrawerStep, PTL
<1>3. PollingTypeOK /\ RadarTyped /\ ClockInv /\ DrawerInv => PageTypeOK
  BY DEF PageTypeOK, RadarTyped, Radars, ClockInv, DrawerInv, Drawers, Requests
<1> QED BY <1>2, <1>3, PageRunsThePollers, PollingTypeCorrect, PTL DEF PageSpec
=============================================================================
