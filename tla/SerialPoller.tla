---------------------------- MODULE SerialPoller ----------------------------
(***************************************************************************)
(* createSerialPoller: the closure of one poller as a record, and what its *)
(* functions make of it.  A callback under way is a round; mark is what    *)
(* the callback reads when it begins.  Nothing runs between the call of    *)
(* execute and the callback's first await, so each function is one step.   *)
(***************************************************************************)
EXTENDS Integers

CONSTANTS
    Marks,          \* what a callback may read when it begins
    NoTimer         \* timer = null

ASSUME PollerAssumption == NoTimer \notin Nat

\* second: the round began while another was under way, which it must not.
Rounds == [generation : Nat, mark : Marks, second : BOOLEAN]

PollerStates ==
    [active : BOOLEAN,
     running : BOOLEAN,
     timer : Nat \cup {NoTimer},    \* the generation of the scheduled round
     generation : Nat,
     pendingImmediate : BOOLEAN,
     rounds : SUBSET Rounds]

NewPoller ==
    [active |-> FALSE, running |-> FALSE, timer |-> NoTimer,
     generation |-> 0, pendingImmediate |-> FALSE, rounds |-> {}]

\* The guard that execute and schedule share.
MayRun(s, g) == s.active /\ ~s.running /\ g = s.generation

Execute(s, g, mark) ==
    IF MayRun(s, g)
    THEN [s EXCEPT !.running = TRUE,
            !.rounds = @ \cup {[generation |-> g, mark |-> mark, second |-> @ # {}]}]
    ELSE s

Schedule(s, g) == IF MayRun(s, g) THEN [s EXCEPT !.timer = g] ELSE s

\* Mutant: the running round is forgotten.
ExecuteAtOnce(s, mark) ==
    Execute([s EXCEPT !.running = FALSE], s.generation, mark)

\* A round now, or as soon as the one under way has ended.
ExecuteOrWait(s, mark) ==
    IF s.running THEN [s EXCEPT !.pendingImmediate = TRUE]
    ELSE Execute(s, s.generation, mark)

Started(s, mark) ==
    IF s.active THEN s
    ELSE ExecuteOrWait([s EXCEPT !.active = TRUE, !.generation = @ + 1,
                                 !.timer = NoTimer], mark)

Stopped(s) ==
    [s EXCEPT !.active = FALSE, !.generation = @ + 1,
              !.pendingImmediate = FALSE, !.timer = NoTimer]

Refreshed(s, mark) ==
    IF s.active THEN ExecuteOrWait([s EXCEPT !.timer = NoTimer], mark) ELSE s

TimerFired(s, mark) == Execute([s EXCEPT !.timer = NoTimer], s.timer, mark)

\* Mutant: the finally block only schedules.
ScheduledAfter(s, r, mark) ==
    Schedule([s EXCEPT !.running = FALSE, !.rounds = @ \ {r}], r.generation)

\* The finally block of execute, after the callback has ended or failed.
Ended(s, r, mark) ==
    LET t == [s EXCEPT !.running = FALSE, !.rounds = @ \ {r}]
        next == [t EXCEPT !.pendingImmediate = FALSE]
    IN  IF t.active /\ (t.pendingImmediate \/ r.generation # t.generation)
        THEN Execute(next, next.generation, mark)
        ELSE Schedule(t, r.generation)
=============================================================================
