-------------------------- MODULE MarketVolumeRound --------------------------
(***************************************************************************)
(* tool/scripts/update_market_volume.sh, run every 15 minutes: it takes a  *)
(* file lock, starts one artisan process per platform under timeout(1),    *)
(* waits for them and ends.  A signal makes it stop its children first; a  *)
(* SIGKILL, or the host's OOM killer, just removes it.  The descriptor of  *)
(* the lock is inherited by every child.                                   *)
(***************************************************************************)
EXTENDS MarketVolumeStore

CONSTANTS
    Runner,     \* the shell that runs the script
    NoProc,     \* no child has been forked
    MaxRounds   \* bound: rounds that get the lock

ASSUME RoundAssumption ==
    Runner \notin Procs /\ NoProc \notin Procs /\ MaxRounds \in Nat

VARIABLES
    runner,     \* where the script is
    todo,       \* platforms of the round still to start
    forked,     \* the child of the last fork, until it is in PIDS
    tracked,    \* PIDS
    holders,    \* processes that have the lock file's descriptor open
    lastEnd,    \* how the last round ended
    rounds      \* rounds so far

roundVars == <<runner, todo, forked, tracked, holders, lastEnd, rounds>>
allVars == <<volumeVars, roundVars>>

Alive(p) == pc[p] # "idle"

RoundTypeOK ==
    /\ VolumeTypeOK
    /\ runner \in {"absent", "launching", "waiting", "stopping"}
    /\ todo \subseteq Platforms
    /\ forked \in Procs \cup {NoProc}
    /\ tracked \subseteq Procs
    /\ holders \subseteq Procs \cup {Runner}
    /\ lastEnd \in {"none", "finished", "signalled", "killed"}
    /\ rounds \in 0 .. MaxRounds

RoundInit ==
    /\ VolumeInit
    /\ runner = "absent" /\ todo = {} /\ forked = NoProc
    /\ tracked = {} /\ holders = {} /\ lastEnd = "none" /\ rounds = 0

-----------------------------------------------------------------------------
\* flock -n on descriptor 9; the platforms are read before the first launch.
BeginRound ==
    /\ runner = "absent" /\ rounds < MaxRounds
    /\ holders = {}
    /\ runner' = "launching"
    /\ holders' = {Runner}
    /\ todo' = Platforms
    /\ rounds' = rounds + 1
    /\ UNCHANGED <<volumeVars, forked, tracked, lastEnd>>

\* Mutant: the child closes descriptor 9.
ForkWithoutLock(p) ==
    /\ runner = "launching" /\ forked = NoProc
    /\ \E s \in todo :
        /\ \A other \in todo : s <= other
        /\ Start(p, s)
        /\ todo' = todo \ {s}
    /\ forked' = p
    /\ UNCHANGED <<runner, tracked, holders, lastEnd, rounds>>

\* ( exec timeout ... php artisan market-volume:sync --platform=s ) &
Fork(p) ==
    /\ runner = "launching" /\ forked = NoProc
    /\ \E s \in todo :
        /\ \A other \in todo : s <= other
        /\ Start(p, s)
        /\ todo' = todo \ {s}
    /\ forked' = p
    /\ holders' = holders \cup {p}
    /\ UNCHANGED <<runner, tracked, lastEnd, rounds>>

\* PIDS+=("$pid")
Track ==
    /\ runner = "launching" /\ forked # NoProc
    /\ tracked' = tracked \cup {forked}
    /\ forked' = NoProc
    /\ runner' = IF todo = {} THEN "waiting" ELSE "launching"
    /\ UNCHANGED <<volumeVars, todo, holders, lastEnd, rounds>>

RunnerEnds(how) ==
    /\ runner' = "absent"
    /\ todo' = {} /\ forked' = NoProc /\ tracked' = {}
    /\ holders' = holders \ {Runner}
    /\ lastEnd' = how
    /\ UNCHANGED <<volumeVars, rounds>>

\* wait for every pid, then exit.
FinishRound ==
    /\ runner = "waiting"
    /\ \A p \in tracked : ~Alive(p)
    /\ RunnerEnds("finished")

\* The traps on HUP, INT and TERM run between two commands of the script.
Signal ==
    /\ runner \in {"launching", "waiting"}
    /\ runner' = "stopping"
    /\ UNCHANGED <<volumeVars, todo, forked, tracked, holders, lastEnd, rounds>>

\* stop_started_children: TERM, a grace period, KILL.
StopChild(p) ==
    /\ runner = "stopping" /\ p \in tracked
    /\ Alive(p) /\ Gone(p)
    /\ holders' = holders \ {p}
    /\ UNCHANGED <<runner, todo, forked, tracked, lastEnd, rounds>>

StopRound ==
    /\ runner = "stopping"
    /\ \A p \in tracked : ~Alive(p)
    /\ RunnerEnds("signalled")

RunnerKilled ==
    /\ runner # "absent"
    /\ RunnerEnds("killed")

-----------------------------------------------------------------------------
\* A child works; FetchFails is the exchange's doing, not the child's.
ChildWorks(p) ==
    /\ Open(p) \/ Fetch(p) \/ Publish(p)
    /\ UNCHANGED roundVars

ChildEnds(p) ==
    /\ Exit(p)
    /\ holders' = holders \ {p}
    /\ UNCHANGED <<runner, todo, forked, tracked, lastEnd, rounds>>

\* Mutant: timeout without -k, and a child that ignores TERM while it fetches.
ChildMayHang(p) ==
    /\ pc[p] # "fetch" /\ Abort(p)
    /\ holders' = holders \ {p}
    /\ UNCHANGED <<runner, todo, forked, tracked, lastEnd, rounds>>

\* timeout -k: TASK_TIMEOUT_SECONDS, then TASK_KILL_AFTER_SECONDS.
ChildTimesOut(p) ==
    /\ Abort(p)
    /\ holders' = holders \ {p}
    /\ UNCHANGED <<runner, todo, forked, tracked, lastEnd, rounds>>

\* Mutant: a temp_ttl_seconds shorter than the life of a child.
StagingShortLived(k) == StagingExpires(k) /\ UNCHANGED roundVars

\* The 600 seconds of a tmp hash outlast the 130 a child may run.
StagingAbandoned(k) ==
    /\ \A p \in Procs : job[p] # k
    /\ StagingExpires(k)
    /\ UNCHANGED roundVars

RoundNext ==
    \/ BeginRound \/ Track \/ FinishRound \/ Signal \/ StopRound \/ RunnerKilled
    \/ \E p \in Procs :
        Fork(p) \/ StopChild(p) \/ ChildWorks(p) \/ ChildEnds(p) \/ ChildTimesOut(p)
    \/ \E k \in staging : StagingAbandoned(k)
    \/ \E s \in Platforms : SnapshotExpires(s) /\ UNCHANGED roundVars

RoundSpec == RoundInit /\ [][RoundNext]_allVars

\* The shell runs on, timeout(1) does its work and KeyDB drops what has
\* expired; no exchange is assumed to answer.
RoundFairSpec ==
    /\ RoundSpec
    /\ WF_allVars(Track) /\ WF_allVars(\E p \in Procs : Fork(p))
    /\ WF_allVars(FinishRound) /\ WF_allVars(StopRound)
    /\ \A p \in Procs :
        /\ WF_allVars(StopChild(p))
        /\ WF_allVars(ChildEnds(p))
        /\ WF_allVars(ChildTimesOut(p))
    /\ WF_allVars(\E k \in staging : StagingAbandoned(k))

-----------------------------------------------------------------------------
(***************************************************************************)
(* Properties                                                              *)
(***************************************************************************)

\* One process at a time works on a platform, even after the shell was killed
\* and its children live on: they still hold the lock.
OneProcessPerPlatform ==
    \A p, q \in Procs :
        Alive(p) /\ Alive(q) /\ job[p].platform = job[q].platform => p = q

\* Under the round's lock the store is the board: a stable key only ever goes
\* to a later fetch that passes the size guard against what it replaces.
ImplementsBoard == BoardSpec

\* A round that ended by itself or on a signal has no child left: "Every child
\* is tracked and waited for; no task is detached from this runner."
NoDetachedChild ==
    runner = "absent" /\ lastEnd \in {"finished", "signalled"} =>
        \A p \in Procs : ~Alive(p)

\* The lock is free again some time after a round got it, whether the round
\* ended, was signalled or was killed, and whatever the exchanges do.
LockIsReleased == holders # {} ~> holders = {}
=============================================================================
