-------------------------- MODULE MarketVolumeProofs --------------------------
(***************************************************************************)
(* Proofs about MarketVolumeRound, for every set of platforms and of       *)
(* processes, every size ratio and any number of rounds and fetches.       *)
(***************************************************************************)
EXTENDS MarketVolumeRound, TLAPS

Labels == {"idle", "fetch"} \cup Opening \cup Publishing \cup Ended

-----------------------------------------------------------------------------
(***************************************************************************)
(* Type correctness                                                        *)
(***************************************************************************)

\* The types of what a process owns.
ProcTypeOK ==
    /\ clock \in 0 .. MaxFetches
    /\ pc \in [Procs -> Labels]
    /\ job \in [Procs -> Jobs]
    /\ hashLength \in [Procs -> Nat]

\* The types of what the database holds.
StoreTypeOK ==
    /\ stable \in [Platforms ->
           [fetched : 1 .. MaxFetches, count : Sizes] \cup {NoSnapshot}]
    /\ ttlFrom \in [Platforms -> 0 .. MaxFetches]
    /\ marker \in {"none", "ours", "other"}
    /\ foreign \in BOOLEAN
    /\ staging \subseteq Jobs

LEMMA VolumeTypes == VolumeTypeOK <=> StoreTypeOK /\ ProcTypeOK
BY DEF VolumeTypeOK, StoreTypeOK, ProcTypeOK, Labels

LEMMA NoJobType == NoJob \in Jobs
BY StoreAssumption DEF NoJob, Jobs

LEMMA MoveType ==
    ASSUME VolumeTypeOK, NEW p \in Procs, NEW next \in Labels, Move(p, next)
    PROVE  ProcTypeOK'
BY DEF VolumeTypeOK, ProcTypeOK, Labels, Move

LEMMA GoneType ==
    ASSUME VolumeTypeOK, NEW p \in Procs, Gone(p)
    PROVE  VolumeTypeOK'
BY NoJobType DEF VolumeTypeOK, Gone, storeVars

\* The fields of a job that a process has fetched something for.
LEMMA JobType ==
    ASSUME VolumeTypeOK, NEW p \in Procs
    PROVE  /\ job[p].platform \in Platforms \cup {0}
           /\ job[p].fetched \in 0 .. MaxFetches
           /\ job[p].count \in Sizes \cup {0}
BY DEF VolumeTypeOK, Jobs

\* A process past its platform's start, and one past its fetch, know what they
\* work for.
JobsKnown ==
    \A p \in Procs :
        /\ Alive(p) => job[p].platform \in Platforms
        /\ pc[p] \in Publishing => /\ job[p].fetched \in 1 .. MaxFetches
                                   /\ job[p].count \in Sizes

Typed == RoundTypeOK /\ JobsKnown

\* A child's work keeps the types.
LEMMA WorkTyped ==
    ASSUME Typed, NEW p \in Procs, ChildWorks(p)
    PROVE  Typed'
<1> USE DEF Typed, RoundTypeOK
<1>1. UNCHANGED roundVars
  BY DEF ChildWorks
<1>2. JobsKnown /\ VolumeTypeOK /\ StoreTypeOK
  BY VolumeTypes
<1> SUFFICES VolumeTypeOK' /\ JobsKnown'
  BY <1>1 DEF roundVars
<1>3. ASSUME Open(p) PROVE VolumeTypeOK' /\ JobsKnown'
  <2>1. StoreTypeOK'
    BY <1>2, <1>3 DEF Open, GetMarker, DbSize, RereadMarker, SetMarker,
       VerifyMarker, StoreTypeOK, storeVars
  <2>2. PICK next \in {"fetch", "dbSize", "setMarker", "rereadMarker",
                       "verifyMarker", "refused"} : Move(p, next)
    BY <1>3 DEF Open, GetMarker, DbSize, RereadMarker, SetMarker, VerifyMarker
  <2>3. ProcTypeOK'
    BY <1>2, <2>2, MoveType DEF Labels, Opening, Publishing, Ended
  <2>4. JobsKnown'
    <3>1. pc[p] # "idle"
      BY <1>3 DEF Open, GetMarker, DbSize, RereadMarker, SetMarker,
         VerifyMarker, At
    <3>2. pc' = [pc EXCEPT ![p] = next] /\ job' = job
      BY <2>2 DEF Move
    <3>3. next \notin Publishing
      BY DEF Publishing
    <3>4. QED
      BY <1>2, <3>1, <3>2, <3>3 DEF JobsKnown, Alive, VolumeTypeOK
  <2>5. QED
    BY <2>1, <2>3, <2>4
    DEF VolumeTypeOK, StoreTypeOK, ProcTypeOK, Labels
<1>4. ASSUME Fetch(p) PROVE VolumeTypeOK' /\ JobsKnown'
  <2>1. PICK count \in Sizes :
            job' = [job EXCEPT ![p] =
                       [job[p] EXCEPT !.fetched = clock + 1, !.count = count]]
    BY <1>4 DEF Fetch
  <2>2. clock + 1 \in 1 .. MaxFetches /\ clock' = clock + 1
    BY <1>2, <1>4, StoreAssumption DEF Fetch, VolumeTypeOK
  <2>3. /\ job'[p] \in Jobs
        /\ job'[p].platform = job[p].platform
        /\ job'[p].fetched = clock + 1 /\ job'[p].count = count
    <3>1. job[p] \in [platform : Platforms \cup {0}, fetched : 0 .. MaxFetches,
                      count : Sizes \cup {0}]
      BY <1>2 DEF VolumeTypeOK, Jobs
    <3>2. job'[p] = [job[p] EXCEPT !.fetched = clock + 1, !.count = count]
      BY <1>2, <2>1 DEF VolumeTypeOK
    <3>3. job'[p] = [platform |-> job[p].platform, fetched |-> clock + 1,
                     count |-> count]
      BY <3>1, <3>2
    <3>4. clock + 1 \in 0 .. MaxFetches
      BY <2>2, StoreAssumption
    <3>5. QED
      BY <2>2, <3>1, <3>3, <3>4 DEF Jobs
  <2>4. job' \in [Procs -> Jobs] /\ \A q \in Procs : q # p => job'[q] = job[q]
    BY <1>2, <2>1, <2>3 DEF VolumeTypeOK
  <2>5. pc' = [pc EXCEPT ![p] = "guardLength"] /\ UNCHANGED <<storeVars, hashLength>>
    BY <1>4 DEF Fetch
  <2>6. VolumeTypeOK'
    BY <1>2, <2>2, <2>4, <2>5 DEF VolumeTypeOK, Publishing, storeVars
  <2>7. pc[p] = "fetch"
    BY <1>4 DEF Fetch, At
  <2>8. JobsKnown'
    BY <1>2, <2>2, <2>3, <2>4, <2>5, <2>7 DEF JobsKnown, Alive, VolumeTypeOK
  <2>9. QED
    BY <2>6, <2>8
<1>5. ASSUME GuardLength(p) PROVE VolumeTypeOK' /\ JobsKnown'
  <2>1. job[p].platform \in Platforms /\ pc[p] = "guardLength"
    BY <1>2, <1>5 DEF GuardLength, At, JobsKnown, Alive
  <2>2. Length(stable[job[p].platform]) \in Nat
    <3>1. stable[job[p].platform]
              \in [fetched : 1 .. MaxFetches, count : Sizes] \cup {NoSnapshot}
      BY <1>2, <2>1 DEF VolumeTypeOK
    <3>2. CASE stable[job[p].platform] = NoSnapshot
      BY <3>2 DEF Length
    <3>3. CASE stable[job[p].platform] # NoSnapshot
      <4>1. stable[job[p].platform].count \in Sizes
        BY <3>1, <3>3
      <4>2. stable[job[p].platform].count \in Nat
        BY <4>1, BoardAssumption
      <4>3. QED
        BY <3>3, <4>2 DEF Length
    <3>4. QED
      BY <3>2, <3>3
  <2>3. PICK next \in {"stage", "guardMeta"} : pc' = [pc EXCEPT ![p] = next]
    BY <1>5 DEF GuardLength
  <2>4. VolumeTypeOK'
    BY <1>2, <1>5, <2>2, <2>3 DEF GuardLength, VolumeTypeOK, Publishing, storeVars
  <2>5. JobsKnown'
    BY <1>2, <1>5, <2>1, <2>3
    DEF GuardLength, JobsKnown, Alive, VolumeTypeOK, Publishing
  <2>6. QED
    BY <2>4, <2>5
<1>6. ASSUME FetchFails(p) \/ GuardMeta(p) \/ Stage(p) \/ CheckStaged(p)
             \/ Rename(p)
      PROVE  VolumeTypeOK' /\ JobsKnown'
  <2>1. PICK next \in {"failed", "stage", "checkStaged", "rename", "published"} :
            /\ Move(p, next)
            /\ next \in Publishing => pc[p] \in Publishing
    BY <1>6 DEF FetchFails, GuardMeta, Stage, CheckStaged, Rename, At, Publishing
  <2>2. ProcTypeOK'
    BY <1>2, <2>1, MoveType DEF Labels, Publishing, Ended
  <2>3. pc[p] # "idle"
    BY <1>6 DEF FetchFails, GuardMeta, Stage, CheckStaged, Rename, At
  <2>4. JobsKnown'
    BY <1>2, <2>1, <2>3 DEF Move, JobsKnown, Alive, VolumeTypeOK
  <2>5. StoreTypeOK'
    <3>1. CASE FetchFails(p) \/ GuardMeta(p) \/ CheckStaged(p)
      BY <1>2, <3>1 DEF FetchFails, GuardMeta, CheckStaged, StoreTypeOK, storeVars
    <3>2. CASE Stage(p)
      BY <1>2, <3>2 DEF Stage, StoreTypeOK, VolumeTypeOK
    <3>3. CASE Rename(p)
      <4>1. pc[p] \in Publishing
        BY <3>3 DEF Rename, At, Publishing
      <4>2. /\ job[p].platform \in Platforms /\ job[p].count \in Sizes
            /\ job[p].fetched \in 1 .. MaxFetches
        BY <1>2, <2>3, <4>1 DEF JobsKnown, Alive
      <4>3. stable' \in [Platforms ->
               [fetched : 1 .. MaxFetches, count : Sizes] \cup {NoSnapshot}]
        BY <1>2, <3>3, <4>2 DEF Rename, StoreTypeOK, Snapshot
      <4>4. ttlFrom' \in [Platforms -> 0 .. MaxFetches]
        BY <1>2, <3>3, <4>2 DEF Rename, StoreTypeOK
      <4>5. QED
        BY <1>2, <3>3, <4>3, <4>4 DEF Rename, StoreTypeOK
    <3>4. QED
      BY <1>6, <3>1, <3>2, <3>3
  <2>6. QED
    BY <2>2, <2>4, <2>5
    DEF VolumeTypeOK, StoreTypeOK, ProcTypeOK, Labels
<1>7. QED
  BY <1>3, <1>4, <1>5, <1>6 DEF ChildWorks, Publish

\* A process that ends owns nothing any more.
LEMMA GoneTyped ==
    ASSUME Typed, NEW p \in Procs, Gone(p)
    PROVE  VolumeTypeOK' /\ JobsKnown'
<1>1. VolumeTypeOK /\ JobsKnown
  BY DEF Typed, RoundTypeOK
<1>2. VolumeTypeOK'
  BY <1>1, GoneType
<1>3. ASSUME NEW q \in Procs
      PROVE  /\ Alive(q)' => job'[q].platform \in Platforms
             /\ pc'[q] \in Publishing => /\ job'[q].fetched \in 1 .. MaxFetches
                                         /\ job'[q].count \in Sizes
  <2>1. CASE q = p
    <3>1. pc'[q] = "idle"
      BY <1>1, <2>1 DEF Gone, VolumeTypeOK
    <3>2. QED
      BY <3>1 DEF Alive, Publishing
  <2>2. CASE q # p
    BY <1>1, <2>2 DEF Gone, VolumeTypeOK, JobsKnown, Alive
  <2>3. QED
    BY <2>1, <2>2
<1>4. QED
  BY <1>2, <1>3 DEF JobsKnown

\* A forked process knows its platform.
LEMMA ForkTyped ==
    ASSUME Typed, NEW p \in Procs, Fork(p)
    PROVE  Typed'
<1>1. VolumeTypeOK /\ JobsKnown /\ RoundTypeOK
  BY DEF Typed, RoundTypeOK
<1>2. PICK s \in todo : Start(p, s) /\ todo' = todo \ {s}
  BY DEF Fork
<1>3. s \in Platforms
  BY <1>1 DEF RoundTypeOK
<1>4. job' = [job EXCEPT ![p] = [NoJob EXCEPT !.platform = s]]
      /\ pc' = [pc EXCEPT ![p] = "getMarker"]
      /\ UNCHANGED <<storeVars, clock, hashLength>>
  BY <1>2 DEF Start
<1>5. [NoJob EXCEPT !.platform = s] = [platform |-> s, fetched |-> 0, count |-> 0]
  BY DEF NoJob
<1>6. job'[p] \in Jobs /\ job'[p].platform = s
  BY <1>1, <1>3, <1>4, <1>5, StoreAssumption DEF VolumeTypeOK, Jobs
<1>7. VolumeTypeOK'
  BY <1>1, <1>4, <1>6 DEF VolumeTypeOK, Opening, storeVars
<1>8. JobsKnown'
  BY <1>1, <1>3, <1>4, <1>6
  DEF JobsKnown, VolumeTypeOK, Alive, Publishing
<1>9. QED
  BY <1>1, <1>2, <1>7, <1>8, RoundAssumption DEF Fork, Typed, RoundTypeOK

\* What a step of the round may be.
LEMMA RoundSteps ==
    ASSUME [RoundNext]_allVars
    PROVE  \/ UNCHANGED volumeVars
                /\ (BeginRound \/ Track \/ FinishRound \/ Signal \/ StopRound
                       \/ RunnerKilled \/ UNCHANGED roundVars)
           \/ \E p \in Procs : Fork(p)
           \/ \E p \in Procs : ChildWorks(p)
           \/ \E p \in Procs :
                /\ Alive(p) /\ Gone(p)
                /\ holders' = holders \ {p}
                /\ UNCHANGED <<runner, todo, forked, tracked, lastEnd, rounds>>
           \/ \E k \in staging : StagingAbandoned(k)
           \/ \E s \in Platforms : SnapshotExpires(s) /\ UNCHANGED roundVars
<1>1. CASE BeginRound \/ Track \/ FinishRound \/ Signal \/ StopRound
           \/ RunnerKilled
  BY <1>1 DEF BeginRound, Track, FinishRound, Signal, StopRound, RunnerKilled,
              RunnerEnds
<1>2. ASSUME NEW p \in Procs, StopChild(p) \/ ChildEnds(p) \/ ChildTimesOut(p)
      PROVE  /\ Alive(p) /\ Gone(p)
             /\ holders' = holders \ {p}
             /\ UNCHANGED <<runner, todo, forked, tracked, lastEnd, rounds>>
  BY <1>2 DEF StopChild, ChildEnds, ChildTimesOut, Exit, Abort, Ended, Alive
<1>3. CASE UNCHANGED allVars
  BY <1>3 DEF allVars
<1>4. QED
  BY <1>1, <1>2, <1>3 DEF RoundNext

\* The inductive form of type correctness.
LEMMA RoundTyped == RoundSpec => []Typed
<1>1. RoundInit => Typed
  BY NoJobType, StoreAssumption, RoundAssumption
  DEF RoundInit, VolumeInit, Typed, RoundTypeOK, VolumeTypeOK, JobsKnown, Alive,
      Publishing
<1>2. Typed /\ [RoundNext]_allVars => Typed'
  <2> SUFFICES ASSUME Typed, [RoundNext]_allVars PROVE Typed'
    OBVIOUS
  <2>0. VolumeTypeOK /\ JobsKnown /\ RoundTypeOK
    BY DEF Typed, RoundTypeOK
  <2>1. CASE UNCHANGED volumeVars
              /\ (BeginRound \/ Track \/ FinishRound \/ Signal \/ StopRound
                     \/ RunnerKilled \/ UNCHANGED roundVars)
    <3>1. VolumeTypeOK' /\ JobsKnown'
      BY <2>0, <2>1 DEF volumeVars, storeVars, procVars, VolumeTypeOK,
                        JobsKnown, Alive
    <3>2. RoundTypeOK'
      BY <2>0, <2>1, <3>1, RoundAssumption
      DEF RoundTypeOK, BeginRound, Track, FinishRound, Signal, StopRound,
          RunnerKilled, RunnerEnds, roundVars
    <3>3. QED
      BY <3>1, <3>2 DEF Typed
  <2>2. ASSUME NEW p \in Procs, Fork(p) PROVE Typed'
    BY <2>2, ForkTyped
  <2>3. ASSUME NEW p \in Procs, ChildWorks(p) PROVE Typed'
    BY <2>3, WorkTyped
  <2>4. ASSUME NEW p \in Procs, Alive(p), Gone(p), holders' = holders \ {p},
               UNCHANGED <<runner, todo, forked, tracked, lastEnd, rounds>>
        PROVE  Typed'
    BY <2>0, <2>4, GoneTyped DEF Typed, RoundTypeOK
  <2>5. ASSUME NEW k \in staging, StagingAbandoned(k) PROVE Typed'
    BY <2>0, <2>5 DEF StagingAbandoned, StagingExpires, procVars, roundVars,
                      Typed, RoundTypeOK, VolumeTypeOK, JobsKnown, Alive
  <2>6. ASSUME NEW s \in Platforms, SnapshotExpires(s), UNCHANGED roundVars
        PROVE  Typed'
    <3>1. VolumeTypeOK'
      BY <2>0, <2>6, StoreAssumption
      DEF SnapshotExpires, procVars, VolumeTypeOK
    <3>2. JobsKnown'
      BY <2>0, <2>6 DEF SnapshotExpires, procVars, JobsKnown, Alive
    <3>3. QED
      BY <2>0, <2>6, <3>1, <3>2 DEF roundVars, Typed, RoundTypeOK
  <2>7. QED
    BY <2>1, <2>2, <2>3, <2>4, <2>5, <2>6, RoundSteps
<1>3. QED
  BY <1>1, <1>2, PTL DEF RoundSpec

\* Every state of the round and its processes is well typed.
THEOREM RoundTypeCorrect == RoundSpec => []RoundTypeOK
<1>1. Typed => RoundTypeOK
  BY DEF Typed
<1>2. QED
  BY <1>1, RoundTyped, PTL

-----------------------------------------------------------------------------
(***************************************************************************)
(* The lock                                                                *)
(***************************************************************************)

\* The work of a child changes neither who is alive nor what for.
LEMMA WorkKeepsPlatforms ==
    ASSUME Typed, NEW p \in Procs, ChildWorks(p)
    PROVE  /\ Alive(p)
           /\ \A q \in Procs : /\ Alive(q)' <=> Alive(q)
                               /\ job'[q].platform = job[q].platform
                               /\ q # p => pc'[q] = pc[q] /\ job'[q] = job[q]
           /\ clock \in Nat /\ clock' \in {clock, clock + 1}
<1>1. VolumeTypeOK /\ pc \in [Procs -> Labels] /\ job \in [Procs -> Jobs]
      /\ clock \in Nat
  BY DEF Typed, RoundTypeOK, VolumeTypeOK, Labels
<1>2. pc[p] # "idle"
  BY DEF ChildWorks, Open, Publish, GetMarker, DbSize, RereadMarker, SetMarker,
     VerifyMarker, Fetch, FetchFails, GuardLength, GuardMeta, Stage, CheckStaged,
     Rename, At
<1>3. CASE Fetch(p)
  <2>1. PICK count \in Sizes :
            job' = [job EXCEPT ![p] =
                       [job[p] EXCEPT !.fetched = clock + 1, !.count = count]]
    BY <1>3 DEF Fetch
  <2>2. job[p] \in [platform : Platforms \cup {0}, fetched : 0 .. MaxFetches,
                    count : Sizes \cup {0}]
    BY <1>1 DEF Jobs
  <2>3. job'[p].platform = job[p].platform
    BY <1>1, <2>1, <2>2
  <2>4. \A q \in Procs : q # p => job'[q] = job[q]
    BY <1>1, <2>1
  <2>5. pc' = [pc EXCEPT ![p] = "guardLength"] /\ clock' = clock + 1
    BY <1>3 DEF Fetch
  <2>6. QED
    BY <1>1, <1>2, <2>3, <2>4, <2>5 DEF Alive
<1>4. CASE ~Fetch(p)
  <2>1. job' = job /\ clock' = clock
    BY <1>4 DEF ChildWorks, Open, Publish, GetMarker, DbSize, RereadMarker,
       SetMarker, VerifyMarker, FetchFails, GuardLength, GuardMeta, Stage,
       CheckStaged, Rename, Move
  <2>2. PICK next \in Labels \ {"idle"} : pc' = [pc EXCEPT ![p] = next]
    BY <1>4 DEF ChildWorks, Open, Publish, GetMarker, DbSize, RereadMarker,
       SetMarker, VerifyMarker, FetchFails, GuardLength, GuardMeta, Stage,
       CheckStaged, Rename, Move, Labels, Opening, Publishing, Ended
  <2>3. QED
    BY <1>1, <1>2, <2>1, <2>2 DEF Alive
<1>5. QED
  BY <1>1, <1>2, <1>3, <1>4

\* Who is alive has the lock file open and a platform that is not to be
\* started any more.
LockInv ==
    /\ \A p \in Procs : Alive(p) => p \in holders /\ job[p].platform \notin todo
    /\ OneProcessPerPlatform

LEMMA LockHeld == RoundSpec => []LockInv
<1>1. RoundInit => LockInv
  BY DEF RoundInit, VolumeInit, LockInv, OneProcessPerPlatform, Alive
<1>2. Typed /\ LockInv /\ [RoundNext]_allVars => LockInv'
  <2> SUFFICES ASSUME Typed, LockInv, [RoundNext]_allVars PROVE LockInv'
    OBVIOUS
  <2>0. VolumeTypeOK /\ RoundTypeOK /\ pc \in [Procs -> Labels]
        /\ job \in [Procs -> Jobs]
    BY DEF Typed, RoundTypeOK, VolumeTypeOK, Labels
  <2>1. CASE UNCHANGED volumeVars
              /\ (BeginRound \/ Track \/ FinishRound \/ Signal \/ StopRound
                     \/ RunnerKilled \/ UNCHANGED roundVars)
    <3>1. UNCHANGED <<pc, job>>
      BY <2>1 DEF volumeVars, procVars
    <3>2. \A p \in Procs : Alive(p) => p \in holders' /\ job[p].platform \notin todo'
      BY <2>1, RoundAssumption
      DEF LockInv, BeginRound, Track, FinishRound, Signal, StopRound,
          RunnerKilled, RunnerEnds, roundVars
    <3>3. QED
      BY <3>1, <3>2 DEF LockInv, OneProcessPerPlatform, Alive
  <2>2. ASSUME NEW p \in Procs, Fork(p) PROVE LockInv'
    <3>1. PICK s \in todo : Start(p, s) /\ todo' = todo \ {s}
      BY <2>2 DEF Fork
    <3>2. pc' = [pc EXCEPT ![p] = "getMarker"]
          /\ job' = [job EXCEPT ![p] = [NoJob EXCEPT !.platform = s]]
      BY <3>1 DEF Start
    <3>3. job'[p].platform = s /\ \A q \in Procs : q # p => job'[q] = job[q]
      BY <2>0, <3>2 DEF NoJob
    <3>4. Alive(p)' /\ \A q \in Procs : q # p => (Alive(q)' <=> Alive(q))
      BY <2>0, <3>2 DEF Alive
    <3>5. holders' = holders \cup {p}
      BY <2>2 DEF Fork
    <3>6. \A q \in Procs : Alive(q)' => q \in holders' /\ job'[q].platform \notin todo'
      BY <3>1, <3>3, <3>4, <3>5 DEF LockInv
    <3>7. OneProcessPerPlatform'
      BY <3>1, <3>3, <3>4 DEF LockInv, OneProcessPerPlatform
    <3>8. QED
      BY <3>6, <3>7 DEF LockInv
  <2>3. ASSUME NEW p \in Procs, ChildWorks(p) PROVE LockInv'
    <3>1. UNCHANGED <<holders, todo>>
      BY <2>3 DEF ChildWorks, roundVars
    <3>2. QED
      BY <2>3, <3>1, WorkKeepsPlatforms DEF LockInv, OneProcessPerPlatform
  <2>4. ASSUME NEW p \in Procs, Alive(p), Gone(p), holders' = holders \ {p},
               UNCHANGED <<runner, todo, forked, tracked, lastEnd, rounds>>
        PROVE  LockInv'
    <3>1. ~Alive(p)' /\ \A q \in Procs : q # p =>
              (Alive(q)' <=> Alive(q)) /\ job'[q] = job[q]
      BY <2>0, <2>4 DEF Gone, Alive
    <3>2. QED
      BY <2>4, <3>1 DEF LockInv, OneProcessPerPlatform
  <2>5. ASSUME NEW k \in staging, StagingAbandoned(k) PROVE LockInv'
    BY <2>5 DEF StagingAbandoned, StagingExpires, procVars, roundVars, LockInv,
                OneProcessPerPlatform, Alive
  <2>6. ASSUME NEW s \in Platforms, SnapshotExpires(s), UNCHANGED roundVars
        PROVE  LockInv'
    BY <2>6 DEF SnapshotExpires, procVars, roundVars, LockInv,
                OneProcessPerPlatform, Alive
  <2>7. QED
    BY <2>1, <2>2, <2>3, <2>4, <2>5, <2>6, RoundSteps
<1>3. QED
  BY <1>1, <1>2, RoundTyped, PTL DEF RoundSpec

\* The lock, inherited by the children, keeps two processes off one platform,
\* also across a round whose shell was killed.
THEOREM OnePublisher == RoundSpec => []OneProcessPerPlatform
<1>1. LockInv => OneProcessPerPlatform
  BY DEF LockInv
<1>2. QED
  BY <1>1, LockHeld, PTL

-----------------------------------------------------------------------------
(***************************************************************************)
(* The refinement of the board                                             *)
(***************************************************************************)

\* The steps after the size guard.
Guarded == {"stage", "checkStaged", "rename"}

\* What a process that wants to publish may replace.
MayReplace(p) ==
    LET previous == stable[job[p].platform]
    IN  pc[p] \in Publishing /\ previous # NoSnapshot =>
            /\ previous.fetched < job[p].fetched
            /\ pc[p] \in Guarded => LargeEnough(job[p].count, previous.count)

\* No stable key is from the future, and what a process has checked of the one
\* it is about to replace is still so.
BoardInv ==
    /\ \A s \in Platforms : stable[s] # NoSnapshot => stable[s].fetched <= clock
    /\ \A p \in Procs : pc[p] \in Publishing => job[p].fetched <= clock
    /\ \A p \in Procs : MayReplace(p)

\* Of the stable key of its platform a child knows what its guard has seen.
LEMMA GuardChecks ==
    ASSUME Typed, LockInv, BoardInv, NEW p \in Procs,
           GuardLength(p) \/ GuardMeta(p) \/ Stage(p) \/ CheckStaged(p)
    PROVE  MayReplace(p)'
<1>1. VolumeTypeOK /\ pc \in [Procs -> Labels] /\ JobsKnown /\ MayReplace(p)
  BY DEF Typed, RoundTypeOK, VolumeTypeOK, Labels, BoardInv
<1>2. job' = job /\ stable' = stable
  BY DEF GuardLength, GuardMeta, Stage, CheckStaged, Move, storeVars
<1>3. pc[p] \in Publishing
  BY DEF GuardLength, GuardMeta, Stage, CheckStaged, At, Publishing
<1>4. CASE GuardLength(p)
  <2>1. CASE Length(stable[job[p].platform]) = 0
    <3>1. job[p].platform \in Platforms
      BY <1>1, <1>3 DEF JobsKnown, Alive, Publishing
    <3>2. stable[job[p].platform]
              \in [fetched : 1 .. MaxFetches, count : Sizes] \cup {NoSnapshot}
      BY <1>1, <3>1 DEF VolumeTypeOK
    <3>3. CASE stable[job[p].platform] # NoSnapshot
      <4>1. stable[job[p].platform].count \in Sizes
        BY <3>2, <3>3
      <4>2. stable[job[p].platform].count \in Nat
        BY <4>1, BoardAssumption
      <4>3. QED
        BY <2>1, <3>3, <4>2 DEF Length
    <3>4. CASE stable[job[p].platform] = NoSnapshot
      BY <1>2, <3>4 DEF MayReplace
    <3>5. QED
      BY <3>3, <3>4
  <2>2. CASE Length(stable[job[p].platform]) # 0
    <3>1. pc'[p] = "guardMeta"
      BY <1>1, <1>4, <2>2 DEF GuardLength
    <3>2. QED
      BY <1>1, <1>2, <1>3, <3>1 DEF MayReplace, Guarded
  <2>3. QED
    BY <2>1, <2>2
<1>5. CASE GuardMeta(p)
  <2>1. CASE MetaAccepts(p)
    BY <1>1, <1>2, <1>3, <2>1 DEF MetaAccepts, MayReplace
  <2>2. CASE ~MetaAccepts(p)
    <3>1. pc'[p] = "failed"
      BY <1>1, <1>5, <2>2 DEF GuardMeta, Move
    <3>2. QED
      BY <3>1 DEF MayReplace, Publishing
  <2>3. QED
    BY <2>1, <2>2
<1>6. CASE Stage(p) \/ CheckStaged(p)
  <2>1. pc[p] \in Guarded
    BY <1>6 DEF Stage, CheckStaged, At, Guarded
  <2>2. QED
    BY <1>1, <1>2, <1>3, <2>1 DEF MayReplace
<1>7. QED
  BY <1>4, <1>5, <1>6

\* The one step that replaces a stable key.
LEMMA RenamePublishes ==
    ASSUME Typed, BoardInv, NEW p \in Procs, Rename(p), job[p] \in staging
    PROVE  /\ job[p].platform \in Platforms
           /\ stable' = [stable EXCEPT ![job[p].platform] = Snapshot(job[p])]
           /\ Snapshot(job[p]) \in Snapshots
           /\ Snapshot(job[p]).fetched <= clock
           /\ BoardPublish(job[p].platform)
<1> DEFINE s == job[p].platform
<1>1. VolumeTypeOK /\ JobsKnown /\ MayReplace(p) /\ pc[p] = "rename"
  BY DEF Typed, RoundTypeOK, BoardInv, Rename, At
<1>2. s \in Platforms /\ job[p].count \in Sizes /\ job[p].fetched \in 1 .. MaxFetches
  BY <1>1 DEF JobsKnown, Alive, Publishing
<1>3. stable' = [stable EXCEPT ![s] = Snapshot(job[p])]
  BY DEF Rename
<1>4. stable'[s] = Snapshot(job[p])
  BY <1>1, <1>2, <1>3 DEF VolumeTypeOK
<1>5. Snapshot(job[p]) \in Snapshots
  BY <1>2, StoreAssumption DEF Snapshot, Snapshots
<1>6. Snapshot(job[p]).fetched = job[p].fetched
      /\ Snapshot(job[p]).count = job[p].count
  BY DEF Snapshot
<1>7. job[p].fetched <= clock
  BY <1>1 DEF BoardInv, Publishing
<1>8. stable[s] # NoSnapshot => /\ job[p].fetched > stable[s].fetched
                                /\ LargeEnough(job[p].count, stable[s].count)
  <2>1. SUFFICES ASSUME stable[s] # NoSnapshot
                 PROVE  /\ job[p].fetched > stable[s].fetched
                        /\ LargeEnough(job[p].count, stable[s].count)
    OBVIOUS
  <2>2. stable[s].fetched \in 1 .. MaxFetches
    BY <1>1, <1>2, <2>1 DEF VolumeTypeOK
  <2>3. stable[s].fetched < job[p].fetched
        /\ LargeEnough(job[p].count, stable[s].count)
    BY <1>1, <2>1 DEF MayReplace, Publishing, Guarded
  <2>4. QED
    BY <1>2, <2>2, <2>3, StoreAssumption
<1>9. QED
  BY <1>2, <1>3, <1>4, <1>5, <1>6, <1>7, <1>8 DEF BoardPublish

\* A change of nothing that MayReplace speaks of.
LEMMA BoardUnchanged ==
    ASSUME BoardInv, UNCHANGED <<stable, clock>>,
           \A q \in Procs : (pc'[q] = pc[q] /\ job'[q] = job[q])
                                \/ pc'[q] \notin Publishing
    PROVE  BoardInv'
BY DEF BoardInv, MayReplace

LEMMA BoardKept == RoundSpec => []BoardInv
<1>1. RoundInit => BoardInv
  BY DEF RoundInit, VolumeInit, BoardInv, MayReplace, Publishing
<1>2. Typed /\ LockInv /\ BoardInv /\ [RoundNext]_allVars => BoardInv'
  <2> SUFFICES ASSUME Typed, LockInv, BoardInv, [RoundNext]_allVars
               PROVE  BoardInv'
    OBVIOUS
  <2>0. /\ VolumeTypeOK /\ JobsKnown /\ pc \in [Procs -> Labels]
        /\ job \in [Procs -> Jobs]
    BY DEF Typed, RoundTypeOK, VolumeTypeOK, Labels
  <2>1. CASE UNCHANGED volumeVars
    BY <2>1, BoardUnchanged DEF volumeVars, storeVars, procVars
  <2>2. ASSUME NEW p \in Procs, Fork(p) PROVE BoardInv'
    <3>1. PICK s \in todo : Start(p, s)
      BY <2>2 DEF Fork
    <3>2. QED
      BY <2>0, <3>1, BoardUnchanged DEF Start, storeVars, Publishing
  <2>3. ASSUME NEW p \in Procs, ChildWorks(p) PROVE BoardInv'
    <3>1. CASE Open(p) \/ FetchFails(p)
      <4>1. UNCHANGED <<stable, clock, job>>
        BY <3>1 DEF Open, GetMarker, DbSize, RereadMarker, SetMarker,
           VerifyMarker, FetchFails, Move, storeVars
      <4>2. PICK next \in Labels \ Publishing : pc' = [pc EXCEPT ![p] = next]
        BY <3>1 DEF Open, GetMarker, DbSize, RereadMarker, SetMarker,
           VerifyMarker, FetchFails, Move, Labels, Opening, Publishing, Ended
      <4>3. QED
        BY <2>0, <4>1, <4>2, BoardUnchanged
    <3>2. CASE Fetch(p)
      <4>1. PICK count \in Sizes :
                job' = [job EXCEPT ![p] =
                           [job[p] EXCEPT !.fetched = clock + 1, !.count = count]]
        BY <3>2 DEF Fetch
      <4>2. /\ stable' = stable /\ clock' = clock + 1
            /\ pc' = [pc EXCEPT ![p] = "guardLength"]
        BY <3>2 DEF Fetch, storeVars
      <4>3. job[p] \in [platform : Platforms \cup {0}, fetched : 0 .. MaxFetches,
                        count : Sizes \cup {0}]
        BY <2>0 DEF Jobs
      <4>4. job'[p].platform = job[p].platform /\ job'[p].fetched = clock + 1
        BY <2>0, <4>1, <4>3
      <4>5. clock \in Nat /\ job[p].platform \in Platforms
        BY <2>0, <2>3, WorkKeepsPlatforms DEF JobsKnown
      <4>6. ASSUME NEW s \in Platforms, stable[s] # NoSnapshot
            PROVE  stable[s].fetched \in Nat /\ stable[s].fetched <= clock
        BY <2>0, <4>6 DEF VolumeTypeOK, BoardInv
      <4>7. \A s \in Platforms : stable[s] # NoSnapshot => stable[s].fetched < clock + 1
        BY <4>5, <4>6
      <4>8. MayReplace(p)'
        BY <2>0, <4>2, <4>4, <4>5, <4>7 DEF MayReplace, Guarded
      <4>9. ASSUME NEW q \in Procs, q # p
            PROVE  MayReplace(q)' /\ pc'[q] = pc[q] /\ job'[q] = job[q]
        BY <2>0, <4>1, <4>2, <4>9 DEF MayReplace, BoardInv
      <4>10. ASSUME NEW q \in Procs, pc'[q] \in Publishing
             PROVE  job'[q].fetched <= clock'
        <5>1. CASE q = p
          BY <4>2, <4>4, <4>5, <5>1
        <5>2. CASE q # p
          <6>1. job[q].fetched \in 1 .. MaxFetches /\ job[q].fetched <= clock
            BY <2>0, <4>9, <4>10, <5>2 DEF BoardInv, JobsKnown
          <6>2. QED
            BY <4>2, <4>5, <4>9, <5>2, <6>1
        <5>3. QED
          BY <5>1, <5>2
      <4>11. \A s \in Platforms : stable'[s] # NoSnapshot => stable'[s].fetched <= clock'
        BY <4>2, <4>5, <4>6
      <4>12. QED
        BY <4>8, <4>9, <4>10, <4>11 DEF BoardInv
    <3>3. CASE GuardLength(p) \/ GuardMeta(p) \/ Stage(p) \/ CheckStaged(p)
      <4>1. UNCHANGED <<stable, clock, job>>
        BY <3>3 DEF GuardLength, GuardMeta, Stage, CheckStaged, Move, storeVars
      <4>2. \A q \in Procs : q # p => pc'[q] = pc[q]
        BY <2>3, WorkKeepsPlatforms
      <4>3. pc[p] \in Publishing
        BY <3>3 DEF GuardLength, GuardMeta, Stage, CheckStaged, At, Publishing
      <4>4. MayReplace(p)'
        BY <3>3, GuardChecks
      <4>5. ASSUME NEW q \in Procs, q # p PROVE MayReplace(q)'
        BY <4>1, <4>2, <4>5 DEF MayReplace, BoardInv
      <4>6. QED
        BY <4>1, <4>2, <4>3, <4>4, <4>5 DEF BoardInv
    <3>4. CASE Rename(p)
      <4>1. pc'[p] \notin Publishing /\ UNCHANGED <<clock, job>>
            /\ \A q \in Procs : q # p => pc'[q] = pc[q]
        BY <2>0, <3>4 DEF Rename, Move, Publishing
      <4>2. CASE job[p] \notin staging
        <5>1. stable' = stable
          BY <3>4, <4>2 DEF Rename
        <5>2. QED
          BY <4>1, <5>1, BoardUnchanged
      <4>3. CASE job[p] \in staging
        <5>1. /\ stable' = [stable EXCEPT ![job[p].platform] = Snapshot(job[p])]
              /\ Snapshot(job[p]).fetched <= clock
          BY <3>4, <4>3, RenamePublishes
        <5>2. \A s \in Platforms :
                  stable'[s] # NoSnapshot => stable'[s].fetched <= clock
          BY <2>0, <5>1 DEF BoardInv, VolumeTypeOK
        <5>3. ASSUME NEW q \in Procs, q # p, pc[q] \in Publishing
              PROVE  stable'[job[q].platform] = stable[job[q].platform]
          <6>1. Alive(p) /\ Alive(q)
            BY <2>3, <5>3, WorkKeepsPlatforms DEF Alive, Publishing
          <6>2. job[q].platform # job[p].platform /\ job[q].platform \in Platforms
            BY <2>0, <5>3, <6>1 DEF LockInv, OneProcessPerPlatform, JobsKnown
          <6>3. QED
            BY <2>0, <5>1, <6>2 DEF VolumeTypeOK
        <5>4. ASSUME NEW q \in Procs PROVE MayReplace(q)'
          <6>1. CASE q = p
            BY <4>1, <6>1 DEF MayReplace
          <6>2. CASE q # p
            BY <4>1, <5>3, <6>2 DEF MayReplace, BoardInv
          <6>3. QED
            BY <6>1, <6>2
        <5>5. \A q \in Procs : pc'[q] \in Publishing => job'[q].fetched <= clock'
          BY <4>1 DEF BoardInv
        <5>6. QED
          BY <4>1, <5>2, <5>4, <5>5 DEF BoardInv
      <4>4. QED
        BY <4>2, <4>3
    <3>5. QED
      BY <2>3, <3>1, <3>2, <3>3, <3>4 DEF ChildWorks, Publish
  <2>4. ASSUME NEW p \in Procs, Gone(p) PROVE BoardInv'
    BY <2>0, <2>4, BoardUnchanged DEF Gone, storeVars, Publishing
  <2>5. ASSUME NEW k \in staging, StagingAbandoned(k) PROVE BoardInv'
    BY <2>5, BoardUnchanged DEF StagingAbandoned, StagingExpires, procVars
  <2>6. ASSUME NEW s \in Platforms, SnapshotExpires(s) PROVE BoardInv'
    <3>1. stable' = [stable EXCEPT ![s] = NoSnapshot] /\ UNCHANGED <<clock, procVars>>
      BY <2>6 DEF SnapshotExpires
    <3>2. \A t \in Platforms :
              stable'[t] = NoSnapshot \/ stable'[t] = stable[t]
      BY <2>0, <3>1 DEF VolumeTypeOK
    <3>3. ASSUME NEW q \in Procs PROVE MayReplace(q)'
      <4>1. CASE pc[q] \in Publishing
        <5>1. job[q].platform \in Platforms
          BY <2>0, <4>1 DEF JobsKnown, Alive, Publishing
        <5>2. QED
          BY <3>1, <3>2, <5>1 DEF MayReplace, BoardInv, procVars
      <4>2. CASE pc[q] \notin Publishing
        BY <3>1, <4>2 DEF MayReplace, procVars
      <4>3. QED
        BY <4>1, <4>2
    <3>4. QED
      BY <3>1, <3>2, <3>3 DEF BoardInv, procVars
  <2>7. QED
    BY <2>1, <2>2, <2>3, <2>4, <2>5, <2>6, RoundSteps
<1>3. QED
  BY <1>1, <1>2, RoundTyped, LockHeld, PTL DEF RoundSpec

\* Under the lock the store implements the board: every stable key is replaced
\* at once, by a later fetch that is large enough, or it expires.
THEOREM RoundImplementsBoard == RoundSpec => ImplementsBoard
<1>1. RoundInit => BoardInit
  BY DEF RoundInit, VolumeInit, BoardInit
<1>2. Typed /\ BoardInv /\ [RoundNext]_allVars => [BoardNext]_stable
  <2> SUFFICES ASSUME Typed, BoardInv, [RoundNext]_allVars, stable' # stable
               PROVE  BoardNext
    OBVIOUS
  <2>1. CASE UNCHANGED volumeVars
    BY <2>1 DEF volumeVars, storeVars
  <2>2. ASSUME NEW p \in Procs, Fork(p) PROVE BoardNext
    BY <2>2 DEF Fork, Start, storeVars
  <2>3. ASSUME NEW p \in Procs, ChildWorks(p) PROVE BoardNext
    <3>1. Rename(p) /\ job[p] \in staging
      BY <2>3 DEF ChildWorks, Open, Publish, GetMarker, DbSize, RereadMarker,
         SetMarker, VerifyMarker, Fetch, FetchFails, GuardLength, GuardMeta,
         Stage, CheckStaged, Rename, storeVars
    <3>2. QED
      BY <3>1, RenamePublishes DEF BoardNext
  <2>4. ASSUME NEW p \in Procs, Gone(p) PROVE BoardNext
    BY <2>4 DEF Gone, storeVars
  <2>5. ASSUME NEW k \in staging, StagingAbandoned(k) PROVE BoardNext
    BY <2>5 DEF StagingAbandoned, StagingExpires
  <2>6. ASSUME NEW s \in Platforms, SnapshotExpires(s) PROVE BoardNext
    BY <2>6 DEF SnapshotExpires, BoardExpire, BoardNext
  <2>7. QED
    BY <2>1, <2>2, <2>3, <2>4, <2>5, <2>6, RoundSteps
<1>3. QED
  BY <1>1, <1>2, RoundTyped, BoardKept, PTL
  DEF RoundSpec, ImplementsBoard, BoardSpec
-----------------------------------------------------------------------------
(***************************************************************************)
(* Ownership of the database                                               *)
(***************************************************************************)

\* In a foreign database every process is still at the door.
ForeignInv ==
    /\ ForeignDatabaseUntouched
    /\ foreign => \A p \in Procs :
          pc[p] \in {"idle", "getMarker", "dbSize", "rereadMarker", "refused"}

\* Of our own database the marker tells: without it there is nothing else, and
\* a process that has seen something, or got past the door, knows it is set.
OursInv ==
    ~foreign =>
        /\ marker \in {"none", "ours"}
        /\ marker = "none" =>
              staging = {} /\ \A s \in Platforms : stable[s] = NoSnapshot
        /\ \A p \in Procs :
              /\ pc[p] # "refused"
              /\ pc[p] \in {"rereadMarker", "verifyMarker", "fetch"} \cup Publishing
                    => marker = "ours"

NamespaceInv == ForeignInv /\ OursInv

\* The steps through ensureNamespace.
LEMMA OpenKeepsNamespace ==
    ASSUME Typed, NamespaceInv, NEW p \in Procs, Open(p)
    PROVE  NamespaceInv'
<1>1. VolumeTypeOK /\ pc \in [Procs -> Labels]
  BY DEF Typed, RoundTypeOK, VolumeTypeOK, Labels
<1>2. UNCHANGED <<stable, staging, foreign>>
  BY DEF Open, GetMarker, DbSize, RereadMarker, SetMarker, VerifyMarker, storeVars
<1>3. CASE GetMarker(p)
  BY <1>1, <1>2, <1>3
  DEF GetMarker, At, Move, storeVars, NamespaceInv, ForeignInv, OursInv,
      ForeignDatabaseUntouched, Publishing, VolumeTypeOK
<1>4. CASE DbSize(p)
  BY <1>1, <1>2, <1>4
  DEF DbSize, DatabaseEmpty, At, Move, storeVars, NamespaceInv, ForeignInv,
      OursInv, ForeignDatabaseUntouched, Publishing, VolumeTypeOK
<1>5. CASE RereadMarker(p)
  BY <1>1, <1>2, <1>5
  DEF RereadMarker, At, Move, storeVars, NamespaceInv, ForeignInv, OursInv,
      ForeignDatabaseUntouched, Publishing, VolumeTypeOK
<1>6. CASE SetMarker(p)
  <2>1. ~foreign
    BY <1>6 DEF SetMarker, At, NamespaceInv, ForeignInv
  <2>2. pc' = [pc EXCEPT ![p] = IF marker = "none" THEN "fetch" ELSE "verifyMarker"]
        /\ marker' = "ours"
    BY <1>6, <2>1 DEF SetMarker, Move, NamespaceInv, OursInv
  <2>3. QED
    BY <1>1, <1>2, <2>1, <2>2
    DEF NamespaceInv, ForeignInv, OursInv, ForeignDatabaseUntouched
<1>7. CASE VerifyMarker(p)
  BY <1>1, <1>2, <1>7
  DEF VerifyMarker, At, Move, storeVars, NamespaceInv, ForeignInv, OursInv,
      ForeignDatabaseUntouched, Publishing, VolumeTypeOK
<1>8. QED
  BY <1>3, <1>4, <1>5, <1>6, <1>7 DEF Open

\* Past the door there is only our own, marked database.
LEMMA WorkKeepsNamespace ==
    ASSUME Typed, NamespaceInv, NEW p \in Procs, Fetch(p) \/ Publish(p)
    PROVE  NamespaceInv'
<1>1. VolumeTypeOK /\ pc \in [Procs -> Labels]
  BY DEF Typed, RoundTypeOK, VolumeTypeOK, Labels
<1>2. pc[p] \in {"fetch"} \cup Publishing
  BY DEF Fetch, Publish, FetchFails, GuardLength, GuardMeta, Stage, CheckStaged,
     Rename, At, Publishing
<1>3. ~foreign /\ marker = "ours"
  BY <1>2 DEF NamespaceInv, ForeignInv, OursInv, Publishing
<1>4. UNCHANGED <<foreign, marker>>
  BY DEF Fetch, Publish, FetchFails, GuardLength, GuardMeta, Stage, CheckStaged,
     Rename, storeVars
<1>5. PICK next \in Labels \ {"refused"} : pc' = [pc EXCEPT ![p] = next]
  BY DEF Fetch, Publish, FetchFails, GuardLength, GuardMeta, Stage, CheckStaged,
     Rename, Move, Labels, Publishing, Ended
<1>6. QED
  BY <1>1, <1>3, <1>4, <1>5
  DEF NamespaceInv, ForeignInv, OursInv, ForeignDatabaseUntouched

\* Steps that only start or end processes and let keys go.
LEMMA OthersKeepNamespace ==
    ASSUME NamespaceInv, UNCHANGED <<marker, foreign>>,
           staging' \subseteq staging,
           \A s \in Platforms : stable'[s] \in {stable[s], NoSnapshot},
           \A p \in Procs : pc'[p] \in {pc[p], "idle", "getMarker"}
    PROVE  NamespaceInv'
BY DEF NamespaceInv, ForeignInv, OursInv, ForeignDatabaseUntouched, Publishing

LEMMA NamespaceKept == RoundSpec => []NamespaceInv
<1>1. RoundInit => NamespaceInv
  BY DEF RoundInit, VolumeInit, NamespaceInv, ForeignInv, OursInv,
         ForeignDatabaseUntouched, Publishing
<1>2. Typed /\ NamespaceInv /\ [RoundNext]_allVars => NamespaceInv'
  <2> SUFFICES ASSUME Typed, NamespaceInv, [RoundNext]_allVars
               PROVE  NamespaceInv'
    OBVIOUS
  <2>0. VolumeTypeOK /\ pc \in [Procs -> Labels]
    BY DEF Typed, RoundTypeOK, VolumeTypeOK, Labels
  <2>1. CASE UNCHANGED volumeVars
    BY <2>1, OthersKeepNamespace DEF volumeVars, storeVars, procVars
  <2>2. ASSUME NEW p \in Procs, Fork(p) PROVE NamespaceInv'
    <3>1. PICK s \in todo : Start(p, s)
      BY <2>2 DEF Fork
    <3>2. QED
      BY <2>0, <3>1, OthersKeepNamespace DEF Start, storeVars
  <2>3. ASSUME NEW p \in Procs, ChildWorks(p) PROVE NamespaceInv'
    BY <2>3, OpenKeepsNamespace, WorkKeepsNamespace DEF ChildWorks
  <2>4. ASSUME NEW p \in Procs, Gone(p) PROVE NamespaceInv'
    BY <2>0, <2>4, OthersKeepNamespace DEF Gone, storeVars
  <2>5. ASSUME NEW k \in staging, StagingAbandoned(k) PROVE NamespaceInv'
    BY <2>5, OthersKeepNamespace DEF StagingAbandoned, StagingExpires, procVars
  <2>6. ASSUME NEW s \in Platforms, SnapshotExpires(s) PROVE NamespaceInv'
    BY <2>0, <2>6, OthersKeepNamespace DEF SnapshotExpires, procVars, VolumeTypeOK
  <2>7. QED
    BY <2>1, <2>2, <2>3, <2>4, <2>5, <2>6, RoundSteps
<1>3. QED
  BY <1>1, <1>2, RoundTyped, PTL DEF RoundSpec

\* A database with keys of another application gets no key of ours, whatever
\* the processes that try to open it do at the same time.
THEOREM ForeignDataSafe == RoundSpec => []ForeignDatabaseUntouched
<1>1. NamespaceInv => ForeignDatabaseUntouched
  BY DEF NamespaceInv, ForeignInv
<1>2. QED
  BY <1>1, NamespaceKept, PTL

\* Nobody who opens our own database, fresh or not, is turned away.
THEOREM OpeningNeverRefused == RoundSpec => []NobodyRefused
<1>1. NamespaceInv => NobodyRefused
  BY DEF NamespaceInv, OursInv, NobodyRefused
<1>2. QED
  BY <1>1, NamespaceKept, PTL

-----------------------------------------------------------------------------
(***************************************************************************)
(* The lifetime of a snapshot                                              *)
(***************************************************************************)

\* The tmp hash a process is about to rename is there: no one else renames
\* it, and it outlives the process.
StagedInv == \A p \in Procs : pc[p] = "rename" => job[p] \in staging

TtlInv == StagedInv /\ FailureKeepsTtl

\* Steps that neither rename nor get ready to.
LEMMA OthersKeepTtl ==
    ASSUME TtlInv, UNCHANGED <<stable, ttlFrom>>, staging \subseteq staging',
           \A p \in Procs : pc'[p] = "rename" => pc[p] = "rename" /\ job'[p] = job[p]
    PROVE  TtlInv'
BY DEF TtlInv, StagedInv, FailureKeepsTtl

\* A rename takes the tmp hash of one platform, and renews its own key.
LEMMA RenameKeepsTtl ==
    ASSUME Typed, LockInv, TtlInv, NEW p \in Procs, Rename(p)
    PROVE  TtlInv'
<1> DEFINE s == job[p].platform
<1>1. /\ VolumeTypeOK /\ JobsKnown
      /\ pc \in [Procs -> Labels] /\ job \in [Procs -> Jobs]
  BY DEF Typed, RoundTypeOK, VolumeTypeOK, Labels
<1>2. pc[p] = "rename" /\ job[p] \in staging
  BY DEF Rename, At, TtlInv, StagedInv
<1>3. s \in Platforms
  BY <1>1, <1>2 DEF JobsKnown, Alive
<1>4. /\ stable' = [stable EXCEPT ![s] = Snapshot(job[p])]
      /\ staging' = staging \ {job[p]}
      /\ pc' = [pc EXCEPT ![p] = "published"] /\ job' = job
      /\ ttlFrom' = IF stable'[s] = NoSnapshot THEN ttlFrom
                    ELSE [ttlFrom EXCEPT ![s] = job[p].fetched]
  BY <1>2 DEF Rename, Move
<1>5. stable'[s] = Snapshot(job[p]) /\ Snapshot(job[p]) \in Snapshots
  BY <1>1, <1>2, <1>3, <1>4, StoreAssumption
  DEF JobsKnown, Publishing, Snapshot, Snapshots, VolumeTypeOK
<1>6. stable'[s] # NoSnapshot /\ stable'[s].fetched = job[p].fetched
  BY <1>5, BoardAssumption DEF Snapshot
<1>7. ttlFrom' = [ttlFrom EXCEPT ![s] = job[p].fetched]
  BY <1>4, <1>6
<1>8. ASSUME NEW t \in Platforms, stable'[t] # NoSnapshot
      PROVE  ttlFrom'[t] = stable'[t].fetched
  <2>1. CASE t = s
    BY <1>1, <1>3, <1>6, <1>7, <2>1 DEF VolumeTypeOK
  <2>2. CASE t # s
    BY <1>1, <1>3, <1>4, <1>7, <1>8, <2>2 DEF VolumeTypeOK, TtlInv, FailureKeepsTtl
  <2>3. QED
    BY <2>1, <2>2
<1>9. ASSUME NEW q \in Procs, pc'[q] = "rename"
      PROVE  job'[q] \in staging'
  <2>1. q # p /\ pc[q] = "rename"
    BY <1>1, <1>4, <1>9
  <2>2. job[q] # job[p]
    BY <1>2, <2>1 DEF LockInv, OneProcessPerPlatform, Alive
  <2>3. QED
    BY <1>4, <2>1, <2>2 DEF TtlInv, StagedInv
<1>10. QED
  BY <1>8, <1>9 DEF TtlInv, StagedInv, FailureKeepsTtl

LEMMA TtlKept == RoundSpec => []TtlInv
<1>1. RoundInit => TtlInv
  BY DEF RoundInit, VolumeInit, TtlInv, StagedInv, FailureKeepsTtl
<1>2. Typed /\ LockInv /\ TtlInv /\ [RoundNext]_allVars => TtlInv'
  <2> SUFFICES ASSUME Typed, LockInv, TtlInv, [RoundNext]_allVars PROVE TtlInv'
    OBVIOUS
  <2>0. VolumeTypeOK /\ pc \in [Procs -> Labels] /\ job \in [Procs -> Jobs]
    BY DEF Typed, RoundTypeOK, VolumeTypeOK, Labels
  <2>1. CASE UNCHANGED volumeVars
    BY <2>1, OthersKeepTtl DEF volumeVars, storeVars, procVars
  <2>2. ASSUME NEW p \in Procs, Fork(p) PROVE TtlInv'
    <3>1. PICK s \in todo : Start(p, s)
      BY <2>2 DEF Fork
    <3>2. QED
      BY <2>0, <3>1, OthersKeepTtl DEF Start, storeVars
  <2>3. ASSUME NEW p \in Procs, ChildWorks(p) PROVE TtlInv'
    <3>1. CASE CheckStaged(p)
      <4>1. UNCHANGED <<stable, ttlFrom, staging, job>>
        BY <3>1 DEF CheckStaged, Move, storeVars
      <4>2. pc' = [pc EXCEPT ![p] = IF job[p] \in staging THEN "rename" ELSE "failed"]
        BY <3>1 DEF CheckStaged, Move
      <4>3. QED
        BY <2>0, <4>1, <4>2 DEF TtlInv, StagedInv, FailureKeepsTtl
    <3>2. CASE Rename(p)
      BY <3>2, RenameKeepsTtl
    <3>3. CASE ~CheckStaged(p) /\ ~Rename(p)
      <4>1. UNCHANGED <<stable, ttlFrom>> /\ staging \subseteq staging'
        BY <2>3, <3>3
        DEF ChildWorks, Open, Publish, GetMarker, DbSize, RereadMarker,
            SetMarker, VerifyMarker, Fetch, FetchFails, GuardLength, GuardMeta,
            Stage, storeVars
      <4>2. PICK next \in Labels \ {"rename"} : pc' = [pc EXCEPT ![p] = next]
        BY <2>3, <3>3
        DEF ChildWorks, Open, Publish, GetMarker, DbSize, RereadMarker,
            SetMarker, VerifyMarker, Fetch, FetchFails, GuardLength, GuardMeta,
            Stage, Move, Labels, Opening, Publishing, Ended
      <4>3. \A q \in Procs : q # p => job'[q] = job[q]
        BY <2>3, WorkKeepsPlatforms
      <4>4. QED
        BY <2>0, <4>1, <4>2, <4>3, OthersKeepTtl
    <3>4. QED
      BY <3>1, <3>2, <3>3
  <2>4. ASSUME NEW p \in Procs, Gone(p) PROVE TtlInv'
    BY <2>0, <2>4, OthersKeepTtl DEF Gone, storeVars
  <2>5. ASSUME NEW k \in staging, StagingAbandoned(k) PROVE TtlInv'
    BY <2>5 DEF StagingAbandoned, StagingExpires, procVars, TtlInv, StagedInv,
                FailureKeepsTtl
  <2>6. ASSUME NEW s \in Platforms, SnapshotExpires(s) PROVE TtlInv'
    BY <2>0, <2>6 DEF SnapshotExpires, procVars, VolumeTypeOK, TtlInv, StagedInv,
                      FailureKeepsTtl
  <2>7. QED
    BY <2>1, <2>2, <2>3, <2>4, <2>5, <2>6, RoundSteps
<1>3. QED
  BY <1>1, <1>2, RoundTyped, LockHeld, PTL DEF RoundSpec

\* Within the script's timeouts a publication that fails never renews the
\* lifetime of the snapshot it did not replace.
THEOREM FailedRoundsAgeSnapshots == RoundSpec => []FailureKeepsTtl
<1>1. TtlInv => FailureKeepsTtl
  BY DEF TtlInv
<1>2. QED
  BY <1>1, TtlKept, PTL
=============================================================================
