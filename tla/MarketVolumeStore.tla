-------------------------- MODULE MarketVolumeStore --------------------------
(***************************************************************************)
(* php artisan market-volume:sync --platform=<id>: processes that take     *)
(* possession of a KeyDB database (RedisMarketVolumeStore::ensureNamespace)*)
(* fetch one platform and publish its snapshot (publish).  A command to    *)
(* KeyDB is one step, a MULTI ... EXEC block is one step.                  *)
(***************************************************************************)
EXTENDS MarketVolumeBoard

CONSTANTS
    Procs,          \* process ids of the artisan processes
    MaxFetches      \* bound: successful fetches in a behaviour

ASSUME StoreAssumption == MaxFetches \in Nat

VARIABLES
    ttlFrom,    \* ttlFrom[s]: the fetch whose publication last set the TTL
    marker,     \* the key market_volume:v1:namespace
    foreign,    \* the database holds keys of another application
    staging,    \* the tmp hashes: platform, fetched and count of each
    clock,      \* time of the last fetch; fetched_at_ms
    pc,         \* pc[p]: the next command of process p
    job,        \* job[p]: the snapshot p wants to publish
    hashLength  \* hashLength[p]: what p's HLEN of the stable key returned

storeVars == <<stable, ttlFrom, marker, foreign, staging>>
procVars == <<pc, job, hashLength>>
volumeVars == <<storeVars, clock, procVars>>

Opening == {"getMarker", "dbSize", "rereadMarker", "setMarker", "verifyMarker"}
Publishing == {"guardLength", "guardMeta", "stage", "checkStaged", "rename"}
Ended == {"published", "failed", "refused"}

Jobs ==
    [platform : Platforms \cup {0}, fetched : 0 .. MaxFetches, count : Sizes \cup {0}]

\* The HLEN of a hash: its symbols and __meta__.
Length(snapshot) == IF snapshot = NoSnapshot THEN 0 ELSE snapshot.count + 1

Snapshot(k) == [fetched |-> k.fetched, count |-> k.count]

VolumeTypeOK ==
    /\ stable \in [Platforms ->
           [fetched : 1 .. MaxFetches, count : Sizes] \cup {NoSnapshot}]
    /\ ttlFrom \in [Platforms -> 0 .. MaxFetches]
    /\ marker \in {"none", "ours", "other"}
    /\ foreign \in BOOLEAN
    /\ staging \subseteq Jobs
    /\ clock \in 0 .. MaxFetches
    /\ pc \in [Procs -> {"idle", "fetch"} \cup Opening \cup Publishing \cup Ended]
    /\ job \in [Procs -> Jobs]
    /\ hashLength \in [Procs -> Nat]

NoJob == [platform |-> 0, fetched |-> 0, count |-> 0]

\* The database before the first run: empty, marked by an earlier run, or in
\* use by another application, with or without a marker of its own.
VolumeInit ==
    /\ stable = [s \in Platforms |-> NoSnapshot]
    /\ ttlFrom = [s \in Platforms |-> 0]
    /\ foreign \in BOOLEAN
    /\ marker \in {"none", IF foreign THEN "other" ELSE "ours"}
    /\ staging = {}
    /\ clock = 0
    /\ pc = [p \in Procs |-> "idle"]
    /\ job = [p \in Procs |-> NoJob]
    /\ hashLength = [p \in Procs |-> 0]

\* Mutant: only keys with the market_volume prefix count.
PrefixEmpty ==
    marker = "none" /\ staging = {} /\ \A s \in Platforms : stable[s] = NoSnapshot

\* DBSIZE is 0.
DatabaseEmpty ==
    /\ marker = "none" /\ ~foreign /\ staging = {}
    /\ \A s \in Platforms : stable[s] = NoSnapshot

At(p, here) == pc[p] = here

Move(p, next) ==
    /\ pc' = [pc EXCEPT ![p] = next]
    /\ UNCHANGED <<clock, job, hashLength>>

-----------------------------------------------------------------------------
(***************************************************************************)
(* ensureNamespace                                                         *)
(***************************************************************************)
Start(p, s) ==
    /\ At(p, "idle")
    /\ pc' = [pc EXCEPT ![p] = "getMarker"]
    /\ job' = [job EXCEPT ![p] = [NoJob EXCEPT !.platform = s]]
    /\ UNCHANGED <<storeVars, clock, hashLength>>

GetMarker(p) ==
    /\ At(p, "getMarker")
    /\ Move(p, CASE marker = "ours" -> "fetch"
                 [] marker = "none" -> "dbSize"
                 [] OTHER -> "refused")
    /\ UNCHANGED storeVars

DbSize(p) ==
    /\ At(p, "dbSize")
    /\ Move(p, IF DatabaseEmpty THEN "setMarker" ELSE "rereadMarker")
    /\ UNCHANGED storeVars

\* Mutant: a database that is not empty is taken for foreign at once.
RefuseNonEmpty(p) ==
    /\ At(p, "rereadMarker")
    /\ Move(p, "refused")
    /\ UNCHANGED storeVars

\* Another process may have set the marker between the GET and DBSIZE.
RereadMarker(p) ==
    /\ At(p, "rereadMarker")
    /\ Move(p, IF marker = "ours" THEN "fetch" ELSE "refused")
    /\ UNCHANGED storeVars

\* SET ... NX
SetMarker(p) ==
    /\ At(p, "setMarker")
    /\ IF marker = "none"
       THEN marker' = "ours" /\ Move(p, "fetch")
       ELSE UNCHANGED marker /\ Move(p, "verifyMarker")
    /\ UNCHANGED <<stable, ttlFrom, foreign, staging>>

VerifyMarker(p) ==
    /\ At(p, "verifyMarker")
    /\ Move(p, IF marker = "ours" THEN "fetch" ELSE "refused")
    /\ UNCHANGED storeVars

-----------------------------------------------------------------------------
(***************************************************************************)
(* MarketVolumeCollector::collect and publish                              *)
(***************************************************************************)

\* The provider answers with a valid, non-empty map of symbols.
Fetch(p) ==
    /\ At(p, "fetch") /\ clock < MaxFetches
    /\ clock' = clock + 1
    /\ \E count \in Sizes :
          job' = [job EXCEPT ![p] =
                     [@ EXCEPT !.fetched = clock + 1, !.count = count]]
    /\ pc' = [pc EXCEPT ![p] = "guardLength"]
    /\ UNCHANGED <<storeVars, hashLength>>

\* The provider fails, or answers with an empty or malformed map.
FetchFails(p) ==
    /\ At(p, "fetch")
    /\ Move(p, "failed")
    /\ UNCHANGED storeVars

\* guardSnapshotSize, HLEN of the stable key.
GuardLength(p) ==
    LET length == Length(stable[job[p].platform])
    IN  /\ At(p, "guardLength")
        /\ hashLength' = [hashLength EXCEPT ![p] = length]
        /\ pc' = [pc EXCEPT ![p] = IF length = 0 THEN "stage" ELSE "guardMeta"]
        /\ UNCHANGED <<storeVars, clock, job>>

\* Mutant: the guard compares the hash with its own metadata only.
MetaIsConsistent(p) ==
    LET previous == stable[job[p].platform]
    IN  previous # NoSnapshot /\ hashLength[p] = previous.count + 1

\* guardSnapshotSize, HGET __meta__ and the comparisons with it.
MetaAccepts(p) ==
    LET previous == stable[job[p].platform]
    IN  /\ previous # NoSnapshot
        /\ hashLength[p] = previous.count + 1
        /\ LargeEnough(job[p].count, previous.count)

GuardMeta(p) ==
    /\ At(p, "guardMeta")
    /\ Move(p, IF MetaAccepts(p) THEN "stage" ELSE "failed")
    /\ UNCHANGED storeVars

\* MULTI, HMSET of the tmp hash, EXPIRE, EXEC
Stage(p) ==
    /\ At(p, "stage")
    /\ staging' = staging \cup {job[p]}
    /\ Move(p, "checkStaged")
    /\ UNCHANGED <<stable, ttlFrom, marker, foreign>>

\* HLEN of the tmp hash, and its DEL when it is not complete.
CheckStaged(p) ==
    /\ At(p, "checkStaged")
    /\ Move(p, IF job[p] \in staging THEN "rename" ELSE "failed")
    /\ UNCHANGED storeVars

\* MULTI, RENAME, EXPIRE of the stable key, EXEC: a RENAME that finds no tmp
\* hash is an error in the reply, and the EXPIRE after it still runs.
Rename(p) ==
    LET s == job[p].platform
    IN  /\ At(p, "rename")
        /\ IF job[p] \in staging
           THEN /\ stable' = [stable EXCEPT ![s] = Snapshot(job[p])]
                /\ staging' = staging \ {job[p]}
                /\ Move(p, "published")
           ELSE /\ UNCHANGED <<stable, staging>>
                /\ Move(p, "failed")
        /\ ttlFrom' = IF stable'[s] = NoSnapshot THEN ttlFrom
                      ELSE [ttlFrom EXCEPT ![s] = job[p].fetched]
        /\ UNCHANGED <<marker, foreign>>

\* The process ends: it is done, KeyDB fails it, or a signal kills it.
Gone(p) ==
    /\ pc' = [pc EXCEPT ![p] = "idle"]
    /\ job' = [job EXCEPT ![p] = NoJob]
    /\ hashLength' = [hashLength EXCEPT ![p] = 0]
    /\ UNCHANGED <<storeVars, clock>>

Exit(p) == pc[p] \in Ended /\ Gone(p)

Abort(p) == pc[p] \notin Ended \cup {"idle"} /\ Gone(p)

\* temp_ttl_seconds and ttl_seconds run out.
StagingExpires(k) ==
    /\ k \in staging
    /\ staging' = staging \ {k}
    /\ UNCHANGED <<stable, ttlFrom, marker, foreign, clock, procVars>>

SnapshotExpires(s) ==
    /\ stable[s] # NoSnapshot
    /\ stable' = [stable EXCEPT ![s] = NoSnapshot]
    /\ ttlFrom' = [ttlFrom EXCEPT ![s] = 0]
    /\ UNCHANGED <<marker, foreign, staging, clock, procVars>>

Open(p) ==
    \/ GetMarker(p) \/ DbSize(p) \/ RereadMarker(p)
    \/ SetMarker(p) \/ VerifyMarker(p)

Publish(p) ==
    \/ FetchFails(p) \/ GuardLength(p) \/ GuardMeta(p)
    \/ Stage(p) \/ CheckStaged(p) \/ Rename(p)

-----------------------------------------------------------------------------
(***************************************************************************)
(* Properties                                                              *)
(***************************************************************************)

\* A database of another application never gets a key of ours.
ForeignDatabaseUntouched ==
    foreign => /\ marker # "ours" /\ staging = {}
               /\ \A s \in Platforms : stable[s] = NoSnapshot

\* Processes that open a fresh or marked database together are all let in: none
\* takes the marker or the snapshots of another one for foreign data.
NobodyRefused == ~foreign => \A p \in Procs : pc[p] # "refused"

\* A publication that fails leaves the lifetime of the previous snapshot
\* alone: the TTL of a stable key was set by the publication of its data.
FailureKeepsTtl ==
    \A s \in Platforms : stable[s] # NoSnapshot => ttlFrom[s] = stable[s].fetched
=============================================================================
