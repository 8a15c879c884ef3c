-------------------------- MODULE MarketVolumeBoard --------------------------
(***************************************************************************)
(* What the readers of the 24-hour turnover are promised: for every        *)
(* platform one complete snapshot or none, replaced at once by a later     *)
(* fetch that is not suspiciously smaller, and gone after its lifetime.    *)
(***************************************************************************)
EXTENDS Naturals

CONSTANTS
    Platforms,      \* CurrencyQuotation::$platform_text, ordered by id
    NoSnapshot,     \* a platform without a stable key
    Sizes,          \* symbol counts of fetched snapshots
    MinRatioPercent \* min_snapshot_ratio of config/market_volume.php

\* A snapshot: when its data were fetched and how many symbols it has.
Snapshots == [fetched : Nat \ {0}, count : Sizes]

ASSUME BoardAssumption ==
    /\ Platforms \subseteq Nat \ {0}
    /\ Sizes \subseteq Nat \ {0}
    /\ MinRatioPercent \in 1 .. 100
    /\ NoSnapshot \notin Snapshots

\* guardSnapshotSize: a new count against the one in the stable key.
LargeEnough(count, previous) == count * 100 >= previous * MinRatioPercent

VARIABLE stable     \* stable[s]: the hash market_volume:v1:platform:<s>:usdt

BoardInit == stable \in [Platforms -> Snapshots \cup {NoSnapshot}]

\* The stable key of s goes to some snapshot that may replace the present one.
BoardPublish(s) ==
    /\ stable'[s] \in Snapshots
    /\ stable[s] # NoSnapshot =>
           /\ stable'[s].fetched > stable[s].fetched
           /\ LargeEnough(stable'[s].count, stable[s].count)
    /\ stable' = [stable EXCEPT ![s] = stable'[s]]

BoardExpire(s) ==
    /\ stable[s] # NoSnapshot
    /\ stable' = [stable EXCEPT ![s] = NoSnapshot]

BoardNext == \E s \in Platforms : BoardPublish(s) \/ BoardExpire(s)

BoardSpec == BoardInit /\ [][BoardNext]_stable
=============================================================================
