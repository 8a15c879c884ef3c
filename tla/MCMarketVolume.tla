--------------------------- MODULE MCMarketVolume ---------------------------
(***************************************************************************)
(* Two platforms, two processes at a time, snapshots of one and of three   *)
(* symbols, which a ratio of one half separates.                           *)
(***************************************************************************)
EXTENDS MarketVolumeRound
=============================================================================
