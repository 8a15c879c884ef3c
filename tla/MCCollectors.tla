---------------------------- MODULE MCCollectors ----------------------------
(***************************************************************************)
(* Three markets, the second unknown to the exchange, in two requests.     *)
(***************************************************************************)
EXTENDS BigoneCollector

CONSTANTS btc, eth, gone

MCMarkets == <<btc, gone, eth>>
MCMexc == {Mexc}
=============================================================================
