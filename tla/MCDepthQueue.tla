---------------------------- MODULE MCDepthQueue ----------------------------
(***************************************************************************)
(* One row: BTCUSDT on one exchange against BTCUSDC on another.            *)
(***************************************************************************)
EXTENDS DepthQueue

CONSTANTS usdt, usdc, BTCUSDT, BTCUSDC

MCDifferences == <<[buy |-> usdt, sell |-> usdc]>>
MCSymbolOf ==
    [k \in {usdt, usdc} |-> IF k = usdc THEN BTCUSDC ELSE BTCUSDT]
=============================================================================
