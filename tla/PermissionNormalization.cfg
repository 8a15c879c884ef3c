CONSTANT CatalogCodes = {"view", "edit", "renew"}
SPECIFICATION Spec
INVARIANTS RecursionIsBounded ComputesNormalForm RemovalWins
CHECK_DEADLOCK FALSE
