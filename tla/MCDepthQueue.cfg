CONSTANTS
    usdt = usdt
    usdc = usdc
    BTCUSDT = BTCUSDT
    BTCUSDC = BTCUSDC
    Kinds = {"symbol", "key", "id"}
    Differences <- MCDifferences
    SymbolOf <- MCSymbolOf
    Consumers = {c1, c2}
    High = 2
    Chunk = 2
    Batch = 2
    Moving = {usdt}
    MaxBooks = 2
    MaxDeaths = 1
SPECIFICATION Spec
INVARIANT QueueStaysBelowHigh
PROPERTIES
    ItemsAreTaken
    RowsCatchUp
