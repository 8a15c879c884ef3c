CONSTANTS
    btc = btc
    eth = eth
    gone = gone
    Profiles <- Exchanges
    Markets <- MCMarkets
    Listed = {btc, eth}
    Moving = {btc}
    RequestSize = 2
    PipelineBatch = 4
    MaxOnce = 300
    MaxFrames = 2
    MaxRetry = 1
    MaxChanges = 2
    MaxWire = 2
SPECIFICATION BooksSpec
INVARIANTS
    BufferIsBounded
    OnlyUnknownDropped
    NoMarketForgotten
    LocalBookExisted
PROPERTIES
    StoredNeverOlder
    NothingFromEarlierLink
    SilentLinksAreLeft
    KnownMarketsServed
