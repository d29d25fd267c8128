SPECIFICATION Spec
CONSTANTS
    Reading <- MCReading
    Figures <- MCFigures
    MarketOf <- MCMarketOf
    SectorOf <- MCSectorOf
    MaxCandidates = 2
    MaxPerSector = 1
    MinScore = 2000
    Universe <- MCUniverse
    Holdings <- MCHoldings
    Moments <- MCMoments
    StrategySettings <- MCStrategySettings
    VixReadings <- MCVixReadings
    Verdict <- MCVerdict
    Channels = {"webhook", "slack"}
    CommandsRun = {"screen_only"}
    PerCall = 2
    MaxRows = 1
    MaxWant = 4
    BtUniverse <- MCUniverse
    Worlds <- MCWorlds
    VixHistories <- MCVixTurns
    BtNames <- MCBtNames
    RebalanceBars = 2
    TopN = 2
    Closes <- MCCloses
    Quotes = {60, 72}
    Records <- MCRecords
    Horizons = {1, 2}
    Primary = 2
    Window = 3
INVARIANTS
    KnowsOnlyThePast
CHECK_DEADLOCK FALSE
