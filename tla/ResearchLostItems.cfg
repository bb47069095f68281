SPECIFICATION FairSpec
CONSTANTS
    None = None
    f = f
    g = g
    Tasks = {t1}
    Stories = {f, g}
    Content <- OneSource
    Collecting = {}
    MinInterval <- OneLimit
    Ttl <- OneLimit
    Score <- OneScore
    MinScore = 1
    MaxHighlights = 1
PROPERTIES
    DayKeepsItems
