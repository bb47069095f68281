SPECIFICATION MCSpec
CONSTANTS
    None = None
    f = f
    g = g
    Tasks = {t1, t2}
    Stories = {f, g}
    Content <- TwoSources
    Collecting = {2}
    MinInterval <- FirstLimited
    Ttl <- UntilTick
    Score <- TwoScores
    MinScore = 2
    MaxHighlights = 1
    Readers = {r1, r2}
    SourceNames = {"github"}
    Settings = {"standard", "changed", "off"}
    Standard = "standard"
    Enabled <- On
    Missing = Missing
    Topic = "topic"
    Published = {"a", "b", "c"}
    Words = {"t", "u", "v"}
    Answers <- Replies
    TermsOf <- TitleTerms
    BaseScore <- Worth
    AuthorOf <- Writer
    Depths = {0, 3}
    MaxFindings = 2
    MaxFeedback = 1
    Broken = Broken
INVARIANTS
    CacheHoldsAnswers
    RunsConfigured
    ReportsSound
PROPERTIES
    RequestsSpaced
    OutageErasesNothing
    GetNeverReplaces
    CyclesEnd
