SPECIFICATION MCSpec
CONSTANTS
    m1 = m1
    m2 = m2
    m3 = m3
    ann = ann
    Anne = Anne
    bo = bo
    cy = cy
    di = di
    Calls = {c1, c2}
    Sessions = {s1}
    Messages = {m1, m2, m3}
    Length <- Lengths
    ReplyLength = 1
    Budget = 3
    MaxSize = 2
    Ttl = 2
    MaxRetries = 1
    MaxMessages = 6
    Names = {ann, Anne, bo, cy, di}
    Key <- KeyOf
    Extractions <- Texts
    MaxId = 4
    MaxLinks = 4
    MaxEntities = 3
    MaxRelationships = 3
    Hits <- MemoriesFound
    Parts = {"hi", "be"}
    Conversations <- Asking
    Similar <- Alike
    TextLength <- LengthOf
    Heading = 20
    Mark = 8
    RankLimit = 3
    TokenBudget = 25
    MinRelevance = 90
    MaxHits = 4
    Sources <- AnySource
    MemoryHits <- OffersFound
    Entities <- NamesFound
    Words <- AllWords
    SuggestionLimit = 3
    LeastRelevance = 60
INVARIANTS
    OpenQuestionsInProgress
    PromptHasQuestion
    CachedRepliesSound
    GraphClosed
    ContextSound
    BestMemoriesInjected
    SelectionsBest
PROPERTIES
    ChatsEnd
