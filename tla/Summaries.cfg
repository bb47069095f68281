SPECIFICATION SummariesSpec
CONSTANTS
    None = None
    m1 = m1
    m2 = m2
    m3 = m3
    m4 = m4
    Clients = {c1, c2}
    Summarizers = {p1, p2}
    Sessions = {s1, s2}
    Messages = {m1, m2, m3, m4}
    Length <- MixedLengths
    Budget = 4
    Stores = {"local", "s3"}
    Faults = {"error", "lost_reply", "crash"}
SYMMETRY MixedSymmetry
CONSTRAINT SmallInstance
INVARIANTS
    ListedMessagesStored
    AcknowledgedListed
    ContextEndsWithPrompt
    SummaryCoversPrefix
