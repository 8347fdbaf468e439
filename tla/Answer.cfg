SPECIFICATION FairSpec
CONSTANTS
    w1 = w1  a = a  b = b  p1 = p1  p2 = p2  p3 = p3
    Workers = {w1}
    Urls = {a, b}
    Pages = {p1, p2, p3}
    At <- PageAt
    Outcomes <- PageOutcomes
    Repos <- InOrder
    Precompiled <- Compiled
    FileUrls = {b}
    TextUrls = {a}
    LengthMax = 2
    CompressMin = 1
    KeepAliveMax = 2
    ChangeMax = 1
    NoPage = NoPage
    NoUrl = NoUrl
INVARIANTS FirstRepository   BuffersFreed PagesDeletedOnce
PROPERTIES AnswerEnds
CHECK_DEADLOCK FALSE
