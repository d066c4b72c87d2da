SPECIFICATION FeedSpec
CONSTANTS
    NoFilter = NoFilter
    NoRow = NoRow
    NoTimer = NoTimer
    Words = {w}
    Verbs = {GET}
    Codes = {200}
    PageLimit = 1
    MaxRows = 2
    MaxCalls = 2
    MaxStack = 2
PROPERTY NextAsksForTheNextPage
