SPECIFICATION Spec
CONSTANTS
    NoFilter = NoFilter
    NoRow = NoRow
    NoTimer = NoTimer
    Words = {w}
    Verbs = {GET}
    Codes = {200}
    PageLimit = 1
    MaxRows = 2
    MaxCalls = 2
    MaxStack = 1
    NoText = NoText
    Sessions <- MCSessions
    RowsOf <- MCRowsOf
    PageSize = 1
    NoSession = NoSession
    NoStep = NoStep
    MaxTraces = 2
    MinDetails = 2
    MinLedger = 1
    Nudge = 1
    BigNudge = 1
    DefaultWidth = 2
    Containers = {0, 2, 3}
    Drags = {5}
    NoWidth = NoWidth
    Garbage = Garbage
    NoId = NoId
    NoCell = NoCell
    c1 = c1
    s1 = s1
    s2 = s2
    s3 = s3
    m1 = m1
    m2 = m2
    Logged = {1, 2, 3}
    MessagesOf <- MCMessagesOf
    NoDetail = NoDetail
    MaxTimers = 1
    Models <- MCModels
    EndpointOf <- MCEndpointOf
    NoModel = NoModel
    NoCatalog = NoCatalog
    NoResult = NoResult
    Periods = {"today", "week"}
    NoData = NoData
    MaxLoads = 3
    SessionOf <- MCSessionOf
    Tours <- MCTours
    MaxHistory = 3
INVARIANTS
    TypeOK
    BackIsCurrent
    LaterPagesAreFull
    TurnKeysDistinct
    ShownIsRoutes
    PanesFit
    CursorIsRestored
    RunIsSelected
    ChartAgrees
PROPERTIES
    FocusShowsStep
    PagesSettle
