SPECIFICATION ServerSpec
CONSTANTS
    c1 = c1
    c2 = c2
    c3 = c3
    e1 = e1
    e2 = e2
    g1 = g1
    g2 = g2
    p1 = p1
    r1 = r1
    r2 = r2
    NoCid = NoCid
    NoEmail = NoEmail
    NoSub = NoSub
    NoPro = NoPro
    Nobody = Nobody
    Cids = {c1, c2, c3}
    Emails = {e1, e2}
    Subs = {g1, g2}
    Workers = {r1, r2}
    Ids = {1, 2}
    Runs = {r1, r2}
    WindowFrom = 1
    WindowTo = 3
    Starts = {3, 5}
    MaxNow = 3
    SlotStep = 1
    DayLength = 8
    DefaultDuration = 2
    Professionals = {p1}
    Capacity = 1
    Owners = {"business", "professional", "services"}
    Keyed = {"services"}
    Business = "business"
    Professional = "professional"
    Items = {"am", "pm"}
    Savers = {r1, r2}
    MaxSaves = 3
    Kinds = {"logo", "gallery"}
    Exclusive = {"logo"}
    None = 0
    MaxAssets = 3
    MaxLinks = 1
    Requests = {r1, r2}
    MaxCodes = 2
    MaxPasswords = 3
    MaxSessions = 2
    MaxRecords = 3
    MaxChanges = 2
    Asks <- Everyone
    RowSets <- MCRowSets
    HourSets <- MCHourSets
    Queries <- MCQueries
SYMMETRY Symmetry
INVARIANTS
    TypesOK
    OneClientPerAccount
    BookingRefusedForCause
    RemindedExactlyOnce
    TwoChances
    OpenSlotPassesTheLock
    OpenSlotKeepsTheGap
    OfferedSlotIsInsideHours
    OneSavePerList
    LogoIsTheLastLinked
    OldSessionsAreExcused
    TrailTellsTheChange
CHECK_DEADLOCK FALSE
