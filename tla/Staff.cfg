SPECIFICATION StaffSpec
CONSTANTS
    None = None
    p1 = p1
    p2 = p2
    s1 = s1
    t1 = t1
    ana = ana
    eva = eva
    r1 = r1
    r2 = r2
    Days = {1, 2}
    Appts = {1, 2}
    DayStatuses = {"pending", "cancelled"}
    Fetches = {r1, r2}
    DayActs = 2
    Weekdays = {0, 1}
    BlockTimes = {9, 15}
    DefaultTime = 9
    Dates = {1}
    Caps = {1, 2}
    PageSize = 1
    MaxMade = 2
    MaxEdits = 1
    Statuses = {"confirmed", "cancelled"}
    Requests = {r1, r2}
    MaxActs = 3
    Services = {s1}
    Professionals = {p1, p2}
    BookingDays = {1, 2, 3}
    Times = {t1}
    MaxDrafts = 2
    Texts = {"", "a", "e"}
    Blank = ""
    Sorts = {"visits", "name"}
    Clients = {ana, eva}
    InitialHours <- TwoBlocks
    Catalogs <- Openings
    Names <- NameOf
    Matches <- Found
SYMMETRY Symmetry
INVARIANTS
    TypesOK
    PageIsTruthful
    UntouchedDaysAreKept
    ClosedDaysAreShown
    ListIsThePageAsked
    TimeIsOfTheChoice
    OneBookingPerDraft
    ShowsWhatWasAsked
CHECK_DEADLOCK FALSE
