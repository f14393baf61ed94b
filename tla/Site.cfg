SPECIFICATION SiteSpec
CONSTANTS
    None = None
    Unsure = Unsure
    p1 = p1
    s1 = s1
    t1 = t1
    t2 = t2
    k1 = k1
    k2 = k2
    c1 = c1
    c2 = c2
    Services = {s1}
    Professionals = {p1}
    Days = {1, 2, 4}
    Today = 1
    Times = {t1}
    MaxFetches = 1
    Tabs = {t1, t2}
    Ids = {k1, k2}
    CookieSure = 1
    Bookers = {t1}
    Cancellers = {t1}
    MaxAsks = 1
    MaxTokens = 2
    MaxRequests = 2
    PanelTabs = {t1}
    Calls = {c1, c2}
    Sids = {k1, k2}
    MaxSignIns = 2
    MaxUnheard = 1
    Ops = {"login", "read", "profile", "password", "logoutAll", "logout"}
    Weekday <- WeekdayOf
    Catalogs <- Businesses
SYMMETRY Symmetry
INVARIANTS
    TypesOK
    GridIsForTheChoice
    ConfirmWasOffered
    LiveBookingKept
    BookedOncePerAsk
    RefusedForCause
    LogoutEndsTheSignIn
CHECK_DEADLOCK FALSE
