SPECIFICATION Spec
CONSTANTS
    w1 = w1
    w2 = w2
    a1 = a1
    a2 = a2
    p1 = p1
    s1 = s1
    t1 = t1
    NoPro = NoPro
    NoWorker = NoWorker
    NoId = NoId
    NoService = NoService
    NoToken = NoToken
    SlotStep = 1
    DayLength = 8
    DefaultDuration = 2
    Workers = {w1}
    Ids = {a1, a2}
    Capacity = 1
    Professionals = {p1}
    Services = {s1}
    Catalog <- MCCatalog
    Offers <- MCOffers
    Hours <- MCHours
    Tokens = {t1}
    Requests <- EveryRequest
SYMMETRY Symmetry
INVARIANTS
    TypeOK
    CapacityRespected
    UsedSessionHasBooking
PROPERTY
    ImplementsAgenda
