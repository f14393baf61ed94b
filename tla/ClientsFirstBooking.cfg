SPECIFICATION Spec
CONSTANTS
    c1 = c1
    c2 = c2
    e1 = e1
    e2 = e2
    g1 = g1
    g2 = g2
    w1 = w1
    w2 = w2
    NoCid = NoCid
    NoEmail = NoEmail
    NoSub = NoSub
    Cids = {c1, c2}
    Emails = {e1, e2}
    Subs = {g1, g2}
    Workers = {w1, w2}
    Requests <- Bookings
SYMMETRY Symmetry
INVARIANTS
    UpsertNeverRefused
