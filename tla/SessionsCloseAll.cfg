SPECIFICATION Spec
CONSTANTS
    s1 = s1
    s2 = s2
    s3 = s3
    w1 = w1
    w2 = w2
    NoSid = NoSid
    Sids = {s1, s2}
    Workers = {w1, w2}
    Requests <- CloseRequests
SYMMETRY Symmetry
INVARIANTS
    ClosedDevicesStayClosed
