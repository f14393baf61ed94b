SPECIFICATION Spec
CONSTANTS
    a1 = a1
    a2 = a2
    r1 = r1
    r2 = r2
    Ids = {a1}
    Runs = {r1}
    WindowFrom = 1
    WindowTo = 3
    Starts = {3, 4, 6}
    MaxNow = 5
SYMMETRY Symmetry
INVARIANTS
    RemindedForItsTime
