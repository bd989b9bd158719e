\* Two windows that save two documents over one path.
CONSTANTS
    Process = {p1, p2}
    Content = {c1, c2}
    Absent = Absent
    Partial = Partial
    MaxSaves = 3
SPECIFICATION Spec
INVARIANTS
    NeverTorn
    NoStrayTemp
PROPERTIES
    RefinesAtomicFile
\* Both processes may end.
CHECK_DEADLOCK FALSE
