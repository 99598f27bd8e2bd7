\* Two overlapping replays, a purge and a failed DELETE.
CONSTANTS
    Name = {n1, n2}
    Kind = {k1, k2}
    Replayer = {p1, p2}
    Limit = 2
    MaxRows = 2
    MaxTime = 1
    MaxFaults = 1
SPECIFICATION Spec
INVARIANT
    NoLetterLost
