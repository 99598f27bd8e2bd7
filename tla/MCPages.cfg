\* Three entities, and pages of one or two rows.
CONSTANTS
    Tag = {shown}
    NoTag = NoTag
    Shown = shown
    Writer = {w1, w2}
    Entity = {e1, e2, e3}
    Centre = e1
    Filter <- ShownOnly
    Kind = {"byType", "filtered", "from", "to", "events", "follow"}
    PageSizes = {1, 2}
    MaxTime = 3
    MaxWrites = 2
    MaxEvents = 3
SPECIFICATION Spec
SYMMETRY Symmetry
VIEW View
INVARIANTS
    ListedOnce
    FollowSkipsNothing
CHECK_DEADLOCK FALSE
