\* Graphs of four entities and up to three relations.
CONSTANTS
    Tag = {hidden, exempt}
    NoTag = NoTag
    Hidden = hidden
    Exempt = exempt
    RelType = {knows}
    Scope <- HidingScope
    MaxDepth = 2
    MaxResults = 2
    PageSize = 2
    MaxTime = 2
    Entity = {a, b, c, d}
    MaxRelations = 3
    MaxHidden = 1
SYMMETRY Symmetry
SPECIFICATION Spec
INVARIANTS
    TypeOK
    NearestEntitiesFirst
    OneHopAgrees
