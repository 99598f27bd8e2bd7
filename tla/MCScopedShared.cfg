\* Scopes that share a filter and disagree on what they append to it.
CONSTANTS
    Tag = {acme, other, private}
    NoTag = NoTag
    Acme = acme
    Other = other
    Private = private
    Reader = {plain, wide, open, long}
    Plain = plain
    Wide = wide
    Open = open
    Long = long
    Require <- Required
    Unless <- Exempted
    Scope <- Scopes
    Filter <- NoFilter
    Spare <- Room
    MaxResults = 1
    Entity = {e1, e2}
SYMMETRY Symmetry
SPECIFICATION Spec
INVARIANTS
    ScopedReadsExact
    SearchSound
