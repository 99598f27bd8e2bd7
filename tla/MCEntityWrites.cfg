\* Two entities, one anchor, every kind of operation; transactions of two
\* operations against transactions of one.
CONSTANTS
    Session = {s1, s2}
    Entity = {e1, e2}
    Main = e1
    Other = e2
    Anchor = {a1}
    Tag = {t1}
    Key = {k1}
    Val = {x}
    NoEntity = NoEntity
    NoAnchor = NoAnchor
    NoTag = NoTag
    NoOp = NoOp
    NoView = NoView
    Nobody = Nobody
    Ops <- AllOps
    ReuseIds = FALSE
    MaxOps <- OpsPerTx
    Long = {s1}
    MaxVersion = 2

SPECIFICATION Spec
INVARIANTS
    TypeOK
    NoLostUpdate
    VersionCountsEvents
PROPERTY
    RefinesRegister
