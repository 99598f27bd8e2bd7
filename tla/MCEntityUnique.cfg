\* Two batches with the same MustNotExist precondition.
CONSTANTS
    Session = {s1, s2}
    Entity = {e1, e2}
    Main = e1
    Other = e2
    Anchor = {a1}
    Tag = {t1}
    Key = {k1}
    Val = {x}
    NoEntity = NoEntity
    NoAnchor = NoAnchor
    NoTag = NoTag
    NoOp = NoOp
    NoView = NoView
    Nobody = Nobody
    Ops <- UniqueOps
    ReuseIds = FALSE
    MaxOps <- OpsPerTx
    Long = {}
    MaxVersion = 1

SPECIFICATION Spec
INVARIANT
    MustNotExistIsUnique
