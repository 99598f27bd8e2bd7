SPECIFICATION Spec
CONSTANTS
    Letter = {"A", "a", "b"}
    Digit = {"1"}
    Space = {" "}
    Punct = {"+", "|"}
    Lower <- LowerLetter
    FieldName = {"email", "name", "phone", "note"}
    NoThresholds = NoThresholds
    Extractor = {x1, x2}
    Entity = {e1, e2}
    Types <- PassTypes
    Texts <- DocumentTexts
    TokenLimit = 2
    TopK = 1
    WithEmbedder = TRUE
    MaxExtractions = 3
SYMMETRY Symmetry
INVARIANTS
    AnchorsFindSelf
    TokensFindSelf
    OwnDataDecided
PROPERTY
    NoGuardedOverwrite
CHECK_DEADLOCK FALSE
