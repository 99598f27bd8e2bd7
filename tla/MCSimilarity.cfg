SPECIFICATION Spec
CONSTANTS
    Letter = {"A", "a", "b"}
    Digit = {"1"}
    Space = {" "}
    Punct = {"+", "|"}
    Lower <- LowerLetter
    Alphabet = {"A", "a", "b", "1", " ", "+"}
    Core = {"a", "b", " "}
    MaxLen = 3
    MaxCoreLen = 4
INVARIANTS
    EditDistanceExact
    JaroMatchesMaximum
    ScoresAreSimilarities
    NormalizersStable
CHECK_DEADLOCK FALSE
