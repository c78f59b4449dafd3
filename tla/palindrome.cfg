\* Lines of up to four characters are judged, one of them a capital letter.
SPECIFICATION Spec
CONSTANTS
    MaxInputLen = 5
    Chars = {"a", "A", "b", " "}
    Space = " "
    Newline = "newline"
    Nul = "nul"
    Lower <- MCLower
    Outside = {"nul", "a"}
    MaxArgs = 3
INVARIANTS
    VerdictRight
PROPERTIES
    EndsAfterSigint
CHECK_DEADLOCK FALSE
