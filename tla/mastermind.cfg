\* Three slots of four colors.
SPECIFICATION Spec
CONSTANTS
    Slots = 3
    ColorBits = 2
    MaxTries = 3
    MaxLate = 1
    MaxSignals = 1
    Garbage <- MCGarbage
INVARIANTS
    AnswerIsMastermind
    SecretStaysPossible
    SameVerdict
PROPERTIES
    GameEnds
