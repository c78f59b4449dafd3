\* Two commands that write up to three lines each into a pipe for one.
SPECIFICATION Spec
CONSTANTS
    Lines = {1, 2}
    MaxLines = 3
    PipeSize = 1
    MaxSignals = 2
INVARIANTS
    OutputIsDuplicates
    SuccessIsComplete
PROPERTIES
    Ends
CHECK_DEADLOCK FALSE
