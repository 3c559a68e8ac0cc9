SPECIFICATION Spec
CONSTANTS
    Line <- Lines
    Target <- Targets
    FileName = {"f", "a"}
    MaxLines = 4
INVARIANTS MadeIsFound CwdExists PanicsExplained
PROPERTIES FailureStopsLine
CHECK_DEADLOCK FALSE
