CONSTANTS
    Services = {s1, s2}
    NoService = NoService
    MaxSpawns = 1
    MaxStarts = 2
    MaxControls = 2
SPECIFICATION Spec
INVARIANTS TypeOK ControlInv AnswersMatch ArgsAlive
PROPERTIES DrainedAtEnd
CHECK_DEADLOCK FALSE
