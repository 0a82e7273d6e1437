CONSTANTS
    Commands = {p1, p2}
    Loop = Loop
    MaxControls = 3
SPECIFICATION Spec
INVARIANTS StopTold HandlesClosed SelfControlFails
PROPERTIES ControlsServed
CHECK_DEADLOCK FALSE
