CONSTANTS
    Services = {s1}
    NoService = NoService
    MaxSpawns = 2
    MaxStarts = 1
    MaxControls = 2
SPECIFICATION FairSpec
INVARIANTS OneDispatcher BatonsLive
PROPERTIES ControlSpec EndReported LoopDrains StopsWhenTold RefusedForReason
CHECK_DEADLOCK FALSE
