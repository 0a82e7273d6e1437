SPECIFICATION MCFairSpec
CONSTANTS
    Objects = {registry, weak, other}
    Registry = registry
    Weak = weak
    Other = other
    None = None
INVARIANTS WalkInv MarksAlive ReferrersComplete ThreadsHaveSource
PROPERTIES Ends
CHECK_DEADLOCK FALSE
