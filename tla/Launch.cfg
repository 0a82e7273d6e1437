SPECIFICATION Spec
CONSTANTS
    Tokens = {"--", "-o", "--main", "-h", "--force", "-x", "app", "lib"}
    UnknownFlags = {"-x"}
    MaxArgs = 4
    Returns = {0, 7}
INVARIANTS RunsAsTold BadLineFails
CHECK_DEADLOCK FALSE
