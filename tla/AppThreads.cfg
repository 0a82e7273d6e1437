CONSTANTS
    Threads = {t1, t2}
    Names = {"=", "TMPDIR", "x"}
    TMPDIR = "TMPDIR"
    MaxValue = 1
    MaxCalls = 3
    MaxDirs = 2
SPECIFICATION Spec
INVARIANTS KeysTrue GetTrue ActionFile NothingLeft
CHECK_DEADLOCK FALSE
