SPECIFICATION Spec
CONSTANTS
    Names = {"a", "b", "c", "app"}
    x = x
    y = y
    z = z
    Blocks = {x, y, z}
    Contents <- Texts
    Unreadable = {}
    Directory = Directory
    Nil = Nil
    Bases <- OneBase
    TreePaths <- DeepTree
    Paths <- DeepPaths
    Dotted = {"c"}
    LuaNames = {"a"}
    BadLua <- BadTexts
    MaxEdits = 1
    MaxFaults = 1
INVARIANTS EntriesListable EntriesTrue PackedReadsTheSame
CHECK_DEADLOCK FALSE
