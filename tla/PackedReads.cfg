SPECIFICATION Spec
CONSTANTS
    Names = {"a", "b", "c", "app"}
    x = x
    y = y
    z = z
    Blocks = {x, y, z}
    Contents <- Texts
    Unreadable = {}
    Directory = Directory
    Nil = Nil
    Bases <- OneBase
    TreePaths <- WideTree
    Paths <- WidePaths
    Dotted = {}
    LuaNames = {"a"}
    BadLua <- BadTexts
    MaxEdits = 0
    MaxFaults = 0
INVARIANTS PackedReadsAsFolders
CHECK_DEADLOCK FALSE
