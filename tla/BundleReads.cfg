SPECIFICATION ReadsSpec
CONSTANTS
    Names = {"a", "b"}
    x = x
    y = y
    z = z
    Blocks = {x, y, z}
    Contents <- Texts3
    Unreadable <- LockedTexts
    Directory = Directory
    Nil = Nil
    Bases <- TwoBases
    TreePaths <- WideTree
    Paths <- WidePaths
    Dotted = {}
    LuaNames = {"a"}
    BadLua <- BadTexts
    MaxEdits = 0
    MaxFaults = 0
    MaxInputs = 3
    MaxParts = 2
INVARIANTS JoinsStepwise WalksForward RelativeStaysInBase LayersAreOneFolder UpperFileWins ListedIsThere RerootedReadsBelow
CHECK_DEADLOCK FALSE
