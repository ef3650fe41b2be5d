SPECIFICATION Spec
CONSTANTS
    Symbol = {"sceA", "sceB", "util"}
    Hle = {"sceA", "sceB"}
    Path = {"p", "q"}
    Content = {"x", "y"}
    Cpp <- MCCpp
    Upstream <- MCUpstream
    MaxLines = 6
    MaxEdits = 3
    Boots <- MCBoots
    Variants <- MCVariants
    Ring = 2
    MaxModules = 2
    Probed = {2}
    MaxParts = 2
    SuiteRun = {1, 2}
    Switches <- MCSwitches
    Trees <- MCTrees
    Matrices = {"system", "imgui", "passes", "ir"}
    Lowered = {"pad"}
    Required = {"psf"}
    Discovered = {"trp"}
INVARIANTS
    AnchorsStayPut
    DriftSeen
    FirstDivergence
    SuiteGreenIsCurrent
CHECK_DEADLOCK FALSE
