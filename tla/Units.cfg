SPECIFICATION Spec
CONSTANTS
    v1 = v1 v2 = v2 v3 = v3
    tok1 = tok1 tok2 = tok2 tok3 = tok3 tok4 = tok4
    None = None Present = Present Gone = Gone
    Pages <- MCPages Entry = "app.py" Versions <- MCVersions
    Names <- ThreeNames Ids <- ThreeIds Gw <- ThreeGw
    Targets <- PlainOnly Tokens <- FourTokens
    PreDirs <- LibOnly PreUsers = {"c-gw"}
    MaxFaults = 1 FaultVerbs = {"userdel"} Torn = {}
    AdminIds = {} AdminNames = {} Writers <- OneName
SYMMETRY TokenSymmetry
PROPERTIES UnitsIsolated DataKept ForeignKept
