SPECIFICATION Spec
CONSTANTS
    v1 = v1 v2 = v2 v3 = v3
    tok1 = tok1 tok2 = tok2 tok3 = tok3 tok4 = tok4
    None = None Present = Present Gone = Gone
    Pages <- MCPages Entry = "app.py" Versions <- MCVersions
    Names <- TwoNames Ids <- TwoIds Gw <- TwoGw
    Targets <- PlainOnly Tokens <- FourTokens
    PreDirs <- LibOnly PreUsers = {}
    MaxFaults = 0 FaultVerbs <- EveryVerb Torn = {}
    AdminIds = {} AdminNames = {} Writers = {}
SYMMETRY TokenSymmetry
PROPERTIES OthersStateKept
