SPECIFICATION FairSpec
CONSTANTS
    None = None
    Directory = Directory
    Symlink = Symlink
    Outside = Outside
    Short = Short
    v1 = v1
    v2 = v2
    Entry = "app.py"
    Root <- root Index <- index PagePaths <- MCPagePaths Paths <- MCPaths
    Size <- MCSize MaxPayload = 2
    Trees <- MCTrees Initial <- MCInitial Scripts <- MCScripts Expressions <- MCExpressions
    Bindings <- MCBindings
    MaxEdits = 2 MaxFaults = 2
INVARIANTS TypeOK Delivered NoLeftovers Vetted AcceptsServers
PROPERTIES WholePages FailsForCause Converges
CHECK_DEADLOCK FALSE
