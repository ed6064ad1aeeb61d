SPECIFICATION Spec
CONSTANTS
    Names <- ThreeNames Hash <- MCHash None = None
    Base = 10 Span = 2 GwOffset = 2
    Procs = {p1, p2, p3} Inodes = {i1, i2, i3, i4}
    OneOperator = TRUE
SYMMETRY ProcSymmetry
INVARIANTS TypeOK MutualExclusion NothingLost PortsDistinct
PROPERTIES Atomic
