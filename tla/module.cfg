CONSTANTS
    f1 = f1
    f2 = f2
    f3 = f3
    Cpus = {p1, p2, p3}
    Flows = {f1, f2, f3}
    Nodes = {n1, n2}
    NoNode = NoNode
    NoFlow = NoFlow
    Buckets = 2
    Hash <- MCHash
    SynsInTurn = TRUE
    Memory = {TRUE}
    QuietAdmin = TRUE
CHECK_DEADLOCK FALSE
SPECIFICATION ModuleSpec
SYMMETRY Symmetry
INVARIANTS ModuleTypeOK TableLive NothingLeft OneEntryPerFlow
PROPERTIES  SizeKept ImplementsFlowSet
