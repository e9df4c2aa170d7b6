\* One project with a file, all three ways to start, a restart or a second open.
SPECIFICATION Spec
CONSTANTS
    out = out
    in1 = in1
    p1 = p1
    p2 = p2
    NoFile = NoFile
    None = None
    OutPorts = {out}
    InPorts = {in1}
    Projects = {p1, p2}
    DiskAtStart <- DiskAll
    Modes = {"nsm", "monitor", "save"}
    MaxOpens = 3
    RingSize = 3
INVARIANTS
    TypeOK
    ListIsFile
    Restored
PROPERTIES
    CalmSaveForgetsNothing
