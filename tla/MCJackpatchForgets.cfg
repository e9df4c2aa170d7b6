\* A save while ports come and go loses connections.
SPECIFICATION Spec
CONSTANTS
    out = out
    in1 = in1
    p1 = p1
    p2 = p2
    NoFile = NoFile
    None = None
    OutPorts = {out}
    InPorts = {in1}
    Projects = {p1}
    DiskAtStart <- DiskOne
    Modes = {"nsm"}
    MaxOpens = 2
    RingSize = 2
PROPERTIES
    NothingForgotten
