\* A switch between two sessions with two instances of one program each.
SPECIFICATION Spec
CONSTANTS
    a = a  b = b  c = c  f = f
    sw = sw  pl = pl  swname = swname
    i1 = i1  i2 = i2  i3 = i3  i4 = i4
    None = None
    Absent = Absent
    Progs = {sw}
    Pretty <- Announced
    Switching = {sw}
    Erring = {}
    Ids = {i1, i2, i3, i4}
    Sessions = {a, b}
    InitFiles <- TwinFiles
    LockedByOther = {}
    ReadOnly = {}
    Unreadable = {}
    LoadAtStart = None
    Pids = {1, 2, 3, 4}
    Outside = {}
    OutsideProg = sw
    MaxClients = 4
    MaxRequests = 2
    MaxDepth = 2
    MaxBacklog = 2
INVARIANT
    NobodyLeftBehind
