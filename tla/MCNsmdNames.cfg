\* A program of three clients that nsmd can start only two of, a session that
\* needs one client, and a process of that program started by hand.
SPECIFICATION Spec
CONSTANTS
    a = a  b = b  c = c  f = f
    sw = sw  pl = pl  swname = swname
    i1 = i1  i2 = i2  i3 = i3  i4 = i4
    None = None
    Absent = Absent
    Progs = {sw}
    Pretty <- Announced
    Switching = {sw}
    Erring = {}
    Ids = {i1, i2, i3}
    Sessions = {a, b}
    InitFiles <- TripletFiles
    LockedByOther = {}
    ReadOnly = {}
    Unreadable = {}
    LoadAtStart = a
    Pids = {1, 2, 3}
    Outside = {3}
    OutsideProg = sw
    MaxClients = 0
    MaxRequests = 1
    MaxDepth = 1
    MaxBacklog = 1
INVARIANT
    UniqueProjects
