\* Two sessions to switch between, one held by another nsmd.
SPECIFICATION Spec
CONSTANTS
    a = a  b = b  c = c  f = f
    sw = sw  pl = pl  swname = swname
    i1 = i1  i2 = i2  i3 = i3  i4 = i4
    None = None
    Absent = Absent
    Progs = {sw, pl}
    Pretty <- Announced
    Switching = {sw}
    Erring = {pl}
    Ids = {i1, i2}
    Sessions = {a, b, f}
    InitFiles <- SwitchFiles
    LockedByOther = {f}
    ReadOnly = {}
    Unreadable = {}
    LoadAtStart = None
    Pids = {1, 2}
    Outside = {}
    OutsideProg = sw
    MaxClients = 2
    MaxRequests = 3
    MaxDepth = 2
    MaxBacklog = 2
INVARIANTS
    TypeOK
    OneOperation
    LockOnlyForOpenSession
    LockHeldWhileOpen
    LoadServesEveryEntry
    OthersKeepTheirSessions
    NoVainWait
PROPERTIES
    KeepsItsPromise
    ProjectsStayApart
