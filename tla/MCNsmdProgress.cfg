\* A write-protected template session, one whose file cannot be read, and a
\* client started outside of nsmd.
SPECIFICATION FairSpec
CONSTANTS
    a = a  b = b  c = c  f = f
    sw = sw  pl = pl  swname = swname
    i1 = i1  i2 = i2  i3 = i3  i4 = i4
    None = None
    Absent = Absent
    Progs = {pl}
    Pretty <- Announced
    Switching = {}
    Erring = {pl}
    Ids = {i1, i2}
    Sessions = {a, b, c}
    InitFiles <- TemplateFiles
    LockedByOther = {}
    ReadOnly = {a, c}
    Unreadable = {b}
    LoadAtStart = None
    Pids = {1, 2}
    Outside = {1}
    OutsideProg = pl
    MaxClients = 2
    MaxRequests = 2
    MaxDepth = 2
    MaxBacklog = 1
PROPERTIES
    OperationsEnd
    DeathNoticed
