\* A program that can switch and has an optional GUI, and one that never
\* announces itself; two ids, two sessions; one click of the GUI in flight.
SPECIFICATION Spec
CONSTANTS
    a = a  b = b
    sw = sw  swname = swname  pl = pl
    i1 = i1  i2 = i2
    None = None
    Progs = {sw, pl}
    Pretty <- MCPretty
    Switching = {sw}
    HavingGui = {sw}
    Dumb = {pl}
    Ids = {i1, i2}
    Sessions = {a, b}
    Contents <- MCContents
    MaxClients = 2
    MaxQueue = 0
    MaxClicks = 1
    MaxAmiss = 0
SYMMETRY Symmetry
CONSTRAINT Followed
INVARIANTS
    TypeOK
    MirrorOfClients
    SessionShown
