\* Two daemons; a session, one of the same name that cannot be read, and one whose
\* lock file has the same name by chance.
SPECIFICATION Spec
CONSTANTS
    a = a  b = b  c = c
    d1 = d1  d2 = d2
    song = song
    h1 = h1  h2 = h2
    None = None
    Daemons = {d1, d2}
    Sessions = {a, b, c}
    NameOf <- MCNameOf
    HashOf <- MCHashOf
    InitSaved = {a, b}
    Unreadable = {b}
SYMMETRY DaemonSymmetry
INVARIANTS
    TypeOK
    Exclusive
    NewSessionIsFree
    LocksHaveHolders
PROPERTIES
    LockIsItsWriters
