\* Two daemons and one session.
SPECIFICATION Spec
CONSTANTS
    a = a  b = b  c = c
    d1 = d1  d2 = d2
    song = song
    h1 = h1  h2 = h2
    None = None
    Daemons = {d1, d2}
    Sessions = {a}
    NameOf <- MCNameOf
    HashOf <- MCHashOf
    InitSaved = {a}
    Unreadable = {}
SYMMETRY DaemonSymmetry
INVARIANT OneDaemonPerSession
