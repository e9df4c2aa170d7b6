\* Three children at a time: a window, the program, and room for a second copy.
SPECIFICATION Spec
CONSTANTS
    MaxChildren = 3
    None = None
CONSTRAINT
    OneWindow
INVARIANTS
    TypeOK
    ProgramNotLost
    NothingOutlives
    WindowStateTold
PROPERTIES
    ProgramEndsProxy
