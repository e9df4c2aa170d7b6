\* A program killed by a signal that handle_sigchld does not ask for.
SPECIFICATION Spec
CONSTANTS
    MaxChildren = 2
    None = None
INVARIANTS
    PidMeansRunning
