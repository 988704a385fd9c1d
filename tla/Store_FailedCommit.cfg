SPECIFICATION Spec
CONSTANTS
    Procs = {p1}
    Free = free
    Migrations = {1, 2, 3, 4}
    Creates <- MCCreates
    Names <- MCNames
    Rows <- MCRows
    Kinds <- MCKinds
    Script <- MCScript
    Level <- MCLevel
    Events = {e1}
    Contents = {c1, c2}
    Nothing = nothing
    MaxScopes = 2
    MaxCrashes = 0
    MaxBadCommits = 1
INVARIANTS
    RolledBackOnAnyException
