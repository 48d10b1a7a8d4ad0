SPECIFICATION Spec
CONSTANTS
    Groups = {g1, g2}
    MaxFinger = 1
    FullGrade = 1
    Tries = 2
    SysChecks = 1
    AppChecks = 2
    EmptyChecks = 2
INVARIANT GroupRestricted
