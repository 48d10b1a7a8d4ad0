SPECIFICATION LiveSpec
CONSTANTS
    Groups = {g1}
    MaxFinger = 2
    FullGrade = 2
    Tries = 2
    SysChecks = 2
    AppChecks = 1
    EmptyChecks = 1
INVARIANT TypeOK
INVARIANT TemplateNotOverwritten
INVARIANT RequestArmed
PROPERTY CallsReturn
PROPERTY EventsEnd
