SPECIFICATION Spec
CONSTANTS
    Size = 4
    MaxLine = 6
INVARIANT TypeOK
INVARIANT LinesAreHanded
