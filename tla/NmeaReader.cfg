SPECIFICATION Spec
CONSTANTS
    Svs = {sv1, sv2}
    OtherSvs = {qzss}
    MaxSvs = 2
    SvInfo = 1
    MaxGroup = 2
    MaxGroups = 2
    Faults = {"split", "loss"}
INVARIANT TypeOK
INVARIANT SvReportExact
INVARIANT SvReportCurrent
INVARIANT UsedCurrent
INVARIANT NoFixAfterRestart
SYMMETRY SvSymmetry
