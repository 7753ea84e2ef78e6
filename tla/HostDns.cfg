SPECIFICATION Spec
CONSTANTS
    wlo = wlo   amn = amn
    Link <- MCLink
    Optional = {amn}
    Own <- MCOwn
    MaxEvents = 6
INVARIANTS
    TypeOK
    RollbackGivesBack
    FailedApplyRecovers
CHECK_DEADLOCK FALSE
