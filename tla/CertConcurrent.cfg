CONSTANTS
    Star = "*"
    Absent = Absent
    Labels <- MCLabels
    Names <- MCNames
    Callers = {c1, c2}
    Maintainer = maint
    Asked <- MCAsked
    HostLife = 1
    CALife = 1
    MaxNow = 2
    DbFails = TRUE
SPECIFICATION Spec
SYMMETRY MCSymmetry
CONSTRAINT MCBusy
INVARIANTS TypeOK ServedCovers CASaved CertInv
