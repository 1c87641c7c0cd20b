SPECIFICATION Spec
CONSTANTS
    Token = {t1, t2}
    Request = {r1, r2}
    Lock = {l1, l2, l3}
    MaxVersion = 3
SYMMETRY MCSymmetry
CHECK_DEADLOCK FALSE
INVARIANTS DraftTypeOK DraftMutualExclusion ShownIsCurrent ExportedIsShown DirectoriesMatch
