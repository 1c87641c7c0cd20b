SPECIFICATION FairSpec
CONSTANTS
    Token = {t1}
    Request = {r1, r2, r3}
    Lock = {l1, l2}
    MaxVersion = 2
CHECK_DEADLOCK FALSE
PROPERTY EveryRequestEnds
