SPECIFICATION Spec
CONSTANTS
    p1 = p1
    p2 = p2
    p3 = p3
    p4 = p4
    Payload <- MCPayload
    Size <- MCSize
    Token = {t1, t2, t3, t4, t5, t6}
    MaxFiles = 3
    MaxBytes = 5
    MaxPartials = 1
INVARIANTS TypeOK IndexConsistent CapsRespected
PROPERTIES EvictionIsMinimalLRU ImplementsStore
SYMMETRY TokenSymmetry
