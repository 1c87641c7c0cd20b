SPECIFICATION InspectSpec
CONSTANTS
    p1 = p1
    p2 = p2
    p3 = p3
    Payload <- MCPayload
    Size <- MCSize
    Plate = {1, 2}
    Plates <- MCPlates
    SlicedPlates <- MCSlicedPlates
    UseSetPlates <- MCUseSetPlates
    Token = {t1, t2, t3}
    Request = {r1, r2}
    MaxFiles = 2
    MaxBytes = 9
    MaxPartials = 0
    MaxAnswers = 1
INVARIANTS AnswersDoNotMixFiles SlotsMissingOnlyAfterFailure
SYMMETRY MCSymmetry
