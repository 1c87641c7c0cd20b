SPECIFICATION SliceSpec
CONSTANTS
    model = model
    other = other
    out1 = out1
    out2 = out2
    r1 = r1
    r2 = r2
    Payload <- MCPayload
    Size <- MCSize
    Upload <- MCUpload
    Request <- MCRequest
    Streams <- MCStreams
    SliceOf <- MCSliceOf
    Token = {t1, t2, t3, t4}
    MaxFiles = 2
    MaxBytes = 9
    MaxPartials = 0
INVARIANTS AnswerIsOwnUnlessShared NoProcessOutlivesAnswer
PROPERTY PlainSliceAnswered
