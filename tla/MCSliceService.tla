---------------------------- MODULE MCSliceService ----------------------------
(* SliceService with a plain and a streamed request over two uploads.       *)
EXTENDS SliceService

CONSTANTS model, other, out1, out2, r1, r2

MCPayload == {model, other, out1, out2}

MCSize == [p \in MCPayload |-> 1]

MCUpload == {model, other}

MCRequest == {r1, r2}

MCStreams == {r2}

MCSliceOf == (r1 :> out1) @@ (r2 :> out2)

=============================================================================
