--------------------------- MODULE MCInspectService ---------------------------
(* InspectService on a sliced payload (p1), one that is partly sliced (p2)   *)
(* and one that is not sliced and has a plate without objects (p3).         *)
EXTENDS InspectService

CONSTANTS p1, p2, p3

MCPayload == {p1, p2, p3}

MCSize == [p \in MCPayload |-> 1]

MCPlates == (p1 :> {1}) @@ (p2 :> {1, 2}) @@ (p3 :> {1, 2})

MCSlicedPlates == (p1 :> {1}) @@ (p2 :> {1}) @@ (p3 :> {})

MCUseSetPlates == (p1 :> {1}) @@ (p2 :> {1, 2}) @@ (p3 :> {1})

MCSymmetry == Permutations(Token) \cup Permutations(Request)

=============================================================================
