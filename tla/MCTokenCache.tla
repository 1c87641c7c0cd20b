---------------------------- MODULE MCTokenCache ----------------------------
(* TokenCache on four payloads, one of them larger than the byte cap.  By   *)
(* count three entries fit; the three small ones miss the byte cap by one,  *)
(* so that each loop has work the other has not done.                       *)
EXTENDS TokenCache

CONSTANTS p1, p2, p3, p4

MCPayload == {p1, p2, p3, p4}

MCSize == (p1 :> 1) @@ (p2 :> 2) @@ (p3 :> 3) @@ (p4 :> 7)

TokenSymmetry == Permutations(Token)

=============================================================================
