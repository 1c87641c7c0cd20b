----------------------------- MODULE MCStlDrafts -----------------------------
(* StlDrafts with the symmetry of its tokens, requests and locks.           *)
EXTENDS StlDrafts, TLC

MCSymmetry == Permutations(Token) \cup Permutations(Request) \cup Permutations(Lock)

=============================================================================
