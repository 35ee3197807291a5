-------------------------- MODULE MCRefreshTokens --------------------------
(* RefreshTokens on small instances; the bounds are in the .cfg files.     *)
EXTENDS RefreshTokens, TLC

CONSTANTS r1, r2, r3, r4, t1, t2, t3, t4, u1

ThreeRequests == {r1, r2, r3}
FourRequests == {r1, r2, r3, r4}
ThreeTokens == {t1, t2, t3}
FourTokens == {t1, t2, t3, t4}
OneUser == {u1}

\* Requests and tokens are interchangeable: safety runs use this.
Symmetry == Permutations(Requests) \cup Permutations(Tokens)
=============================================================================
