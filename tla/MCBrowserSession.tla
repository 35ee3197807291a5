-------------------------- MODULE MCBrowserSession -------------------------
(* BrowserSession on small instances; the bounds are in the .cfg files.    *)
EXTENDS BrowserSession, TLC

CONSTANTS r1, r2, r3, r4, r5, t1, t2, t3, t4, t5, u1, u2

ThreeRequests == {r1, r2, r3}
FourRequests == {r1, r2, r3, r4}
FiveRequests == {r1, r2, r3, r4, r5}
ThreeTokens == {t1, t2, t3}
FourTokens == {t1, t2, t3, t4}
FiveTokens == {t1, t2, t3, t4, t5}
OneUser == {u1}
TwoUsers == {u1, u2}

\* Requests, tokens and users are interchangeable.
Symmetry == Permutations(Requests) \cup Permutations(Tokens) \cup Permutations(Users)
=============================================================================
