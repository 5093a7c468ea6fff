----------------------------- MODULE MCGameOps ------------------------------
EXTENDS GameOps, TLC
CONSTANTS r1, r2, a, b

MCRequests == {r1, r2}
MCAsks == r1 :> {"save", "advanceTime"} @@ r2 :> {"load"}
MCName == r1 :> a @@ r2 :> b
=============================================================================
