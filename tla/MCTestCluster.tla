---------------------------- MODULE MCTestCluster ----------------------------
EXTENDS TestCluster, TLC

CONSTANTS r1, r2, r3, a, b

\* The test scripts name a file; the words of a job are typed by a user.
MCCalls == a :> <<r1, r2>> @@ b :> <<r3>>
MCGiven == r1 :> {"words", "description", "MAX_DURATION"}
        @@ r2 :> {"file", "MAX_DURATION"}
        @@ r3 :> {"words", "description"}
=============================================================================
