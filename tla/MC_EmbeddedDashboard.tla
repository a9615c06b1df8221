------------------------ MODULE MC_EmbeddedDashboard ------------------------
EXTENDS EmbeddedDashboard, TLC
CONSTANTS j1, j2, r1, r2

MC_JobOf == (r1 :> j1) @@ (r2 :> j1)
MC_LastLevel == (r1 :> Gone) @@ (r2 :> Running)
MC_Bounds ==
    { [calls |-> {"p1", "u1", "u2"},       clicks |-> 3, fails |-> 0],
      [calls |-> {"p1", "u1", "c1", "c2"}, clicks |-> 2, fails |-> 0],
      [calls |-> {"p1", "u1", "c1"},       clicks |-> 3, fails |-> 0],
      [calls |-> {"p1", "u1", "c1"},       clicks |-> 2, fails |-> 1] }
=============================================================================
