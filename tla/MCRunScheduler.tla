-------------------------- MODULE MCRunScheduler ---------------------------
(* Small instances of RunScheduler. *)
EXTENDS RunScheduler

CONSTANTS r1, r2, s1, s2

NoDelays == {}
SlowAnalyzers == {"boot", "outage"}

OneScheduler == {s1}
TwoSchedulers == {s1, s2}
TwoRuns == {r1, r2}
OneRun == {r1}
=============================================================================
