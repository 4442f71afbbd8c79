-------------------------- MODULE MCProcessReporter --------------------------
(* A small instance of ProcessReporter: one node of the plan, which is      *)
(* counted, and one job, which is not.                                      *)
EXTENDS ProcessReporter

MCTasks == {"skill", "job"}
MCCounted == {"skill"}
=============================================================================
