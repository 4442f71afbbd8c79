----------------------------- MODULE MCLiveView -----------------------------
(* A small instance of LiveView.                                            *)
EXTENDS LiveView

MCTasks == {"skill"}
=============================================================================
