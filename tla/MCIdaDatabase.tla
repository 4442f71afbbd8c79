---------------------------- MODULE MCIdaDatabase ----------------------------
(* IdaDatabase with its constants given in the configuration.               *)
EXTENDS IdaDatabase
=============================================================================
