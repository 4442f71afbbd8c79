--------------------------- MODULE MCAnalysisRun ---------------------------
(* Instances of AnalysisRun: server finds s1 and, from engine's e2, s2;      *)
(* engine finds e1 and, from server's s1, e2; network waits for both.        *)
EXTENDS AnalysisRun

MCTasks == {"s1", "s2", "e1", "e2", "n1"}

MCInputs ==
    [t \in MCTasks |-> CASE t = "s2" -> {"s1", "e2"} [] t = "e2" -> {"s1"}
                         [] t = "n1" -> {"s2", "e1"} [] OTHER -> {}]

On(b, ts) == [binary |-> b, tasks |-> ts]

\* The engine comes twice; what waits for another binary is in its last stage.
LastStage == <<On("network", <<"n1">>), On("engine", <<"e1">>), On("engine", <<"e2">>),
               On("server", <<"s1", "s2">>)>>

\* The engine comes twice, as in configs/14196.yaml.
TwoStages == <<On("engine", <<"e1", "e2">>), On("server", <<"s1", "s2">>),
               On("engine", <<"n1">>)>>

MCOptions == [jobs : {1, 2}, skipError : BOOLEAN]

\* The options of run_linux.sh and run_windows.sh.
Scripts == [jobs : {2}, skipError : {TRUE}]
=============================================================================
