----------------------------- MODULE MCMonitor ------------------------------
(* Monitor on one watchpoint number, one expression and every build.       *)
EXTENDS Monitor
AllBuilds == SUBSET {"DEBUG", "DIFF_TEST", "HAS_IOE"}
DefaultBuild == {{"DEBUG"}}
=============================================================================
