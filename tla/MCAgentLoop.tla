----------------------------- MODULE MCAgentLoop -----------------------------
(* AgentLoop for TLC: the constants are given in the .cfg files.              *)
EXTENDS AgentLoop

\* The intervals of the defaults (main.go: 1s and 2s) or of config.json (1s and
\* 1s), and time for two reports with polls before, between and after them.
Second == 1
TwoSeconds == 2
Horizon == 5
=============================================================================
