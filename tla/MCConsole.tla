------------------------------- MODULE MCConsole -------------------------------
\* Values for Console.tla: two calls in all, executions or approval requests.
EXTENDS Console
================================================================================
