--------------------------- MODULE MCAutomationRuns ---------------------------
(* An instance of AutomationRuns: runs that ask for everything.                *)
EXTENDS AutomationRuns, TLC

FullShape == [r \in Runs |-> [build |-> TRUE, flash |-> TRUE, aoa |-> TRUE]]
TestOnly == [r \in Runs |-> [build |-> FALSE, flash |-> FALSE, aoa |-> FALSE]]
================================================================================
