------------------------------ MODULE MCTestPlans ------------------------------
(***************************************************************************)
(* Instance of TestPlans for TLC.  The processes that tick are             *)
(* interchangeable.                                                        *)
(***************************************************************************)
EXTENDS TestPlans, TLC

\* A plan that goes on after failures, and a paused one that would stop.
MCSettings ==
  {[enabled |-> TRUE, timed |-> TRUE, stop |-> FALSE, steps |-> 2],
   [enabled |-> TRUE, timed |-> TRUE, stop |-> TRUE, steps |-> 1],
   [enabled |-> FALSE, timed |-> TRUE, stop |-> TRUE, steps |-> 2]}

\* The runs of a batch that has ended are never read again: a tick that still
\* holds one of them finds it decided, and a listed row that names one is no
\* longer current.  States that differ only there are one state.
LiveState ==
  <<plan, [b \in Batches |->
             IF batches[b].status \in Open THEN batches[b]
             ELSE [occurrence |-> batches[b].occurrence, version |-> batches[b].version]],
    [r \in Runs |-> IF batches[runs[r].batch].status \in Open THEN runs[r] ELSE 0],
    clock, tick, deaths>>

Symmetry == Permutations(Tickers)

================================================================================
