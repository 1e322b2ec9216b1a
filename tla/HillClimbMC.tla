----------------------------- MODULE HillClimbMC -----------------------------
(* A small instance of HillClimb: a job of five proposals with patience three.
   Scores are counted in halves of the mean reward; a reward of one half
   already counts as passed (executor/harbor.py:208), so that score comes with
   and without all tasks passed. *)
EXTENDS HillClimb

MCOutcomes == { [score |-> 0, allPassed |-> FALSE],
                [score |-> 1, allPassed |-> FALSE],
                [score |-> 1, allPassed |-> TRUE],
                [score |-> 2, allPassed |-> FALSE],
                [score |-> 2, allPassed |-> TRUE] }
=============================================================================
