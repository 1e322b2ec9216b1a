---------------------------- MODULE JobProcessorMC ----------------------------
(* Small instances of JobProcessor. Scores as in HillClimbMC: a score of one
   half of the mean reward comes with and without all tasks passed. *)
EXTENDS JobProcessor

MCOutcomes == { [score |-> 0, allPassed |-> FALSE],
                [score |-> 1, allPassed |-> FALSE],
                [score |-> 1, allPassed |-> TRUE],
                [score |-> 2, allPassed |-> FALSE],
                [score |-> 2, allPassed |-> TRUE] }
=============================================================================
