------------------------------ MODULE HillClimb ------------------------------
(***************************************************************************)
(* What the optimisation loop of a job promises, with every benchmark and  *)
(* the verdict on it in one step: README.md "Evaluation and stopping" and  *)
(* the decisions of JobProcessor._run_loop (app/worker/processor.py).      *)
(* No database row, await, cancellation race or failed write appears here; *)
(* module JobProcessor has them and is shown to implement this module.     *)
(***************************************************************************)
EXTENDS Integers

CONSTANTS MaxIterations,    \* Job.max_iterations: proposals after the baseline
          Patience,         \* Job.patience: rejections in a row that end the job
          Outcomes          \* BenchmarkResults a run may return

ASSUME LoopBounds == MaxIterations \in Nat \ {0} /\ Patience \in Nat \ {0}
ASSUME OutcomesType == Outcomes \subseteq [score : Nat, allPassed : BOOLEAN]

IterNos == 0 .. MaxIterations
NoScore == -1
NoIter  == -1

VARIABLES score,      \* val_score of each judged iteration, NoScore before
          accepted,   \* the iterations whose version became the best one
          best,       \* the iteration whose version is the best one
          misses,     \* no_improve
          stop        \* stop_reason

vars == <<score, accepted, best, misses, stop>>

StopReasons == {"max_iterations", "no_improvement", "all_tasks_passed",
                "cancelled", "error"}

TypeOK ==
    /\ score \in [IterNos -> Nat \cup {NoScore}]
    /\ accepted \subseteq IterNos
    /\ best \in IterNos \cup {NoIter}
    /\ misses \in Nat
    /\ stop \in StopReasons \cup {"none"}

Init ==
    /\ score = [k \in IterNos |-> NoScore]
    /\ accepted = {}
    /\ best = NoIter
    /\ misses = 0
    /\ stop = "none"

(* The loop evaluates in order: k is the first iteration without a score. *)
IsNext(k) ==
    /\ score[k] = NoScore
    /\ \A j \in 0 .. k - 1 : score[j] # NoScore

(* Mutant of Improves: `>=` at processor.py:197, so that a tie is accepted. *)
MutImprovesOnTie(s) == best # NoIter => s >= score[best]

(* The baseline is always taken; a candidate only on strict improvement. *)
Improves(s) == best # NoIter => s > score[best]

(* Mutant of Verdict: a job status where a stop reason belongs. *)
MutVerdictStatus(k, m, o) ==
    IF k > 0 /\ m >= Patience THEN "no_improvement"
    ELSE IF o.allPassed THEN "completed"
    ELSE IF k >= MaxIterations THEN "max_iterations"
    ELSE "none"

(* Why the loop ends after judging iteration k with `m` misses in a row.
   The tests are made in this order; patience is not asked of the baseline. *)
Verdict(k, m, o) ==
    IF k > 0 /\ m >= Patience THEN "no_improvement"
    ELSE IF o.allPassed THEN "all_tasks_passed"
    ELSE IF k >= MaxIterations THEN "max_iterations"
    ELSE "none"

(* Mutant of Accept: `no_improve = 0` forgotten (processor.py:206). *)
MutAcceptKeepsMisses(k, o) ==
    /\ Improves(o.score)
    /\ accepted' = accepted \cup {k}
    /\ best' = k
    /\ UNCHANGED misses

Accept(k, o) ==
    /\ Improves(o.score)
    /\ accepted' = accepted \cup {k}
    /\ best' = k
    /\ misses' = 0

Reject(k, o) ==
    /\ ~Improves(o.score)
    /\ misses' = misses + 1
    /\ UNCHANGED <<accepted, best>>

Judge(k, o) ==
    /\ stop = "none"
    /\ IsNext(k)
    /\ score' = [score EXCEPT ![k] = o.score]
    /\ Accept(k, o) \/ Reject(k, o)
    /\ stop' = Verdict(k, misses', o)

(* The loop is left between two evaluations: the optimizer changed nothing,
   the job was cancelled, or an exception ended it. *)
Halt(r) ==
    /\ stop = "none"
    /\ r = "no_improvement" => best # NoIter
    /\ stop' = r
    /\ UNCHANGED <<score, accepted, best, misses>>

Next ==
    \/ \E k \in IterNos, o \in Outcomes : Judge(k, o)
    \/ \E r \in {"no_improvement", "cancelled", "error"} : Halt(r)

Spec == Init /\ [][Next]_vars

-----------------------------------------------------------------------------
Judged == {k \in IterNos : score[k] # NoScore}

(* An iteration is accepted exactly when it beats every earlier one: a tie
   with the best score is a rejection (processor.py:197, README.md:114). *)
AcceptedAreRecords ==
    accepted = {k \in Judged : \A j \in 0 .. k - 1 : score[j] < score[k]}

(* The best version is the first one that reached the highest score of the
   whole history, however many rejected candidates followed it. *)
BestIsFirstMaximum ==
    best # NoIter =>
        /\ best \in Judged
        /\ \A j \in Judged : score[j] <= score[best]
        /\ \A j \in 0 .. best - 1 : score[j] < score[best]

(* no_improve counts exactly the iterations since the best one: it is reset by
   every acceptance and misses no rejection in between. *)
MissesCountSinceBest ==
    best # NoIter => Judged = 0 .. best + misses

(* A loop that goes on has patience left and an iteration left to run; one
   that stopped for lack of improvement after a verdict used all of it. *)
GoesOnOnlyWithinBounds ==
    stop = "none" /\ best # NoIter =>
        misses < Patience /\ best + misses < MaxIterations

(* The evaluated history is never rewritten, and the score of the best version
   never goes down, whatever later benchmarks return (README.md:93 and 114). *)
BestNeverWorsens ==
    [][ /\ \A k \in Judged : score'[k] = score[k]
        /\ accepted \subseteq accepted'
        /\ best # NoIter => score'[best'] >= score[best] ]_vars
=============================================================================
