----------------------------- MODULE JobProcessor -----------------------------
(***************************************************************************)
(* One job from the worker's claim to the end of JobProcessor.process      *)
(* (app/worker/processor.py), one action per stretch between two awaits    *)
(* that touch the database, with the cancel endpoint (app/api/jobs.py)     *)
(* running beside it in a session of its own.                              *)
(*                                                                         *)
(* The processor works on an ORM copy of the job row. SQLAlchemy loads it  *)
(* with a SELECT or a refresh, and a commit issues an UPDATE of exactly    *)
(* the columns whose value differs from the loaded one. Between a refresh  *)
(* and a commit the copy may be stale; expire_on_commit is False, so a     *)
(* commit does not freshen it. An UPDATE and its COMMIT are one step.      *)
(***************************************************************************)
EXTENDS Integers

CONSTANTS MaxIterations,    \* Job.max_iterations
          Patience,         \* Job.patience
          Outcomes,         \* BenchmarkResults run_benchmark may return
          DbFaults          \* whether a statement of the processor may fail

ASSUME JobLimits == MaxIterations \in Nat \ {0} /\ Patience \in Nat \ {0}
ASSUME ResultsType == Outcomes \subseteq [score : Nat, allPassed : BOOLEAN]
ASSUME DbFaultsType == DbFaults \in BOOLEAN

IterNos   == 0 .. MaxIterations
NoScore   == -1
NoVersion == -1
NoIter    == -1

JobStatus  == {"queued", "running", "completed", "failed", "cancelled"}
Terminal   == {"completed", "failed", "cancelled"}
StopReason == {"none", "max_iterations", "no_improvement", "all_tasks_passed",
               "cancelled", "error"}
Phases     == {"absent", "running_benchmark", "proposing", "done", "failed"}

(* Rows. best_agent_version_id is the id of a version: its number here. *)
JobRow  == [status : JobStatus, stop : StopReason, finished : BOOLEAN,
            bestScore : Nat \cup {NoScore}, bestVersion : IterNos \cup {NoVersion}]
IterRow == [phase : Phases, version : IterNos \cup {NoVersion},
            score : Nat \cup {NoScore}, accepted : {"unjudged", "yes", "no"},
            optimized : BOOLEAN]
VerRow  == [stored : BOOLEAN, parent : IterNos \cup {NoVersion},
            createdBy : IterNos \cup {NoIter}]

VARIABLES
    job, iters, versions,       \* committed rows of jobs, iterations, agent_versions
    mem,                        \* the processor's ORM copy of the job row
    synced,                     \* the values mem was loaded with or last wrote
    pc,                         \* where the processor is between two awaits
    no,                         \* iteration_no
    bestVersion, bestScore,     \* best_version_no, best_score
    noImprove,                  \* no_improve
    nextVersion, candidate,     \* next_version_no, candidate_version_no
    result,                     \* what run_benchmark returned
    changed,                    \* proposal.agent_content # best_version.content
    apiChecked                  \* a cancel request has read an active status

rows   == <<job, iters, versions>>
orm    == <<mem, synced>>
locals == <<no, bestVersion, bestScore, noImprove, nextVersion, candidate,
            result, changed>>
vars   == <<job, iters, versions, mem, synced, pc, no, bestVersion, bestScore,
            noImprove, nextVersion, candidate, result, changed, apiChecked>>

Places == {"claim", "load", "ack", "begin", "setup", "top", "insert", "bench",
           "benched", "settle", "save", "judge", "mark", "propose", "proposed",
           "record", "adopt", "finish", "fail", "done", "raised", "aborted"}
Over   == {"done", "raised", "aborted"}

(* Where the processor's next step is a statement on its database session. *)
Statements == {"load", "ack", "begin", "setup", "top", "insert", "benched", "settle",
               "save", "judge", "mark", "proposed", "record", "adopt", "finish", "fail"}

(* ...and where that is, inside process's try, a SELECT that nothing was flushed before. *)
Reads == {"top", "insert", "benched", "mark", "proposed"}

TypeOK ==
    /\ job \in JobRow /\ mem \in JobRow /\ synced \in JobRow
    /\ iters \in [IterNos -> IterRow]
    /\ versions \in [IterNos -> VerRow]
    /\ pc \in Places
    /\ no \in IterNos
    /\ bestVersion \in IterNos
    /\ bestScore \in Nat \cup {NoScore}
    /\ noImprove \in Nat
    /\ nextVersion \in Nat
    /\ candidate \in IterNos \cup {NoVersion}
    /\ result \in [score : Nat \cup {NoScore}, allPassed : BOOLEAN]
    /\ changed \in BOOLEAN
    /\ apiChecked \in BOOLEAN

NewJob    == [status |-> "queued", stop |-> "none", finished |-> FALSE,
              bestScore |-> NoScore, bestVersion |-> NoVersion]
NoRow     == [phase |-> "absent", version |-> NoVersion, score |-> NoScore,
              accepted |-> "unjudged", optimized |-> FALSE]
NotStored == [stored |-> FALSE, parent |-> NoVersion, createdBy |-> NoIter]

(* The job is submitted and the worker's SELECT has picked it. *)
Init ==
    /\ job = NewJob /\ mem = NewJob /\ synced = NewJob
    /\ iters = [k \in IterNos |-> NoRow]
    /\ versions = [v \in IterNos |-> NotStored]
    /\ pc = "claim"
    /\ no = 0
    /\ bestVersion = 0 /\ bestScore = NoScore /\ noImprove = 0
    /\ nextVersion = 1 /\ candidate = NoVersion
    /\ result = [score |-> NoScore, allPassed |-> FALSE]
    /\ changed = FALSE
    /\ apiChecked = FALSE

-----------------------------------------------------------------------------
(* The unit of work: columns of m that differ from the synced values are
   written, the others keep what the row holds by now. *)
Flush(m) ==
    LET Col(f) == IF m[f] # synced[f] THEN m[f] ELSE job[f]
    IN  [status |-> Col("status"), stop |-> Col("stop"), finished |-> Col("finished"),
         bestScore |-> Col("bestScore"), bestVersion |-> Col("bestVersion")]

(* Commit the copy m, with the changes it carries. *)
Commit(m) == job' = Flush(m) /\ mem' = m /\ synced' = m

Refresh == mem' = job /\ synced' = job /\ UNCHANGED job

MarkCancelled(m) == [m EXCEPT !.stop = "cancelled", !.finished = TRUE]

(* Mutant of RunVersion: the best version is run again in place of the candidate. *)
MutRunVersionBest == bestVersion

RunVersion == IF no = 0 THEN 0 ELSE candidate

(* Mutant of SeesCancelled: the copy is tested, as if the session had not been
   refreshed. *)
MutSeesStaleStatus == mem.status = "cancelled"

SeesCancelled == job.status = "cancelled"

-----------------------------------------------------------------------------
(* Worker._claim_next_job: the conditional UPDATE. Its row count is not read,
   so a job cancelled since the SELECT is handed over all the same. *)
Claim ==
    /\ pc = "claim"
    /\ job' = IF job.status = "queued" THEN [job EXCEPT !.status = "running"] ELSE job
    /\ pc' = "load"
    /\ UNCHANGED <<iters, versions, orm, locals, apiChecked>>

(* Mutant of Load: a cancelled job is looked at again in place of returning. *)
MutLoadRetries ==
    /\ pc = "load"
    /\ Refresh
    /\ pc' = IF job.status = "cancelled" THEN "load" ELSE "begin"
    /\ UNCHANGED <<iters, versions, locals, apiChecked>>

(* process: load the row and branch on its status. *)
Load ==
    /\ pc = "load"
    /\ Refresh
    /\ pc' = IF job.status = "cancelled" THEN "ack"
             ELSE IF job.status \in {"queued", "running"} THEN "begin" ELSE "done"
    /\ UNCHANGED <<iters, versions, locals, apiChecked>>

(* A job cancelled before it began: only missing fields are filled in. *)
AcknowledgeCancelled ==
    /\ pc = "ack"
    /\ Commit([mem EXCEPT !.stop = IF @ = "none" THEN "cancelled" ELSE @,
                          !.finished = TRUE])
    /\ pc' = "done"
    /\ UNCHANGED <<iters, versions, locals, apiChecked>>

Begin ==
    /\ pc = "begin"
    /\ Commit([mem EXCEPT !.status = "running"])
    /\ pc' = "setup"
    /\ UNCHANGED <<iters, versions, locals, apiChecked>>

(* _run_loop up to the loop: store the template as version 0. *)
SetUp ==
    /\ pc = "setup"
    /\ versions' = [versions EXCEPT ![0].stored = TRUE]
    /\ pc' = "top"
    /\ UNCHANGED <<job, iters, orm, locals, apiChecked>>

(* The executor cannot be built, or the optimizer mode is not a known one. *)
SetUpRaises ==
    /\ pc = "setup"
    /\ pc' = "fail"
    /\ UNCHANGED <<rows, orm, locals, apiChecked>>

(* Top of the loop body: a cancelled job returns with its changes pending. *)
RefreshAtTop ==
    /\ pc = "top"
    /\ synced' = job
    /\ IF SeesCancelled
       THEN mem' = MarkCancelled(job) /\ pc' = "finish"
       ELSE mem' = job /\ pc' = "insert"
    /\ UNCHANGED <<rows, locals, apiChecked>>

InsertIteration ==
    /\ pc = "insert"
    /\ iters' = [iters EXCEPT ![no] =
                    [phase |-> "running_benchmark", version |-> RunVersion,
                     score |-> NoScore, optimized |-> FALSE,
                     accepted |-> IF no = 0 THEN "yes" ELSE "unjudged"]]
    /\ pc' = "bench"
    /\ UNCHANGED <<job, versions, orm, locals, apiChecked>>

(* run_benchmark ends with a result, complete or cut short by should_cancel. *)
BenchmarkReturns ==
    /\ pc = "bench"
    /\ result' \in Outcomes
    /\ pc' = "benched"
    /\ UNCHANGED <<rows, orm, no, bestVersion, bestScore, noImprove, nextVersion,
                   candidate, changed, apiChecked>>

BenchmarkRaises ==
    /\ pc = "bench"
    /\ pc' = "fail"
    /\ UNCHANGED <<rows, orm, locals, apiChecked>>

(* After the benchmark, and again after the proposal: look for a cancellation. *)
RefreshAfter(from, onward) ==
    /\ pc = from
    /\ Refresh
    /\ pc' = IF SeesCancelled THEN "settle" ELSE onward
    /\ UNCHANGED <<iters, versions, locals, apiChecked>>

RefreshAfterBenchmark == RefreshAfter("benched", "save")
RefreshAfterProposal  == RefreshAfter("proposed", "record")

(* Mutant of SettleCancelled: the job is settled, its iteration is not. *)
MutSettleJobOnly ==
    /\ pc = "settle"
    /\ Commit(MarkCancelled(mem))
    /\ pc' = "finish"
    /\ UNCHANGED <<iters, versions, locals, apiChecked>>

(* A cancellation was seen: the iteration is closed as failed. *)
SettleCancelled ==
    /\ pc = "settle"
    /\ iters' = [iters EXCEPT ![no].phase = "failed"]
    /\ Commit(MarkCancelled(mem))
    /\ pc' = "finish"
    /\ UNCHANGED <<versions, locals, apiChecked>>

(* Task results and score; the phase passes through ANALYZING to DONE. *)
SaveResults ==
    /\ pc = "save"
    /\ iters' = [iters EXCEPT ![no].score = result.score, ![no].phase = "done"]
    /\ Commit(mem)
    /\ pc' = "judge"
    /\ UNCHANGED <<versions, locals, apiChecked>>

(* Mutant of Improved: `>=` at processor.py:197. *)
MutImprovedOnTie == bestScore # NoScore => result.score >= bestScore

Improved == bestScore # NoScore => result.score > bestScore

(* Mutant of Verdict: the loop bound is one too high. *)
MutVerdictOneMore(misses) ==
    IF no > 0 /\ misses >= Patience THEN "no_improvement"
    ELSE IF result.allPassed THEN "all_tasks_passed"
    ELSE IF no > MaxIterations THEN "max_iterations"
    ELSE "none"

(* Mutant of Verdict: patience runs out one rejection early. *)
MutVerdictImpatient(misses) ==
    IF no > 0 /\ misses >= Patience - 1 THEN "no_improvement"
    ELSE IF result.allPassed THEN "all_tasks_passed"
    ELSE IF no >= MaxIterations THEN "max_iterations"
    ELSE "none"

(* The stop tests after a verdict, in the code's order; `misses` is no_improve. *)
Verdict(misses) ==
    IF no > 0 /\ misses >= Patience THEN "no_improvement"
    ELSE IF result.allPassed THEN "all_tasks_passed"
    ELSE IF no >= MaxIterations THEN "max_iterations"
    ELSE "none"

(* Commit the verdict in m; a stop reason is set after that commit and stays
   pending in the copy until process() commits at the end. *)
Conclude(m) ==
    LET reason == Verdict(noImprove')
    IN  /\ job' = Flush(m)
        /\ synced' = m
        /\ mem' = [m EXCEPT !.stop = IF reason = "none" THEN @ ELSE reason]
        /\ pc' = IF reason = "none" THEN "mark" ELSE "finish"

(* Mutant of WithBest: the version is kept from the baseline. *)
MutWithBestScoreOnly(m) ==
    [m EXCEPT !.bestScore = result.score, !.bestVersion = IF @ = NoVersion THEN 0 ELSE @]

WithBest(m) == [m EXCEPT !.bestScore = result.score, !.bestVersion = RunVersion]

(* The baseline, or a candidate that beats the best score. *)
Accept ==
    /\ pc = "judge"
    /\ Improved
    /\ bestScore' = result.score
    /\ bestVersion' = RunVersion
    /\ noImprove' = 0
    /\ iters' = [iters EXCEPT ![no].accepted = "yes"]
    /\ Conclude(WithBest(mem))
    /\ UNCHANGED <<versions, no, nextVersion, candidate, result, changed, apiChecked>>

Reject ==
    /\ pc = "judge"
    /\ ~Improved
    /\ noImprove' = noImprove + 1
    /\ iters' = [iters EXCEPT ![no].accepted = "no"]
    /\ Conclude(mem)
    /\ UNCHANGED <<versions, no, bestVersion, bestScore, nextVersion, candidate,
                   result, changed, apiChecked>>

MarkProposing ==
    /\ pc = "mark"
    /\ iters' = [iters EXCEPT ![no].phase = "proposing"]
    /\ Commit(mem)
    /\ pc' = "propose"
    /\ UNCHANGED <<versions, locals, apiChecked>>

ProposalReturns ==
    /\ pc = "propose"
    /\ changed' \in BOOLEAN
    /\ pc' = "proposed"
    /\ UNCHANGED <<rows, orm, no, bestVersion, bestScore, noImprove, nextVersion,
                   candidate, result, apiChecked>>

ProposalRaises ==
    /\ pc = "propose"
    /\ pc' = "fail"
    /\ UNCHANGED <<rows, orm, locals, apiChecked>>

(* Mutant of RecordProposal: the commit comes before the artifacts are set. *)
MutRecordNothing ==
    /\ pc = "record"
    /\ Commit(mem)
    /\ pc' = "adopt"
    /\ UNCHANGED <<iters, versions, locals, apiChecked>>

(* The optimizer's artifacts and learnings have a commit of their own. *)
RecordProposal ==
    /\ pc = "record"
    /\ iters' = [iters EXCEPT ![no].optimized = TRUE]
    /\ Commit(mem)
    /\ pc' = "adopt"
    /\ UNCHANGED <<versions, locals, apiChecked>>

StopUnchanged ==
    /\ pc = "adopt"
    /\ ~changed
    /\ iters' = [iters EXCEPT ![no].phase = "done"]
    /\ Commit([mem EXCEPT !.stop = "no_improvement"])
    /\ pc' = "finish"
    /\ UNCHANGED <<versions, locals, apiChecked>>

(* Mutant of Proposal: derived from the version just run, accepted or not. *)
MutProposalOnLastRun == [stored |-> TRUE, parent |-> RunVersion, createdBy |-> no]

Proposal == [stored |-> TRUE, parent |-> bestVersion, createdBy |-> no]

CreateCandidate ==
    /\ pc = "adopt"
    /\ changed
    /\ versions' = [versions EXCEPT ![nextVersion] = Proposal]
    /\ iters' = [iters EXCEPT ![no].phase = "done"]
    /\ Commit(mem)
    /\ candidate' = nextVersion
    /\ nextVersion' = nextVersion + 1
    /\ no' = no + 1
    /\ pc' = "top"
    /\ UNCHANGED <<bestVersion, bestScore, noImprove, result, changed, apiChecked>>

(* Mutant of Finish: completed without the status test of processor.py:52. *)
MutFinishAlways ==
    /\ pc = "finish"
    /\ Commit([mem EXCEPT !.status = "completed", !.finished = TRUE])
    /\ pc' = "done"
    /\ UNCHANGED <<iters, versions, locals, apiChecked>>

(* process after _run_loop: the status test reads the copy, not the row. *)
Finish ==
    /\ pc = "finish"
    /\ Commit(IF mem.status = "running"
              THEN [mem EXCEPT !.status = "completed", !.finished = TRUE]
              ELSE mem)
    /\ pc' = "done"
    /\ UNCHANGED <<iters, versions, locals, apiChecked>>

(* process's handler: the failure is recorded and the exception raised again. *)
Fail ==
    /\ pc = "fail"
    /\ Commit([mem EXCEPT !.status = "failed", !.stop = "error", !.finished = TRUE])
    /\ pc' = "raised"
    /\ UNCHANGED <<iters, versions, locals, apiChecked>>

(* A statement or commit of the processor's session fails. A failed flush or
   commit, or a lost connection, leaves a session that refuses everything until
   it is rolled back, which nobody does: the handler's own commit fails as well,
   and process() ends with the rows as they were. A SELECT that fails otherwise,
   on a locked database say, leaves a session the handler can use. *)
DbFault ==
    /\ DbFaults
    /\ \/ pc \in Statements /\ pc' = "aborted"
       \/ pc \in Reads /\ pc' = "fail"
    /\ UNCHANGED <<rows, orm, locals, apiChecked>>

-----------------------------------------------------------------------------
(* cancel_job: the status is read and tested in one statement... *)
ApiCancelCheck ==
    /\ ~apiChecked
    /\ job.status \notin Terminal
    /\ apiChecked' = TRUE
    /\ UNCHANGED <<rows, orm, pc, locals>>

(* ...and overwritten in another, whatever the status is by then. *)
ApiCancelWrite ==
    /\ apiChecked
    /\ job' = [MarkCancelled(job) EXCEPT !.status = "cancelled"]
    /\ apiChecked' = FALSE
    /\ UNCHANGED <<iters, versions, orm, pc, locals>>

-----------------------------------------------------------------------------
Benchmark == BenchmarkReturns \/ BenchmarkRaises
Propose   == ProposalReturns \/ ProposalRaises

Processor ==
    \/ Claim \/ Load \/ AcknowledgeCancelled \/ Begin \/ SetUp \/ SetUpRaises
    \/ RefreshAtTop \/ InsertIteration \/ Benchmark \/ RefreshAfterBenchmark
    \/ SettleCancelled \/ SaveResults \/ Accept \/ Reject \/ MarkProposing
    \/ Propose \/ RefreshAfterProposal \/ RecordProposal \/ StopUnchanged
    \/ CreateCandidate \/ Finish \/ Fail

Next == Processor \/ DbFault \/ ApiCancelCheck \/ ApiCancelWrite

Spec == Init /\ [][Next]_vars

(* The worker's task is resumed whenever its await is over. run_benchmark and
   propose return in bounded time: the executor enforces a deadline and the
   model client one of its own. Clients and faults owe nothing. *)
Fairness == WF_vars(Processor)
FairSpec == Spec /\ Fairness

-----------------------------------------------------------------------------
Present(k)   == iters[k].phase # "absent"
Settled(k)   == iters[k].phase \in {"done", "failed"}
(* Iteration 0 is inserted as accepted, before its score is known. *)
Judged       == {k \in IterNos : iters[k].accepted # "unjudged" /\ job.bestScore # NoScore}

(* The asserts of _run_loop (processor.py:103, 106, 253) hold: an iteration
   is about to run, or a proposal to start from, a version that is stored. *)
AssertsHold ==
    /\ pc = "insert" => RunVersion # NoVersion /\ versions[RunVersion].stored
    /\ pc = "mark" => versions[bestVersion].stored

(* Every iteration row names the stored version that the iteration before it
   proposed, and that proposal is recorded (README.md:110: runs can be
   reconstructed). *)
HistoryIsReconstructible ==
    \A k \in IterNos : Present(k) =>
        LET v == iters[k].version
        IN  /\ v # NoVersion /\ versions[v].stored
            /\ k > 0 => versions[v].createdBy = k - 1 /\ iters[k - 1].optimized

(* A candidate is derived from the version that was best when it was proposed,
   never from a rejected one: its parent was run by an earlier iteration that
   was accepted and that no iteration up to the proposal beats. *)
CandidatesBuildOnBest ==
    \A v \in IterNos : versions[v].stored /\ v > 0 =>
        \E k \in 0 .. versions[v].createdBy :
            /\ iters[k].version = versions[v].parent
            /\ iters[k].accepted = "yes"
            /\ \A j \in 0 .. versions[v].createdBy : iters[j].score <= iters[k].score

(* At every moment, between any two commits, the job row's best score and best
   version belong together: an accepted iteration ran that version to that
   score, and no judged iteration scored more. *)
JobRowTellsTheBest ==
    job.bestScore # NoScore =>
        /\ \E k \in Judged : /\ iters[k].accepted = "yes"
                             /\ iters[k].version = job.bestVersion
                             /\ iters[k].score = job.bestScore
        /\ \A k \in Judged : iters[k].score <= job.bestScore

(* Only the newest iteration of a job can be left half done: whatever ends the
   processor, cancellation, exception or failed write, all earlier rows are
   complete, scored and judged (README.md:116). *)
OnlyNewestIterationIsOpen ==
    \A k \in IterNos : k + 1 \in IterNos /\ Present(k + 1) =>
        /\ iters[k].phase = "done" /\ iters[k].score # NoScore
        /\ iters[k].accepted # "unjudged" /\ iters[k].optimized

(* When process() ends by itself, normally or by its failure handler, the job row
   is terminal, whatever the copy missed. After a normal end no iteration is left
   in flight, and one is marked failed only if the job was seen to be cancelled.
   The failure handler leaves the iteration as it was, in flight if it was; and a
   run cut off by a failed statement promises neither. *)
NothingLeftInFlight ==
    /\ pc \in {"done", "raised"} => job.status \in Terminal /\ job.finished
    /\ pc = "done" =>
        \A k \in IterNos : Present(k) =>
            /\ Settled(k)
            /\ iters[k].phase = "failed" => mem.status = "cancelled"

(* The stop reason of a completed job is borne out by its iterations: patience
   used up or a last proposal that added no version; all iterations run; or a
   last result that passed every task. A completed job says "cancelled" only
   when a cancellation fell between the two last commits of a run that ended
   with an unchanged proposal. *)
StopReasonIsBorneOut ==
    pc = "done" /\ job.status = "completed" =>
        /\ Present(no)
        /\ job.stop \notin {"none", "error"}
        /\ job.stop = "max_iterations" => no = MaxIterations /\ iters[no].accepted # "unjudged"
        /\ job.stop = "all_tasks_passed" => result.allPassed /\ iters[no].score = result.score
        /\ job.stop = "no_improvement" =>
              \/ /\ no >= Patience
                 /\ \A k \in no - Patience + 1 .. no : iters[k].accepted = "no"
              \/ iters[no].optimized /\ ~\E v \in IterNos : versions[v].stored /\ v > no
        /\ job.stop = "cancelled" => iters[no].optimized /\ ~changed

(* Once the processor has seen the cancellation nothing it writes takes the
   row out of "cancelled" again (test_api.py:236). *)
SeenCancellationIsFinal ==
    [][mem.status = "cancelled" => job'.status = "cancelled"]_vars

(* A cancelled job costs at most one more benchmark, whose result is not used:
   however the cancellation falls between the processor's steps, at most one
   iteration is added, and it is never scored (processor.py:147-157). *)
CancelCostsOneIteration ==
    \A n \in IterNos :
        [](job.status = "cancelled" /\ ~Present(n) =>
              [](job.status = "cancelled" =>
                    /\ iters[n].score = NoScore
                    /\ n = MaxIterations \/ ~Present(n + 1)))

(* With every evaluation and its verdict collapsed into one step, the rows
   and counters are those of the hill climb. *)
HC == INSTANCE HillClimb WITH
          score    <- [k \in IterNos |-> IF k \in Judged THEN iters[k].score ELSE NoScore],
          accepted <- {k \in Judged : iters[k].accepted = "yes"},
          best     <- job.bestVersion,
          misses   <- noImprove,
          stop     <- mem.stop

(* The processor implements HillClimb: the best version is the first maximum,
   ties are rejections, patience counts what it should, under every schedule
   of cancellations, exceptions and failed writes. *)
ImplementsHillClimb == HC!Spec

(* Where the worker's task is, for those who only see the queue: it works on a
   job until it has seen the cancellation or process() is over. *)
Stage ==
    IF pc = "claim" THEN "update"
    ELSE IF pc = "load" THEN "load"
    ELSE IF pc \in Over \cup {"ack"} \/ mem.status = "cancelled" THEN "claim"
    ELSE IF versions[0].stored THEN "working" ELSE "setup"

Worker == {"worker"}

(* One job in the hands of one worker of the job queue. *)
JQ == INSTANCE JobQueue WITH
          NumJobs  <- 1, Workers <- Worker, MaxBoots <- 1, Stops <- FALSE, Crashes <- FALSE,
          status   <- [j \in {1} |-> job.status],
          template <- IF versions[0].stored THEN {1} ELSE {},
          checked  <- IF apiChecked THEN {1} ELSE {},
          wpc      <- [w \in Worker |-> Stage],
          held     <- [w \in Worker |-> IF Stage = "claim" THEN 0 ELSE 1],
          seen     <- [w \in Worker |-> IF Stage \in {"setup", "working"} THEN "running"
                                                                       ELSE "none"],
          stopping <- [w \in Worker |-> FALSE],
          boots    <- 1,
          lost     <- IF pc = "aborted" /\ mem.status # "cancelled" THEN {1} ELSE {}

(* All that a run and the cancel endpoint do to a job is what the queue's model
   lets a worker and a client do: a run that ends in any other way, or writes
   the row at any other moment, would be outside what is shown of the queue. *)
FollowsTheQueue == [][JQ!Next]_(JQ!vars)

(* The processor always lets go of a job: with a result, an exception or a
   broken session (the worker waits for it: worker.py:53). *)
ProcessorTerminates == <>(pc \in Over)

-----------------------------------------------------------------------------
(* README.md:44-50 and test_api.py:236: no arrow leads from "cancelled" to
   "completed", and the processor does not revive a cancelled job. *)
CancelledNeverCompletes ==
    [][job.status = "cancelled" => job'.status # "completed"]_vars

(* README.md:44-50 and the 409 of api/jobs.py:174: only queued and running jobs
   are cancelled. *)
FinishedIsFinal ==
    [][job.status \in {"completed", "failed"} => job'.status = job.status]_vars

(* README.md:56: "unexpected errors are persisted and mark it failed": an error
   inside the loop, version 0 being stored, leaves a failed job. *)
ErrorsArePersisted ==
    pc = "aborted" /\ versions[0].stored => job.status = "failed"
=============================================================================
