----------------------------- MODULE ProgressView -----------------------------
(***************************************************************************)
(* What the read endpoints show of a job (app/api/jobs.py,                  *)
(* app/services/jobs.py) while an executor (app/executor/simulated.py or    *)
(* app/executor/harbor.py) and the processor commit between their           *)
(* statements. Only what the endpoints derive is modelled of the writers;   *)
(* their own correctness is that of the modules JobProcessor and HarborRun, *)
(* the latter with the calls a run has given up on, which may still commit. *)
(* A reader's session keeps the rows it has loaded and takes each result as *)
(* of the statement.                                                        *)
(***************************************************************************)
EXTENDS Integers, Sequences, FiniteSets

CONSTANTS Tasks,            \* job.task_ids, in order
          MaxIterations     \* job.max_iterations

ASSUME TasksAreNamed == Tasks \in Seq(STRING) /\ Len(Tasks) > 0
ASSUME LimitIsNat == MaxIterations \in Nat

(* Nothing keeps the ids of a job's tasks apart. *)
Distinct == \A i, j \in DOMAIN Tasks : Tasks[i] = Tasks[j] => i = j
TaskIds  == {Tasks[i] : i \in DOMAIN Tasks}
From(i)  == {Tasks[j] : j \in i .. Len(Tasks)}
Versions == 0 .. MaxIterations
NoVersion == -1
Outcome  == {"scored", "infra_error"}       \* passed and failed alike are scored
Results  == UNION {[S -> Outcome] : S \in SUBSET TaskIds}
NoResult == [t \in {} |-> "scored"]

Row  == [phase : {"running_benchmark", "done", "proposing", "failed"},
         pending : SUBSET TaskIds, running : SUBSET TaskIds, results : Results]

(* No response yet: every part of one, empty. *)
Nothing == [some |-> FALSE, whole |-> FALSE, status |-> "running", best |-> NoVersion,
            iterations |-> <<>>, proposed |-> 0, latest |-> NoResult]

VARIABLES
    job,        \* Job.executor, status, and what best_agent_version_id points at
    rows,       \* iterations, from number 0 on, with their task results
    proposed,   \* how many versions iterations have created: version k by k - 1
    wpc, at,    \* the processor and its executor; the executor's task index
    done,       \* the executor's task_results
    ran,        \* history, by iteration: the tasks that were run to a result
    emptied,    \* history: the iterations whose lists Harbor emptied
    rpc,        \* the statement the reader is at
    got,        \* what the reader has loaded: rows and outcomes by iteration
    shown       \* the response

history == <<ran, emptied>>
writer == <<job, rows, proposed, wpc, at, done, history>>
reader == <<rpc, got, shown>>
vars == <<writer, reader>>

Last == Len(rows)

Init ==
    /\ \E e \in {"simulated", "harbor"} :
          job = [executor |-> e, status |-> "running", best |-> NoVersion]
    /\ rows = <<>> /\ proposed = 0 /\ ran = <<>> /\ emptied = {}
    /\ wpc = "begin" /\ at = 1 /\ done = NoResult
    /\ rpc = "job"
    /\ got = [job |-> job, rows |-> <<>>, outcomes |-> <<>>, proposed |-> 0, newest |-> 0]
    /\ shown = Nothing

-----------------------------------------------------------------------------
(* The writers. *)

SetLists(p, r) == rows' = [rows EXCEPT ![Last].pending = p, ![Last].running = r]

(* The loop's head: refresh, and the next iteration's row. *)
Begin ==
    /\ wpc = "begin"
    /\ IF job.status = "cancelled"
         THEN wpc' = "over" /\ UNCHANGED <<rows, at, done, ran>>
         ELSE /\ rows' = Append(rows, [phase |-> "running_benchmark", pending |-> TaskIds,
                                       running |-> {}, results |-> NoResult])
              /\ ran' = Append(ran, {})
              /\ at' = 1 /\ done' = NoResult
              /\ wpc' = IF job.executor = "harbor" THEN "harbor" ELSE "ask"
    /\ UNCHANGED <<job, proposed, emptied, reader>>

(* Mutant of Ask: the task that runs is still among the pending ones. *)
MutAsk ==
    /\ wpc = "ask"
    /\ IF at > Len(Tasks) \/ job.status = "cancelled"
         THEN wpc' = "ran" /\ UNCHANGED rows
         ELSE wpc' = "task" /\ SetLists(From(at), {Tasks[at]})
    /\ UNCHANGED <<job, proposed, at, done, history, reader>>

(* The simulated executor's loop: ask whether to go on, report the task as running. *)
Ask ==
    /\ wpc = "ask"
    /\ IF at > Len(Tasks) \/ job.status = "cancelled"
         THEN wpc' = "ran" /\ UNCHANGED rows
         ELSE wpc' = "task" /\ SetLists(From(at + 1), {Tasks[at]})
    /\ UNCHANGED <<job, proposed, at, done, history, reader>>

(* The task is run; its result is kept and it is reported as no longer running. *)
RunTask ==
    /\ wpc = "task"
    /\ done' = [t \in DOMAIN done \cup {Tasks[at]} |-> "scored"]
    /\ ran' = [ran EXCEPT ![Last] = @ \cup {Tasks[at]}]
    /\ SetLists(From(at + 1), {})
    /\ at' = at + 1
    /\ wpc' = "ask"
    /\ UNCHANGED <<job, proposed, emptied, reader>>

(* Under Harbor tasks are run at once and end in any order. *)
HarborTaskEnds ==
    /\ wpc = "harbor"
    /\ \E t \in TaskIds \ ran[Last] : ran' = [ran EXCEPT ![Last] = @ \cup {t}]
    /\ UNCHANGED <<job, rows, proposed, wpc, at, done, emptied, reader>>

(* A scan reports what it found, each task at its moment: tasks with a result,
   others with a directory, the rest pending. *)
ReportScan ==
    \E ended \in SUBSET ran[Last], begun \in SUBSET TaskIds :
        /\ TaskIds \ (rows[Last].pending \cup rows[Last].running) \subseteq ended
        /\ ended \cap begun = {} /\ ended \cup begun # {}
        /\ SetLists(TaskIds \ (ended \cup begun), begun)

HarborScans ==
    /\ wpc = "harbor"
    /\ ReportScan
    /\ UNCHANGED <<job, proposed, wpc, at, done, history, reader>>

(* on_progress([], []): of a run that could not begin, was timed out or lost, or
   that left no directory behind. *)
ReportNothing == SetLists({}, {}) /\ emptied' = emptied \cup {Last}

(* _infra_failure. *)
HarborGivesUp ==
    /\ wpc = "harbor"
    /\ ReportNothing
    /\ done' = [t \in TaskIds |-> "infra_error"]
    /\ wpc' = "ran"
    /\ UNCHANGED <<job, proposed, at, ran, reader>>

(* The runner has ended: the last scan, and a result for each task, which is
   infra_error when there is no reward; only a task that was run has one. *)
HarborEnds ==
    /\ wpc = "harbor"
    /\ \/ ReportScan /\ UNCHANGED emptied
       \/ ReportNothing
    /\ \E rewarded \in SUBSET ran[Last] :
          done' = [t \in TaskIds |-> IF t \in rewarded THEN "scored" ELSE "infra_error"]
    /\ wpc' = "ran"
    /\ UNCHANGED <<job, proposed, at, ran, reader>>

(* A run that saw the cancellation reports nothing and has no results. *)
HarborCancelled ==
    /\ wpc = "harbor" /\ job.status = "cancelled"
    /\ wpc' = "ran"
    /\ UNCHANGED <<job, rows, proposed, at, done, history, reader>>

(* Mutant of Record: the lists are cleared, but the iteration is not failed. *)
MutRecord ==
    /\ wpc = "ran"
    /\ rows' = [rows EXCEPT ![Last].phase = IF job.status = "cancelled" THEN @ ELSE "done",
                            ![Last].pending = {}, ![Last].running = {},
                            ![Last].results = IF job.status = "cancelled" THEN @ ELSE done]
    /\ wpc' = IF job.status = "cancelled" THEN "over" ELSE "judge"
    /\ UNCHANGED <<job, proposed, at, done, history, reader>>

(* After the benchmark: a cancelled job's results are dropped; otherwise lists,
   results and phase are one commit. *)
Record ==
    /\ wpc = "ran"
    /\ IF job.status = "cancelled"
         THEN /\ rows' = [rows EXCEPT ![Last].phase = "failed", ![Last].pending = {},
                                      ![Last].running = {}]
              /\ wpc' = "over"
         ELSE /\ rows' = [rows EXCEPT ![Last].phase = "done", ![Last].pending = {},
                                      ![Last].running = {}, ![Last].results = done]
              /\ wpc' = "judge"
    /\ UNCHANGED <<job, proposed, at, done, history, reader>>

(* The baseline, or a better score, makes the iteration's version the best.
   Iteration k runs version k, and is row k + 1. *)
Judge ==
    /\ wpc = "judge"
    /\ \/ job' = [job EXCEPT !.best = Last - 1]
       \/ Last > 1 /\ UNCHANGED job
    /\ wpc' = "judged"
    /\ UNCHANGED <<rows, proposed, at, done, history, reader>>

(* One of the stop tests holds, or the proposal is unchanged: the processor's
   copy of the job still says running. *)
Finish ==
    /\ wpc \in {"judged", "unchanged"}
    /\ job' = [job EXCEPT !.status = "completed"]
    /\ wpc' = "over"
    /\ UNCHANGED <<rows, proposed, at, done, history, reader>>

Propose ==
    /\ wpc = "judged" /\ Last <= MaxIterations
    /\ rows' = [rows EXCEPT ![Last].phase = "proposing"]
    /\ wpc' = "propose"
    /\ UNCHANGED <<job, proposed, at, done, history, reader>>

(* The proposal is stored as a version; or it changes nothing; or the job was
   cancelled while the optimizer worked. *)
Proposed ==
    /\ wpc = "propose"
    /\ IF job.status = "cancelled"
         THEN /\ rows' = [rows EXCEPT ![Last].phase = "failed"]
              /\ wpc' = "over" /\ UNCHANGED proposed
         ELSE /\ rows' = [rows EXCEPT ![Last].phase = "done"]
              /\ \/ wpc' = "unchanged" /\ UNCHANGED proposed
                 \/ wpc' = "begin" /\ proposed' = proposed + 1
    /\ UNCHANGED <<job, at, done, history, reader>>

(* The executor, the optimizer or the set-up raises: the failure handler writes
   the job row only. Harbor may raise after its last report, too. *)
Raise ==
    /\ \/ wpc \in {"ask", "task", "harbor", "propose"}
       \/ wpc = "ran" /\ job.executor = "harbor"
       \/ wpc = "begin" /\ rows = <<>>
    /\ job' = [job EXCEPT !.status = "failed"]
    /\ wpc' = "over"
    /\ UNCHANGED <<rows, proposed, at, done, history, reader>>

(* A statement of the processor's session fails, and the handler's with it. *)
Abort ==
    /\ wpc \in {"begin", "ran", "judge", "judged", "propose", "unchanged"}
    /\ wpc' = "over"
    /\ UNCHANGED <<job, rows, proposed, at, done, history, reader>>

(* cancel_job, as one step. *)
Cancel ==
    /\ job.status = "running"
    /\ job' = [job EXCEPT !.status = "cancelled"]
    /\ UNCHANGED <<rows, proposed, wpc, at, done, history, reader>>

-----------------------------------------------------------------------------
(* get_job and get_iteration_detail, one statement a step. list_iterations is
   the first four statements of get_job. *)

(* _get_visible_job; a later session.get of the job returns the same object. *)
ReadJob ==
    /\ rpc = "job"
    /\ got' = [got EXCEPT !.job = job]
    /\ rpc' = "iterations"
    /\ UNCHANGED <<writer, shown>>

Loaded(ks) == [k \in ks |-> [phase |-> rows[k].phase, pending |-> rows[k].pending,
                             running |-> rows[k].running]]

(* get_iterations. *)
ReadIterations ==
    /\ rpc = "iterations"
    /\ got' = [got EXCEPT !.rows = Loaded(1 .. Last)]
    /\ rpc' = "outcomes"
    /\ UNCHANGED <<writer, shown>>

(* get_iteration, for the detail of one. *)
ReadIteration ==
    /\ rpc = "iterations"
    /\ \E k \in 1 .. Last : got' = [got EXCEPT !.rows = Loaded({k})]
    /\ rpc' = "detail"
    /\ UNCHANGED <<writer, shown>>

(* _outcome_ids_by_iteration; get_task_results_for_iteration for a detail. *)
ReadOutcomes ==
    /\ rpc \in {"outcomes", "detail"}
    /\ got' = [got EXCEPT !.outcomes = [k \in DOMAIN got.rows |-> rows[k].results]]
    /\ rpc' = IF rpc = "outcomes" THEN "proposed" ELSE "its proposal"
    /\ UNCHANGED <<writer, shown>>

(* _proposed_versions_by_iteration; proposed_version_no for a detail. *)
ReadProposed ==
    /\ rpc \in {"proposed", "its proposal"}
    /\ got' = [got EXCEPT !.proposed = proposed]
    /\ rpc' = IF rpc = "proposed" THEN "newest" ELSE "respond"
    /\ UNCHANGED <<writer, shown>>

(* Mutant of ReadNewest: the job is refreshed for the best version's number. *)
MutReadNewest ==
    /\ rpc = "newest"
    /\ got' = [got EXCEPT !.newest = Last, !.job = job]
    /\ rpc' = "latest"
    /\ UNCHANGED <<writer, shown>>

(* get_latest_task_results picks the newest iteration, finished or not. *)
ReadNewest ==
    /\ rpc = "newest"
    /\ got' = [got EXCEPT !.newest = Last]
    /\ rpc' = "latest"
    /\ UNCHANGED <<writer, shown>>

(* _tasks_summary of an iteration's row and its results. *)
Summary(row, outcome) ==
    IF outcome # NoResult
      THEN [phase |-> row.phase, pending |-> {}, running |-> {},
            completed |-> DOMAIN outcome, outcome |-> outcome]
      ELSE [phase |-> row.phase, pending |-> row.pending, running |-> row.running,
            completed |-> TaskIds \ (row.pending \cup row.running), outcome |-> outcome]

Show(whole, latest) ==
    /\ shown' = [some |-> TRUE, whole |-> whole,
                 status |-> got.job.status, best |-> got.job.best,
                 iterations |-> [k \in DOMAIN got.rows |->
                                    Summary(got.rows[k], got.outcomes[k])],
                 proposed |-> got.proposed, latest |-> latest]
    /\ rpc' = "over"
    /\ UNCHANGED <<writer, got>>

(* The newest iteration's results, the best version's number (a version's row
   never changes), job_to_response. *)
Respond ==
    /\ rpc = "latest"
    /\ Show(TRUE, IF got.newest = 0 THEN NoResult ELSE rows[got.newest].results)

(* iteration_to_detail. *)
RespondDetail ==
    /\ rpc = "respond"
    /\ Show(FALSE, NoResult)

Harbor == HarborTaskEnds \/ HarborScans \/ HarborGivesUp \/ HarborEnds \/ HarborCancelled
Writer == \/ Begin \/ Ask \/ RunTask \/ Harbor \/ Record \/ Judge \/ Finish \/ Propose
          \/ Proposed \/ Raise \/ Abort \/ Cancel
Reader == \/ ReadJob \/ ReadIterations \/ ReadIteration \/ ReadOutcomes
          \/ ReadProposed \/ ReadNewest \/ Respond \/ RespondDetail
Next   == Writer \/ Reader

Spec == Init /\ [][Next]_vars

-----------------------------------------------------------------------------
(* What is shown of an iteration: of its row, with the results read later. *)
Shown(k) == shown.iterations[k]

TypeOK ==
    /\ job \in [executor : {"simulated", "harbor"},
                status : {"running", "completed", "failed", "cancelled"},
                best : Versions \cup {NoVersion}]
    /\ rows \in Seq(Row) /\ Len(rows) <= MaxIterations + 1
    /\ proposed \in Versions
    /\ at \in 1 .. Len(Tasks) + 1
    /\ done \in Results
    /\ ran \in Seq(SUBSET TaskIds) /\ Len(ran) = Len(rows)
    /\ emptied \subseteq 1 .. Len(rows)
    /\ \A k \in DOMAIN shown.iterations :
          /\ Shown(k).completed \cup Shown(k).running \cup Shown(k).pending = TaskIds
          /\ Distinct => Shown(k).running \cap Shown(k).pending = {}

(* A task is shown as completed only if it was run, however the statements of the
   request fall between the commits of processor and executor, but for three cases.
   With results: a task that was not run is there as an infra_error and as nothing
   else. Without results: completed is the difference of three lists, which is
   every task once they are empty; they are empty and there are no results only in
   an iteration that a cancellation closed, or when Harbor's run gave up or left
   nothing behind. *)
CompletedTasksWereRun ==
    \A k \in DOMAIN shown.iterations : \A t \in Shown(k).completed \ ran[k] :
        IF Shown(k).outcome = NoResult
          THEN Shown(k).phase = "failed" \/ k \in emptied
          ELSE Shown(k).outcome[t] = "infra_error"

(* A response never shows an effect without its cause. It is put together from
   statements that see different states, but each reads what the ones before it
   depend on: a completed job comes with results for every task; the best
   version's iteration is listed with its results; every iteration but the last
   one listed has results, and each but the first runs a version that some
   iteration is shown to have proposed. *)
EffectsComeWithCauses ==
    /\ shown.whole =>
         /\ shown.status = "completed" => DOMAIN shown.latest = TaskIds
         /\ shown.best # NoVersion =>
              /\ shown.best + 1 \in DOMAIN shown.iterations
              /\ DOMAIN Shown(shown.best + 1).outcome = TaskIds
         /\ \A k \in DOMAIN shown.iterations :
              k + 1 \in DOMAIN shown.iterations => DOMAIN Shown(k).outcome = TaskIds
    /\ \A k \in DOMAIN shown.iterations : shown.proposed >= k - 1
=============================================================================
