------------------------------- MODULE HarborRun -------------------------------
(***************************************************************************)
(* One job's benchmark runs under HarborExecutor (app/executor/harbor.py): *)
(* the executor's thread, the process group it starts, the trace directory *)
(* the two share, the progress calls the thread sends to the event loop    *)
(* with a limit of 30 seconds, and what the processor does to the progress *)
(* lists before and after a run (app/worker/processor.py). The workspace   *)
(* is one directory per job, so a run finds what earlier ones left.        *)
(***************************************************************************)
EXTENDS Integers, Sequences, FiniteSets

CONSTANTS TaskIds,          \* job.task_ids
          NoTask,           \* no task's id
          MaxRuns,          \* bound: iterations of the job
          MaxStrays         \* bound: calls given up on and helper processes alive

Tasks == {TaskIds[i] : i \in 1 .. Len(TaskIds)}

ASSUME TaskIdsType == TaskIds \in Seq(Tasks) /\ TaskIds # <<>>
ASSUME NoTaskIsNone == NoTask \notin Tasks
ASSUME MaxRunsPositive == MaxRuns \in Nat \ {0}
ASSUME MaxStraysNat == MaxStrays \in Nat

Runs  == 1 .. MaxRuns
NoRun == 0

VARIABLES
    n,          \* the iteration being benchmarked
    pc,         \* where the executor's thread, then the processor, stands
    cont,       \* where the thread goes after the scan or call it is in
    why,        \* why the poll loop was left: the flags and the except branch
    rc,         \* whether proc.poll() gave a return code
    at,         \* index of the next task directory to look at
    scan,       \* what the scan found so far
    last,       \* last_progress
    result,     \* what run_benchmark returned
    rows,       \* per iteration, tasks_pending_ids and tasks_running_ids
    loaded,     \* the lists as the processor's refresh read them
    calls,      \* on_progress coroutines on the event loop
    traces,     \* per task, its directory under traces/latest and who wrote it
    leader,     \* the Popen child: the leader of the process group
    helpers,    \* runs with other processes of their group alive
    stdout,     \* the JSON line in the leader's output
    expired,    \* time.monotonic() >= deadline
    cancelled,  \* Job.status = CANCELLED in the database
    outlived    \* history: runs whose group was alive when a later run began

flow   == <<cont, why, rc, at, scan, last, result>>
group  == <<leader, helpers, stdout>>
vars   == <<n, pc, flow, rows, loaded, calls, traces, group, expired, cancelled,
            outlived>>

Places == {"preflight", "prepare", "ask_first", "clear", "spawn", "poll", "scan",
           "check", "ask", "deadline", "stop", "term", "drain", "rescue",
           "final", "parse", "report", "returned", "close", "closed", "raised"}
Over   == {"returned", "close", "closed", "raised"}

(* The two lists of an iteration; a task on neither is shown as completed. *)
Lists      == [pending : SUBSET Tasks, running : SUBSET Tasks]
NoLists    == [pending |-> {NoTask}, running |-> {NoTask}]
AllPending == [pending |-> Tasks, running |-> {}]
Cleared    == [pending |-> {}, running |-> {}]
Completed(lists) == Tasks \ (lists.pending \cup lists.running)

(* A directory with files is running, with a result.json completed; "torn":
   the result.json is there and not yet whole. *)
Found    == {"none", "files", "torn", "done"}
HasResult == {"torn", "done"}
Trace    == [found : Found, by : Runs \cup {NoRun}]
NoTraces == [t \in Tasks |-> [found |-> "none", by |-> NoRun]]
Nothing  == [t \in Tasks |-> "none"]

(* A verifier's reward: none, below 0.5, or 0.5 and more. *)
Reward    == {"null", "low", "high"}
NoPayload == [t \in {} |-> "null"]

TaskStatus == {"passed", "failed", "infra_error"}
NoResult   == [t \in {NoTask} |-> "none"]
EmptyResult == [t \in {} |-> "none"]
Infra      == [t \in Tasks |-> "infra_error"]

Call == [run : Runs, lists : Lists, base : Lists \cup {NoLists}, mine : BOOLEAN]

PlaceOK ==
    /\ n \in Runs /\ pc \in Places
    /\ cont \in {"none", "spawn", "check", "parse", "infra"}
    /\ why \in {"none", "cancelled", "timeout", "failure"}
    /\ rc \in BOOLEAN /\ expired \in BOOLEAN /\ cancelled \in BOOLEAN

LocalsOK ==
    /\ at \in 1 .. Len(TaskIds) + 1
    /\ scan \in [Tasks -> Found]
    /\ last \in Lists \cup {NoLists}
    /\ result \in [Tasks -> TaskStatus] \cup {EmptyResult, NoResult}

RowsOK ==
    /\ rows \in [Runs -> Lists]
    /\ loaded \in Lists \cup {NoLists}

CallsOK ==
    /\ calls \subseteq Call
    /\ {c \in calls : c.mine} # {} <=> pc = "report"

GroupOK ==
    /\ traces \in [Tasks -> Trace]
    /\ leader \in {"none", "running", "ended"}
    /\ helpers \subseteq Runs /\ outlived \subseteq Runs
    /\ stdout \in [Tasks -> Reward] \cup {NoPayload}

TypeOK == PlaceOK /\ LocalsOK /\ RowsOK /\ CallsOK /\ GroupOK

Init ==
    /\ n = 1 /\ pc = "preflight" /\ cont = "none" /\ why = "none"
    /\ rc = FALSE /\ at = 1 /\ scan = Nothing
    /\ last = NoLists /\ loaded = NoLists /\ result = NoResult
    /\ rows = [r \in Runs |-> AllPending]
    /\ calls = {}
    /\ traces = NoTraces
    /\ leader = "none" /\ helpers = {} /\ stdout = NoPayload
    /\ expired = FALSE /\ cancelled = FALSE /\ outlived = {}

-----------------------------------------------------------------------------
(* The steps of the thread. A local variable that is not read again is reset,
   so that states which differ only in it are one. *)

Goto(p) == pc' = p

(* Mutant of Report: the thread does not wait for the call. *)
MutReportNoWait(lists, k) ==
    /\ calls' = calls \cup
         {[run |-> n, lists |-> lists, base |-> NoLists, mine |-> TRUE]}
    /\ cont' = k
    /\ Goto(IF k = "infra" THEN "returned" ELSE k)

(* sync_progress: hand the lists to the event loop and wait, then go on at k. *)
Report(lists, k) ==
    /\ calls' = calls \cup
         {[run |-> n, lists |-> lists, base |-> NoLists, mine |-> TRUE]}
    /\ cont' = k
    /\ Goto("report")

Answer(r) == result' = r /\ Goto("returned")

outside == <<n, rows, loaded, cancelled, outlived>>

Preflight ==
    /\ pc = "preflight"
    /\ \/ Report(Cleared, "infra")
       \/ Goto("prepare") /\ UNCHANGED <<calls, cont>>
    /\ UNCHANGED <<outside, why, rc, at, scan, last, result, traces, group, expired>>

(* ensure_repo, write_agent and the configuration file; git or the disk may fail. *)
Prepare ==
    /\ pc = "prepare"
    /\ Goto("ask_first") \/ Goto("raised")
    /\ UNCHANGED <<outside, flow, calls, traces, group, expired>>

(* sync_should_cancel before the start; a failed or late answer raises. *)
AskFirst ==
    /\ pc = "ask_first"
    /\ \/ cancelled /\ Answer(EmptyResult)
       \/ ~cancelled /\ Goto("clear") /\ UNCHANGED result
       \/ Goto("raised") /\ UNCHANGED result
    /\ UNCHANGED <<outside, cont, why, rc, at, scan, last, calls, traces, group, expired>>

(* Mutant of ClearTraces: the directory is only created when it is missing. *)
MutClearKeeps ==
    /\ pc = "clear"
    /\ \/ Report(AllPending, "spawn")
       \/ Goto("raised") /\ UNCHANGED <<calls, cont>>
    /\ UNCHANGED <<outside, why, rc, at, scan, last, result, traces, group, expired>>

ClearTraces ==
    /\ pc = "clear"
    /\ \/ traces' = NoTraces /\ Report(AllPending, "spawn")
       \/ Goto("raised") /\ UNCHANGED <<traces, calls, cont>>
    /\ UNCHANGED <<outside, why, rc, at, scan, last, result, group, expired>>

Spawn ==
    /\ pc = "spawn"
    /\ leader' = "running" /\ stdout' = NoPayload /\ expired' = FALSE
    /\ Goto("poll")
    /\ UNCHANGED <<outside, flow, calls, traces, helpers>>

SpawnFails ==
    /\ pc = "spawn"
    /\ Report(Cleared, "infra")
    /\ UNCHANGED <<outside, why, rc, at, scan, last, result, traces, group, expired>>

(* _read_harbor_progress, one task directory a step; k is where its caller is. *)
StartScan(k) ==
    /\ at' = 1 /\ scan' = Nothing /\ cont' = k
    /\ Goto("scan")

Poll ==
    /\ pc = "poll"
    /\ rc' = (leader = "ended")
    /\ StartScan("check")
    /\ UNCHANGED <<outside, why, last, result, calls, traces, group, expired>>

ScanTask ==
    /\ pc = "scan" /\ at <= Len(TaskIds)
    /\ scan' = [scan EXCEPT ![TaskIds[at]] = traces[TaskIds[at]].found]
    /\ at' = at + 1
    /\ UNCHANGED <<outside, pc, cont, why, rc, last, result, calls, traces, group, expired>>

Progress ==
    [pending |-> {t \in Tasks : scan[t] = "none"},
     running |-> {t \in Tasks : scan[t] = "files"}]

Scanned ==
    /\ pc = "scan" /\ at > Len(TaskIds)
    /\ \/ cont = "check" /\ scan # Nothing /\ Progress # last /\ Report(Progress, cont)
       \/ cont = "check" /\ (scan = Nothing \/ Progress = last)
            /\ Goto("check") /\ UNCHANGED <<calls, cont>>
       \/ cont = "parse" /\ Report(IF scan = Nothing THEN Cleared ELSE Progress, cont)
    /\ UNCHANGED <<outside, why, rc, at, scan, last, result, traces, group, expired>>

Forget == cont' = "none" /\ at' = 1 /\ scan' = Nothing

Check ==
    /\ pc = "check"
    /\ Goto(IF rc THEN "drain" ELSE "ask")
    /\ last' = IF rc THEN NoLists ELSE last
    /\ rc' = FALSE
    /\ Forget
    /\ UNCHANGED <<outside, why, result, calls, traces, group, expired>>

(* break out of the loop to _stop_process, or fall into the except branch. *)
Leave(reason) == why' = reason /\ last' = NoLists /\ Goto("stop")

(* Mutant of Ask: the answer is not looked at. *)
MutAskIgnored ==
    /\ pc = "ask"
    /\ \/ Goto("deadline") /\ UNCHANGED <<why, last>>
       \/ Leave("failure")
    /\ UNCHANGED <<outside, cont, rc, at, scan, result, calls, traces, group, expired>>

Ask ==
    /\ pc = "ask"
    /\ \/ cancelled /\ Leave("cancelled")
       \/ ~cancelled /\ Goto("deadline") /\ UNCHANGED <<why, last>>
       \/ Leave("failure")
    /\ UNCHANGED <<outside, cont, rc, at, scan, result, calls, traces, group, expired>>

(* Mutant of Deadline: the limit is never enforced. *)
MutDeadlineIgnored ==
    /\ pc = "deadline"
    /\ Goto("poll")
    /\ UNCHANGED <<outside, flow, calls, traces, group, expired>>

(* Past the deadline stop the group, else sleep and poll again. *)
Deadline ==
    /\ pc = "deadline"
    /\ \/ expired /\ Leave("timeout")
       \/ ~expired /\ Goto("poll") /\ UNCHANGED <<why, last>>
    /\ UNCHANGED <<outside, cont, rc, at, scan, result, calls, traces, group, expired>>

AfterStop == IF why = "failure" THEN "rescue" ELSE "drain"

(* Mutant of Stop: in the except branch the process is left alone. *)
MutStopNotOnFailure ==
    /\ pc = "stop"
    /\ Goto(IF leader = "ended" \/ why = "failure" THEN AfterStop ELSE "term")
    /\ UNCHANGED <<outside, flow, calls, traces, group, expired>>

(* _stop_process: nothing when the leader is gone, else SIGTERM to the group,
   which each process may obey, ignore, or take its time over. *)
Stop ==
    /\ pc = "stop"
    /\ Goto(IF leader = "ended" THEN AfterStop ELSE "term")
    /\ UNCHANGED <<outside, flow, calls, traces, group, expired>>

(* proc.wait(timeout=5) waits for the leader only. *)
Terminated ==
    /\ pc = "term" /\ leader = "ended"
    /\ Goto(AfterStop)
    /\ UNCHANGED <<outside, flow, calls, traces, group, expired>>

(* The five seconds are over: SIGKILL to the group. *)
Kill ==
    /\ pc = "term" /\ leader = "running"
    /\ leader' = "ended" /\ helpers' = helpers \ {n}
    /\ Goto(AfterStop)
    /\ UNCHANGED <<outside, flow, calls, traces, stdout, expired>>

(* Mutant of Drain: a run that was stopped is read like one that ended. *)
MutDrainForgetsWhy ==
    /\ pc = "drain"
    /\ \/ Goto("final") /\ UNCHANGED <<cont, why, last, result, calls>>
       \/ Leave("failure") /\ UNCHANGED <<cont, result, calls>>
    /\ UNCHANGED <<outside, rc, at, scan, traces, group, expired>>

(* communicate(timeout=30): it raises when a process still holds the pipe after
   30 seconds, or when what was printed cannot be decoded. *)
Drain ==
    /\ pc = "drain"
    /\ \/ why = "cancelled" /\ Answer(EmptyResult) /\ UNCHANGED <<cont, why, last, calls>>
       \/ why = "timeout" /\ Report(Cleared, "infra") /\ UNCHANGED <<why, last, result>>
       \/ why = "none" /\ Goto("final") /\ UNCHANGED <<cont, why, last, result, calls>>
       \/ Leave("failure") /\ UNCHANGED <<cont, result, calls>>
    /\ UNCHANGED <<outside, rc, at, scan, traces, group, expired>>

(* The except branch after its _stop_process; what communicate raises is dropped. *)
Rescue ==
    /\ pc = "rescue"
    /\ Report(Cleared, "infra")
    /\ UNCHANGED <<outside, why, rc, at, scan, last, result, traces, group, expired>>

FinalScan ==
    /\ pc = "final"
    /\ StartScan("parse")
    /\ UNCHANGED <<outside, why, rc, last, result, calls, traces, group, expired>>

Status(reward) ==
    CASE reward = "null" -> "infra_error"
      [] reward = "low"  -> "failed"
      [] reward = "high" -> "passed"

(* The payload's rewards, and each task's artifacts: json.loads raises on a file
   that is not whole. A directory without a result may hold half a trace.json.
   The tasks are read one by one: while a helper writes, any of the files may have
   become whole, or come into being, when its turn comes. *)
Parse ==
    /\ pc = "parse"
    /\ \/ stdout = NoPayload /\ Answer(Infra)
       \/ /\ stdout # NoPayload
          /\ helpers # {} \/ \A t \in Tasks : traces[t].found # "torn"
          /\ Answer([t \in Tasks |-> Status(stdout[t])])
       \/ /\ stdout # NoPayload
          /\ helpers # {} \/ \E t \in Tasks : traces[t].found \in {"files", "torn"}
          /\ Goto("raised") /\ UNCHANGED result
    /\ UNCHANGED <<outside, cont, why, rc, at, scan, last, calls, traces, group, expired>>

-----------------------------------------------------------------------------
(* The progress calls. Each has a session of its own: it reads the row and
   writes the lists that differ from what it read. *)

Merged(row, base, lists) ==
    [pending |-> IF lists.pending = base.pending THEN row.pending ELSE lists.pending,
     running |-> IF lists.running = base.running THEN row.running ELSE lists.running]

(* The thread's future is done: it goes on, in the loop with last_progress set. *)
Resume ==
    /\ last' = IF cont = "check" THEN Progress ELSE last
    /\ result' = IF cont = "infra" THEN Infra ELSE result
    /\ Goto(IF cont = "infra" THEN "returned" ELSE cont)
    /\ Forget
    /\ UNCHANGED <<why, rc>>

(* The future raises: in the loop that is the except branch, elsewhere nothing
   catches it. *)
Fail ==
    /\ IF cont = "check" THEN Leave("failure")
                         ELSE Goto("raised") /\ UNCHANGED <<why, last>>
    /\ rc' = FALSE
    /\ Forget
    /\ UNCHANGED result

unheard == <<n, loaded, traces, group, expired, cancelled, outlived>>

CallReads(c) ==
    /\ c.base = NoLists
    /\ calls' = (calls \ {c}) \cup {[c EXCEPT !.base = rows[c.run]]}
    /\ UNCHANGED <<unheard, pc, flow, rows>>

(* Mutant of CallCommits: it writes the row of the iteration that now runs. *)
MutCommitsToCurrent(c) ==
    /\ c.base # NoLists
    /\ rows' = [rows EXCEPT ![n] = Merged(@, c.base, c.lists)]
    /\ calls' = calls \ {c}
    /\ IF c.mine THEN Resume ELSE UNCHANGED <<pc, flow>>
    /\ UNCHANGED unheard

CallCommits(c) ==
    /\ c.base # NoLists
    /\ rows' = [rows EXCEPT ![c.run] = Merged(@, c.base, c.lists)]
    /\ calls' = calls \ {c}
    /\ IF c.mine THEN Resume ELSE UNCHANGED <<pc, flow>>
    /\ UNCHANGED unheard

CallFails(c) ==
    /\ calls' = calls \ {c}
    /\ IF c.mine THEN Fail ELSE UNCHANGED <<pc, flow>>
    /\ UNCHANGED <<unheard, rows>>

Late == {c \in calls : ~c.mine}
MoreStrays == Cardinality(Late) + Cardinality(helpers) < MaxStrays

(* fut.result(timeout=30) gives up; the coroutine is not cancelled. *)
TimesOut(c) ==
    /\ c.mine
    /\ \/ calls' = calls \ {c}
       \/ /\ MoreStrays
          /\ calls' = (calls \ {c}) \cup {[c EXCEPT !.mine = FALSE]}
    /\ Fail
    /\ UNCHANGED <<unheard, rows>>

-----------------------------------------------------------------------------
(* The process group. *)

alone == <<n, pc, flow, rows, loaded, calls, expired, cancelled, outlived>>

(* The leader ends by itself or of SIGTERM, with or without its line of JSON. *)
LeaderEnds ==
    /\ leader = "running"
    /\ leader' = "ended"
    /\ stdout' \in [Tasks -> Reward] \cup {NoPayload}
    /\ UNCHANGED <<alone, traces, helpers>>

HelperStarts ==
    /\ leader = "running" /\ MoreStrays
    /\ helpers' = helpers \cup {n}
    /\ UNCHANGED <<alone, traces, leader, stdout>>

HelperEnds(r) ==
    /\ r \in helpers
    /\ helpers' = helpers \ {r}
    /\ UNCHANGED <<alone, traces, leader, stdout>>

Alive == helpers \cup (IF leader = "running" THEN {n} ELSE {})

(* A process of run r moves a task's directory on: files, a result.json begun,
   a result.json whole. *)
Writes(r, t) ==
    /\ r \in Alive
    /\ \/ traces[t].found = "none"  /\ traces' = [traces EXCEPT ![t] = [found |-> "files", by |-> r]]
       \/ traces[t].found = "files" /\ traces' = [traces EXCEPT ![t] = [found |-> "torn", by |-> r]]
       \/ traces[t].found = "torn" /\ traces[t].by = r
            /\ traces' = [traces EXCEPT ![t].found = "done"]
    /\ UNCHANGED <<alone, group>>

(* Only the poll loop reads the clock. *)
DeadlinePasses ==
    /\ pc \in {"poll", "scan", "check", "ask", "deadline", "report"}
    /\ leader # "none" /\ ~expired
    /\ expired' = TRUE
    /\ UNCHANGED <<n, pc, flow, rows, loaded, calls, traces, group, cancelled, outlived>>

(* cancel_job. *)
JobCancelled ==
    /\ ~cancelled
    /\ cancelled' = TRUE
    /\ UNCHANGED <<n, pc, flow, rows, loaded, calls, traces, group, expired, outlived>>

-----------------------------------------------------------------------------
(* The processor, after run_benchmark: refresh, clear the lists, commit, and
   the next iteration's row unless the job is over. *)
AfterRun ==
    /\ pc = "returned"
    /\ loaded' = rows[n]
    /\ Goto("close")
    /\ UNCHANGED <<n, flow, rows, calls, traces, group, expired, cancelled, outlived>>

Close ==
    /\ pc = "close"
    /\ rows' = [rows EXCEPT ![n] = Merged(@, loaded, Cleared)]
    /\ loaded' = NoLists
    /\ Goto("closed")
    /\ UNCHANGED <<n, flow, calls, traces, group, expired, cancelled, outlived>>

NextRun ==
    /\ pc = "closed" /\ ~cancelled
    /\ n < MaxRuns
    /\ n' = n + 1
    /\ outlived' = outlived \cup helpers
    /\ why' = "none" /\ rc' = FALSE /\ Forget
    /\ last' = NoLists /\ result' = NoResult
    /\ leader' = "none" /\ stdout' = NoPayload /\ expired' = FALSE
    /\ Goto("preflight")
    /\ UNCHANGED <<rows, loaded, calls, traces, helpers, cancelled>>

Thread ==
    \/ Preflight \/ Prepare \/ AskFirst \/ ClearTraces \/ Spawn \/ SpawnFails
    \/ Poll \/ ScanTask \/ Scanned \/ Check \/ Ask \/ Deadline
    \/ Stop \/ Terminated \/ Kill \/ Drain \/ Rescue \/ FinalScan \/ Parse
    \/ \E c \in calls : TimesOut(c)

(* Bound: the group is no longer followed when no iteration can come after it. *)
Group ==
    /\ pc # "raised" /\ (pc \in Over => n < MaxRuns)
    /\ \/ LeaderEnds \/ HelperStarts
       \/ \E r \in Runs : HelperEnds(r) \/ \E t \in Tasks : Writes(r, t)

Next ==
    \/ Thread \/ Group \/ DeadlinePasses \/ JobCancelled
    \/ \E c \in calls : CallReads(c) \/ CallCommits(c) \/ CallFails(c)
    \/ AfterRun \/ Close \/ NextRun

Spec == Init /\ [][Next]_vars

(* git clone, which ensure_repo calls while benchmark.py is missing, that is
   before the first run: the one wait of the thread without a limit. *)
Cloning == pc = "prepare" /\ n = 1

(* The thread is never stopped between its waits, and each but the clone has a
   limit. Of git, Harbor, the database and the clock nothing is assumed. *)
FairSpec == Spec /\ WF_vars(Thread /\ ~Cloning)

-----------------------------------------------------------------------------
(* Properties *)

Asked == {"spawn", "poll", "scan", "check", "ask", "deadline", "stop", "term"}

(* Whatever made the thread leave the poll loop (an exit, a cancellation, the
   deadline, a failed database call in the middle of it), Harbor's own process
   is gone before the output is collected and stays gone: no iteration begins
   while the runner of an earlier one works in the same directory. *)
RunnerIsGone ==
    pc \in {"drain", "rescue", "final", "parse", "close", "closed", "returned", "raised"}
        => leader # "running"

(* A task is passed only if the runner of this iteration ended by itself and
   printed a passing reward: a run that was cancelled, timed out or lost its
   database credits nothing. *)
PassesAreEarned ==
    pc \in Over => \A t \in DOMAIN result :
        result[t] = "passed" => why = "none" /\ t \in DOMAIN stdout /\ stdout[t] = "high"

(* A result without tasks, which scores 0 and reads as no task failed, is given
   back only for a cancelled job, where the processor discards it. *)
EmptyOnlyIfCancelled == result = EmptyResult => cancelled

(* While a run is polled or read, every artifact in the directory was written by
   this run, or by an earlier one whose processes outlived their iteration. *)
ArtifactsAreOfThisRun ==
    pc \in Asked \cup {"drain", "rescue", "final", "parse"} =>
        \A t \in Tasks : traces[t].by \in {NoRun, n} \cup outlived

(* What a client sees of an iteration only moves forward: a task shown completed
   is not shown pending or running again, unless by a call the thread had given
   up on 30 seconds earlier. *)
ProgressOnlyMovesForward ==
    [][\A r \in Runs : Completed(rows[r]) \subseteq Completed(rows'[r])
         \/ \E c \in Late : c.run = r /\ c \notin calls']_vars

(* A cancelled job's run comes to an end, however long Harbor would go on and
   whatever call hangs, with one exception: the clone before the first run has no
   limit, and nothing looks at the job before it is over. *)
CancelEndsRun == cancelled ~> (pc \in Over \/ []Cloning)

(* A run whose deadline passed comes to an end. The deadline is set when Harbor has
   been started, so no clone is ahead. *)
DeadlineEndsRun == expired ~> pc \in Over

(* harbor.py:113-114, "wipe prior run artifacts so progress polling never sees
   stale result.json files": a result seen while polling is of this run. *)
NeverSeesStaleResult ==
    pc \in Asked => \A t \in Tasks :
        traces[t].found \in HasResult => traces[t].by \in {NoRun, n}
=============================================================================
