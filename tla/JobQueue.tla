------------------------------- MODULE JobQueue -------------------------------
(***************************************************************************)
(* Submissions, the cancel endpoint and the background workers that share  *)
(* the jobs table: app/api/jobs.py, app/worker/worker.py and the parts of  *)
(* JobProcessor.process that touch Job.status. One worker runs per service *)
(* process; several processes may share a database. What happens inside    *)
(* one run of the processor is module JobProcessor's; here a run ends with *)
(* any status it can leave behind.                                         *)
(***************************************************************************)
EXTENDS Integers

CONSTANTS NumJobs,          \* bound: jobs submitted
          Workers,          \* one per service process
          MaxBoots,         \* bound: how often service processes are started
          Stops,            \* whether a service may be shut down
          DbFaults,         \* whether a statement of a worker may fail
          Crashes           \* whether a service process may be killed

ASSUME NumJobsType == NumJobs \in Nat
ASSUME BootsPositive == MaxBoots \in Nat \ {0}
ASSUME SwitchesType == {Stops, DbFaults, Crashes} \subseteq BOOLEAN

(* Jobs are numbered by created_at. *)
Jobs  == 1 .. NumJobs
NoJob == 0

JobStatus == {"queued", "running", "completed", "failed", "cancelled"}
Terminal  == {"completed", "failed", "cancelled"}

VARIABLES
    status,     \* Job.status of the committed rows, "absent" before the commit
    template,   \* jobs whose agent version 0 is stored: unique (job_id, version_no)
    checked,    \* jobs with a cancel request that has read an active status
    wpc,        \* where each worker's task is
    held,       \* the job id the worker's task has in hand
    seen,       \* Job.status as the worker's processor last loaded it
    stopping,   \* Worker._stop is set
    boots,      \* how many times a service process was started
    lost        \* jobs that were in hand when their worker was cut off

vars == <<status, template, checked, wpc, held, seen, stopping, boots, lost>>
worker == <<wpc, held, seen, stopping, boots, lost>>

Places  == {"off", "claim", "update", "load", "setup", "working", "wait", "dead"}
Halted  == {"off", "dead"}
InHand  == {"update", "load", "setup", "working"}

TypeOK ==
    /\ status \in [Jobs -> JobStatus \cup {"absent"}]
    /\ template \subseteq Jobs /\ checked \subseteq Jobs /\ lost \subseteq Jobs
    /\ wpc \in [Workers -> Places]
    /\ held \in [Workers -> Jobs \cup {NoJob}]
    /\ seen \in [Workers -> JobStatus \cup {"none"}]
    /\ stopping \in [Workers -> BOOLEAN]
    /\ boots \in 0 .. MaxBoots
    /\ \A w \in Workers : held[w] # NoJob <=> wpc[w] \in InHand

Init ==
    /\ status = [j \in Jobs |-> "absent"]
    /\ template = {} /\ checked = {} /\ lost = {}
    /\ wpc = [w \in Workers |-> "off"]
    /\ held = [w \in Workers |-> NoJob]
    /\ seen = [w \in Workers |-> "none"]
    /\ stopping = [w \in Workers |-> FALSE]
    /\ boots = 0

Queued == {j \in Jobs : status[j] = "queued"}

-----------------------------------------------------------------------------
(* create_job. created_at is taken when the row is built and the row is seen
   by others when it is committed, so rows may appear out of order. *)
Submit(j) ==
    /\ status[j] = "absent"
    /\ status' = [status EXCEPT ![j] = "queued"]
    /\ UNCHANGED <<template, checked, worker>>

(* cancel_job: test the status, then write it. *)
CancelCheck(j) ==
    /\ j \notin checked
    /\ status[j] \in {"queued", "running"}
    /\ checked' = checked \cup {j}
    /\ UNCHANGED <<status, template, worker>>

CancelWrite(j) ==
    /\ j \in checked
    /\ status' = [status EXCEPT ![j] = "cancelled"]
    /\ checked' = checked \ {j}
    /\ UNCHANGED <<template, worker>>

-----------------------------------------------------------------------------
Goto(w, p) == wpc' = [wpc EXCEPT ![w] = p]

(* Mutant of Drop: the job stays in hand. *)
MutDropKeepsJob(w, p) ==
    /\ Goto(w, p)
    /\ seen' = [seen EXCEPT ![w] = "none"]
    /\ UNCHANGED held

(* Leave the job in hand and go to p. *)
Drop(w, p) ==
    /\ Goto(w, p)
    /\ held' = [held EXCEPT ![w] = NoJob]
    /\ seen' = [seen EXCEPT ![w] = "none"]

(* lifespan: a service process starts, with a new Worker. *)
Start(w) ==
    /\ wpc[w] = "off"
    /\ boots < MaxBoots
    /\ boots' = boots + 1
    /\ stopping' = [stopping EXCEPT ![w] = FALSE]
    /\ Goto(w, "claim")
    /\ UNCHANGED <<status, template, checked, held, seen, lost>>

(* lifespan after yield: Worker.stop sets the event and awaits the task. *)
StopRequest(w) ==
    /\ Stops
    /\ wpc[w] # "off" /\ ~stopping[w]
    /\ stopping' = [stopping EXCEPT ![w] = TRUE]
    /\ UNCHANGED <<status, template, checked, wpc, held, seen, boots, lost>>

(* The while condition of _loop ends the task, or stop() finds it dead and
   raises its exception: the service process ends either way. *)
Exit(w) ==
    /\ wpc[w] \in {"claim", "dead"} /\ stopping[w]
    /\ Goto(w, "off")
    /\ UNCHANGED <<status, template, checked, held, seen, stopping, boots, lost>>

(* _claim_next_job, the SELECT: the oldest queued job. *)
Select(w) ==
    /\ wpc[w] = "claim" /\ ~stopping[w]
    /\ \E j \in Queued :
          /\ \A k \in Queued : j <= k
          /\ held' = [held EXCEPT ![w] = j]
    /\ Goto(w, "update")
    /\ UNCHANGED <<status, template, checked, seen, stopping, boots, lost>>

SelectNone(w) ==
    /\ wpc[w] = "claim" /\ ~stopping[w]
    /\ Queued = {}
    /\ Goto(w, "wait")
    /\ UNCHANGED <<status, template, checked, held, seen, stopping, boots, lost>>

(* Mutant of Wake: no timeout, only the event ends the wait. *)
MutWakeOnEvent(w) ==
    /\ wpc[w] = "wait" /\ stopping[w]
    /\ Goto(w, "claim")
    /\ UNCHANGED <<status, template, checked, held, seen, stopping, boots, lost>>

(* Mutant of Wake: the wait ends when there is work, and only then. *)
MutWakeOnWork(w) ==
    /\ wpc[w] = "wait" /\ Queued # {}
    /\ Goto(w, "claim")
    /\ UNCHANGED <<status, template, checked, held, seen, stopping, boots, lost>>

(* wait_for(_stop.wait(), poll interval): by the event or by the timeout. *)
Wake(w) ==
    /\ wpc[w] = "wait"
    /\ Goto(w, "claim")
    /\ UNCHANGED <<status, template, checked, held, seen, stopping, boots, lost>>

(* Mutant of Claimed: the UPDATE without `status == QUEUED`. *)
MutClaimedAlways(j) == "running"

(* The conditional UPDATE of _claim_next_job. *)
Claimed(j) == IF status[j] = "queued" THEN "running" ELSE status[j]

(* Mutant of Update: the event is tested again between claim and processing. *)
MutUpdateThenStop(w) ==
    /\ wpc[w] = "update"
    /\ status' = [status EXCEPT ![held[w]] = Claimed(held[w])]
    /\ IF stopping[w] THEN Drop(w, "off") ELSE Goto(w, "load") /\ UNCHANGED <<held, seen>>
    /\ UNCHANGED <<template, checked, stopping, boots, lost>>

(* The row count of the UPDATE is not read: the id is returned in any case. *)
Update(w) ==
    /\ wpc[w] = "update"
    /\ status' = [status EXCEPT ![held[w]] = Claimed(held[w])]
    /\ Goto(w, "load")
    /\ UNCHANGED <<template, checked, held, seen, stopping, boots, lost>>

(* The history of interrupted jobs. *)
CutOff(w) == lost' = IF held[w] = NoJob THEN lost ELSE lost \cup {held[w]}

(* Nothing catches an exception of _claim_next_job: the worker's task ends. The
   claim it was committing may have been applied nevertheless. *)
ClaimFault(w) ==
    /\ DbFaults
    /\ \/ wpc[w] = "claim" /\ ~stopping[w] /\ UNCHANGED <<status, lost>>
       \/ wpc[w] = "update" /\ UNCHANGED <<status, lost>>
       \/ /\ wpc[w] = "update" /\ status[held[w]] = "queued"
          /\ status' = [status EXCEPT ![held[w]] = Claimed(held[w])]
          /\ CutOff(w)
    /\ Drop(w, "dead")
    /\ UNCHANGED <<template, checked, stopping, boots>>

(* process: a job that is not active any more is let go. *)
Load(w) ==
    /\ wpc[w] = "load"
    /\ IF status[held[w]] \in {"queued", "running"}
       THEN /\ seen' = [seen EXCEPT ![w] = status[held[w]]]
            /\ Goto(w, "setup")
            /\ UNCHANGED held
       ELSE Drop(w, "claim")
    /\ UNCHANGED <<status, template, checked, stopping, boots, lost>>

(* The first commit of _run_loop stores agent version 0. *)
SetUp(w) ==
    /\ wpc[w] = "setup"
    /\ held[w] \notin template
    /\ template' = template \cup {held[w]}
    /\ Goto(w, "working")
    /\ UNCHANGED <<status, checked, held, seen, stopping, boots, lost>>

(* Mutant of SetUpRefused: no unique constraint, the second run goes on. *)
MutSetUpTwice(w) ==
    /\ wpc[w] = "setup"
    /\ held[w] \in template
    /\ Goto(w, "working")
    /\ UNCHANGED <<status, template, checked, held, seen, stopping, boots, lost>>

(* The job has been set up by another processor: the unique constraint refuses
   the row, the session is broken, and the handler cannot write FAILED. *)
SetUpRefused(w) ==
    /\ wpc[w] = "setup"
    /\ held[w] \in template
    /\ Drop(w, "claim")
    /\ UNCHANGED <<status, template, checked, stopping, boots, lost>>

(* The run sees the cancellation at one of its refreshes and returns. *)
Notice(w) ==
    /\ wpc[w] = "working"
    /\ status[held[w]] = "cancelled"
    /\ Drop(w, "claim")
    /\ UNCHANGED <<status, template, checked, stopping, boots, lost>>

(* The run ends without having seen one: its copy says running, so the final
   status is written over whatever the row holds by now. Before version 0 is
   stored it can only end by an exception. *)
Finish(w) ==
    /\ wpc[w] \in {"setup", "working"}
    /\ \E s \in IF wpc[w] = "setup" THEN {"failed"} ELSE {"completed", "failed"} :
          status' = [status EXCEPT ![held[w]] = s]
    /\ Drop(w, "claim")
    /\ UNCHANGED <<template, checked, stopping, boots, lost>>

(* The load or a write of the run fails: the run ends, and the broken session
   persists nothing more. *)
RunAborts(w) ==
    /\ DbFaults
    /\ wpc[w] \in {"load", "setup", "working"}
    /\ CutOff(w)
    /\ Drop(w, "claim")
    /\ UNCHANGED <<status, template, checked, stopping, boots>>

(* The service process is killed, its task and all in memory with it. *)
Crash(w) ==
    /\ Crashes
    /\ wpc[w] # "off"
    /\ CutOff(w)
    /\ Drop(w, "off")
    /\ UNCHANGED <<status, template, checked, stopping, boots>>

-----------------------------------------------------------------------------
(* The steps of the worker's own task. *)
Task(w) ==
    \/ Exit(w) \/ Select(w) \/ SelectNone(w) \/ Wake(w) \/ Update(w) \/ Load(w)
    \/ SetUp(w) \/ SetUpRefused(w) \/ Notice(w) \/ Finish(w)

Next ==
    \/ \E j \in Jobs : Submit(j) \/ CancelCheck(j) \/ CancelWrite(j)
    \/ \E w \in Workers :
          Start(w) \/ StopRequest(w) \/ Task(w) \/ ClaimFault(w) \/ RunAborts(w) \/ Crash(w)

Spec == Init /\ [][Next]_vars

(* A live task is resumed when its await is over, and every await ends: waiting
   has a timeout and a run of the processor terminates (ProcessorTerminates of
   JobProcessor). Clients, operators, faults and restarts owe nothing. *)
Fairness == \A w \in Workers : WF_vars(Task(w))
FairSpec == Spec /\ Fairness

-----------------------------------------------------------------------------
(* Two processors never run the same job at once, although a second worker is
   handed a job it did not claim (worker.py:66-70): version 0 is stored once. *)
OneRunPerJob ==
    \A v, w \in Workers :
        v # w /\ wpc[v] = "working" /\ wpc[w] = "working" => held[v] # held[w]

(* A running job is in some worker's hands unless its worker was cut off by a
   crash or a failed write: shutting a service down loses no job
   (worker.py:28-33), and nothing else does. *)
RunningJobsAreHeld ==
    \A j \in Jobs : status[j] = "running" =>
        j \in lost \/ \E w \in Workers : held[w] = j

(* A finished or cancelled job never becomes active again, however claims,
   cancellations and runs of several workers overlap (test_api.py:236). *)
NothingRevives ==
    [][\A j \in Jobs : status[j] \in Terminal => status'[j] \in Terminal]_vars

(* Only a processor that loaded the job before the cancellation can take it out
   of "cancelled": a job cancelled while queued, even between a worker's SELECT
   and its UPDATE, stays cancelled (test_api.py:236). *)
OnlyEarlierLoadOverwrites ==
    [][\A j \in Jobs :
          status[j] = "cancelled" /\ (\A w \in Workers : held[w] = j => seen[w] = "none")
             => status'[j] = "cancelled"]_vars

(* A queued job is taken, cancelled or claimed, as long as some worker's task
   is alive and not shutting down (README.md:54). *)
QueuedJobsAreTaken ==
    \A j \in Jobs :
        status[j] = "queued" ~>
            \/ status[j] # "queued"
            \/ \A w \in Workers : wpc[w] \in Halted \/ stopping[w]

(* A shutdown ends: the task finishes the job it has in hand and leaves, or is
   found dead (worker.py:28-33, main.py:40). *)
ShutdownEnds == \A w \in Workers : stopping[w] ~> wpc[w] = "off"

-----------------------------------------------------------------------------
(* README.md:54: "If no work is available, the worker waits briefly and checks
   again": a started service that is not shut down or killed serves the queue. *)
QueueIsServed ==
    \A j \in Jobs :
        status[j] = "queued" /\ (\E w \in Workers : wpc[w] # "off") ~> status[j] # "queued"
=============================================================================
