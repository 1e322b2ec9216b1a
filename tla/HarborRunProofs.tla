---------------------------- MODULE HarborRunProofs ----------------------------
(***************************************************************************)
(* Type correctness of HarborRun, that the runner is gone when its run is  *)
(* over, that every pass is earned, that the progress a client sees moves  *)
(* forward, and that few steps end a run which is cancelled or out of      *)
(* time, for every list of tasks and every number of iterations.           *)
(***************************************************************************)
EXTENDS HarborRun, TLAPS

USE DEF Runs, NoRun

(* The places of the thread before there is a process, and after it is read. *)
Before == {"preflight", "prepare", "ask_first", "clear", "spawn"}
Reading == {"final", "parse"}

(* At most one call is the one the thread waits for. *)
OneCall == \A c, d \in calls : c.mine /\ d.mine => c = d

(* Where the thread goes after a scan or a call. *)
ContInv ==
    /\ pc = "scan" => cont \in {"check", "parse"}
    /\ pc = "report" => cont \in {"spawn", "check", "parse", "infra"}

(* What each place of the thread tells of the runner. *)
RunnerInv ==
    /\ pc \in Before => leader = "none"
    /\ pc = "report" /\ cont = "spawn" => leader = "none"
    /\ pc \in {"drain", "rescue"} \cup Reading \cup Over => leader # "running"
    /\ pc \in {"scan", "report"} /\ cont \in {"parse", "infra"} => leader # "running"
    /\ rc => leader # "running" /\ (pc = "check" \/ (pc \in {"scan", "report"} /\ cont = "check"))

(* Only a run that was not stopped is read, *)
WhyInv ==
    pc \in Reading \/ (pc \in {"scan", "report"} /\ cont = "parse") => why = "none"

(* and only reading its output makes a pass. *)
PassInv ==
    \A t \in DOMAIN result : result[t] = "passed" =>
        pc \in Over /\ why = "none" /\ t \in DOMAIN stdout /\ stdout[t] = "high"

IInv == TypeOK /\ OneCall /\ ContInv /\ RunnerInv /\ WhyInv /\ PassInv

-----------------------------------------------------------------------------
LEMMA InitLists == AllPending \in Lists /\ Cleared \in Lists
BY DEF AllPending, Cleared, Lists

(* A list the thread reports from a scan is a pair of sets of tasks. *)
LEMMA ProgressType == Progress \in Lists
BY DEF Progress, Lists

(* A row after a call's write is a pair of sets of tasks. *)
LEMMA MergedType ==
    ASSUME NEW row \in Lists, NEW base, NEW lists \in Lists
    PROVE  Merged(row, base, lists) \in Lists
BY DEF Merged, Lists

(* The values outside the range of results and payloads. *)
LEMMA EdgeValues ==
    /\ \A t \in DOMAIN NoResult : NoResult[t] # "passed"
    /\ \A t \in DOMAIN EmptyResult : EmptyResult[t] # "passed"
    /\ \A t \in DOMAIN Infra : Infra[t] # "passed"
    /\ Infra \in [Tasks -> TaskStatus]
BY DEF NoResult, EmptyResult, Infra, TaskStatus

(* A reward gives one of the three statuses, and passed only if it is high. *)
LEMMA StatusType ==
    ASSUME NEW reward \in Reward
    PROVE  /\ Status(reward) \in TaskStatus
           /\ Status(reward) = "passed" => reward = "high"
BY DEF Reward, Status, TaskStatus

LEMMA LenType == Len(TaskIds) \in Nat /\ \A i \in 1 .. Len(TaskIds) : TaskIds[i] \in Tasks
BY TaskIdsType DEF Tasks

THEOREM InitInv == Init => IInv
<1> SUFFICES ASSUME Init PROVE IInv
  OBVIOUS
<1>1. TypeOK
  <2>1. n \in Runs /\ at \in 1 .. Len(TaskIds) + 1
    BY LenType, MaxRunsPositive DEF Init
  <2>2. scan \in [Tasks -> Found] /\ traces \in [Tasks -> Trace]
    BY DEF Init, Nothing, Found, NoTraces, Trace
  <2>3. rows \in [Runs -> Lists]
    BY InitLists DEF Init
  <2>4. {c \in calls : c.mine} # {} <=> pc = "report"
    BY DEF Init
  <2>5. calls \subseteq Call /\ helpers \subseteq Runs /\ outlived \subseteq Runs
    BY DEF Init
  <2> QED BY <2>1, <2>2, <2>3, <2>4, <2>5 DEF Init, TypeOK, PlaceOK, LocalsOK, RowsOK, CallsOK, GroupOK, Places
<1>2. OneCall /\ ContInv /\ RunnerInv /\ WhyInv
  BY DEF Init, OneCall, ContInv, RunnerInv, WhyInv, Before, Reading, Over
<1>3. PassInv
  BY EdgeValues DEF Init, PassInv
<1> QED BY <1>1, <1>2, <1>3 DEF IInv

-----------------------------------------------------------------------------
(* A step that starts a call, and waits for it: the one the thread waits for. *)
Starts == pc' = "report" /\ \E c \in Call : c.mine /\ calls' = calls \cup {c}
Quiet  == pc' # "report" /\ pc # "report" /\ calls' = calls

LEMMA CallsKept ==
    ASSUME IInv, pc # "report", Starts \/ Quiet
    PROVE  /\ CallsOK'
                      /\ OneCall'
<1>1. calls \subseteq Call /\ \A c \in calls : ~c.mine
  BY DEF IInv, TypeOK, PlaceOK, CallsOK
<1>2. CASE Quiet
  BY <1>1, <1>2 DEF Quiet, OneCall, CallsOK
<1>3. CASE Starts
  <2>1. PICK c \in Call : c.mine /\ calls' = calls \cup {c}
    BY <1>3 DEF Starts
  <2> QED BY <1>1, <1>3, <2>1 DEF Starts, OneCall, CallsOK
<1> QED BY <1>2, <1>3

(* What Report adds is a call. *)
LEMMA NewCallType ==
    ASSUME NEW r \in Runs, NEW lists \in Lists
    PROVE  [run |-> r, lists |-> lists, base |-> NoLists, mine |-> TRUE] \in Call
BY DEF Call

LEMMA ReportStarts ==
    ASSUME IInv, NEW k, NEW lists \in Lists, Report(lists, k)
    PROVE  Starts
<1>1. n \in Runs
  BY DEF IInv, TypeOK, PlaceOK, CallsOK
<1> QED BY <1>1, NewCallType DEF Report, Starts, Goto

-----------------------------------------------------------------------------
(* One lemma per step of the thread: what it does to the calls, each part of the
   type invariant, the places, and the result. *)

LEMMA PrepareStep ==
    ASSUME IInv, Prepare
    PROVE  IInv'
<1> USE DEF Goto, outside, flow, group
<1>0. Quiet
  BY DEF Quiet, Prepare
<1>1. TypeOK'
  <2>1. PlaceOK'
    BY DEF IInv, TypeOK, PlaceOK, Places, Prepare
  <2>2. LocalsOK'
    BY DEF IInv, TypeOK, LocalsOK, Prepare
  <2>3. RowsOK'
    BY DEF IInv, TypeOK, RowsOK, Prepare
  <2>4. CallsOK'
    BY <1>0, CallsKept DEF Prepare
  <2>5. GroupOK'
    BY DEF IInv, TypeOK, PlaceOK, GroupOK, Prepare
  <2> QED BY <2>1, <2>2, <2>3, <2>4, <2>5 DEF TypeOK
<1>2. OneCall'
  BY <1>0, CallsKept DEF Prepare
<1>3. ContInv' /\ RunnerInv' /\ WhyInv'
  BY DEF IInv, TypeOK, PlaceOK, ContInv, RunnerInv, WhyInv, Before, Reading, Over, Prepare
<1>4. PassInv'
  BY DEF IInv, PassInv, RunnerInv, WhyInv, Over, Before, Reading, Prepare
<1> QED BY <1>1, <1>2, <1>3, <1>4 DEF IInv

LEMMA CheckStep ==
    ASSUME IInv, Check
    PROVE  IInv'
<1> USE DEF Goto, outside, flow, group, Forget
<1>0. Quiet
  BY DEF Quiet, Check
<1>1. TypeOK'
  <2>1. PlaceOK'
    BY DEF IInv, TypeOK, PlaceOK, Places, Check
  <2>2. LocalsOK'
    BY LenType DEF IInv, TypeOK, LocalsOK, Check, Nothing, Found
  <2>3. RowsOK'
    BY DEF IInv, TypeOK, RowsOK, Check
  <2>4. CallsOK'
    BY <1>0, CallsKept DEF Check
  <2>5. GroupOK'
    BY DEF IInv, TypeOK, PlaceOK, GroupOK, Check
  <2> QED BY <2>1, <2>2, <2>3, <2>4, <2>5 DEF TypeOK
<1>2. OneCall'
  BY <1>0, CallsKept DEF Check
<1>3. ContInv' /\ RunnerInv' /\ WhyInv'
  BY DEF IInv, TypeOK, PlaceOK, ContInv, RunnerInv, WhyInv, Before, Reading, Over, Check
<1>4. PassInv'
  BY DEF IInv, PassInv, RunnerInv, WhyInv, Over, Before, Reading, Check
<1> QED BY <1>1, <1>2, <1>3, <1>4 DEF IInv

LEMMA AskStep ==
    ASSUME IInv, Ask
    PROVE  IInv'
<1> USE DEF Goto, outside, flow, group, Leave
<1>0. Quiet
  BY DEF Quiet, Ask
<1>1. TypeOK'
  <2>1. PlaceOK'
    BY DEF IInv, TypeOK, PlaceOK, Places, Ask
  <2>2. LocalsOK'
    BY DEF IInv, TypeOK, LocalsOK, Ask
  <2>3. RowsOK'
    BY DEF IInv, TypeOK, RowsOK, Ask
  <2>4. CallsOK'
    BY <1>0, CallsKept DEF Ask
  <2>5. GroupOK'
    BY DEF IInv, TypeOK, PlaceOK, GroupOK, Ask
  <2> QED BY <2>1, <2>2, <2>3, <2>4, <2>5 DEF TypeOK
<1>2. OneCall'
  BY <1>0, CallsKept DEF Ask
<1>3. ContInv' /\ RunnerInv' /\ WhyInv'
  BY DEF IInv, TypeOK, PlaceOK, ContInv, RunnerInv, WhyInv, Before, Reading, Over, Ask
<1>4. PassInv'
  BY DEF IInv, PassInv, RunnerInv, WhyInv, Over, Before, Reading, Ask
<1> QED BY <1>1, <1>2, <1>3, <1>4 DEF IInv

LEMMA DeadlineStep ==
    ASSUME IInv, Deadline
    PROVE  IInv'
<1> USE DEF Goto, outside, flow, group, Leave
<1>0. Quiet
  BY DEF Quiet, Deadline
<1>1. TypeOK'
  <2>1. PlaceOK'
    BY DEF IInv, TypeOK, PlaceOK, Places, Deadline
  <2>2. LocalsOK'
    BY DEF IInv, TypeOK, LocalsOK, Deadline
  <2>3. RowsOK'
    BY DEF IInv, TypeOK, RowsOK, Deadline
  <2>4. CallsOK'
    BY <1>0, CallsKept DEF Deadline
  <2>5. GroupOK'
    BY DEF IInv, TypeOK, PlaceOK, GroupOK, Deadline
  <2> QED BY <2>1, <2>2, <2>3, <2>4, <2>5 DEF TypeOK
<1>2. OneCall'
  BY <1>0, CallsKept DEF Deadline
<1>3. ContInv' /\ RunnerInv' /\ WhyInv'
  BY DEF IInv, TypeOK, PlaceOK, ContInv, RunnerInv, WhyInv, Before, Reading, Over, Deadline
<1>4. PassInv'
  BY DEF IInv, PassInv, RunnerInv, WhyInv, Over, Before, Reading, Deadline
<1> QED BY <1>1, <1>2, <1>3, <1>4 DEF IInv

LEMMA StopStep ==
    ASSUME IInv, Stop
    PROVE  IInv'
<1> USE DEF Goto, outside, flow, group, AfterStop
<1>0. Quiet
  BY DEF Quiet, Stop
<1>1. TypeOK'
  <2>1. PlaceOK'
    BY DEF IInv, TypeOK, PlaceOK, Places, Stop
  <2>2. LocalsOK'
    BY DEF IInv, TypeOK, LocalsOK, Stop
  <2>3. RowsOK'
    BY DEF IInv, TypeOK, RowsOK, Stop
  <2>4. CallsOK'
    BY <1>0, CallsKept DEF Stop
  <2>5. GroupOK'
    BY DEF IInv, TypeOK, PlaceOK, GroupOK, Stop
  <2> QED BY <2>1, <2>2, <2>3, <2>4, <2>5 DEF TypeOK
<1>2. OneCall'
  BY <1>0, CallsKept DEF Stop
<1>3. ContInv' /\ RunnerInv' /\ WhyInv'
  BY DEF IInv, TypeOK, PlaceOK, ContInv, RunnerInv, WhyInv, Before, Reading, Over, Stop
<1>4. PassInv'
  BY DEF IInv, PassInv, RunnerInv, WhyInv, Over, Before, Reading, Stop
<1> QED BY <1>1, <1>2, <1>3, <1>4 DEF IInv

LEMMA TerminatedStep ==
    ASSUME IInv, Terminated
    PROVE  IInv'
<1> USE DEF Goto, outside, flow, group, AfterStop
<1>0. Quiet
  BY DEF Quiet, Terminated
<1>1. TypeOK'
  <2>1. PlaceOK'
    BY DEF IInv, TypeOK, PlaceOK, Places, Terminated
  <2>2. LocalsOK'
    BY DEF IInv, TypeOK, LocalsOK, Terminated
  <2>3. RowsOK'
    BY DEF IInv, TypeOK, RowsOK, Terminated
  <2>4. CallsOK'
    BY <1>0, CallsKept DEF Terminated
  <2>5. GroupOK'
    BY DEF IInv, TypeOK, PlaceOK, GroupOK, Terminated
  <2> QED BY <2>1, <2>2, <2>3, <2>4, <2>5 DEF TypeOK
<1>2. OneCall'
  BY <1>0, CallsKept DEF Terminated
<1>3. ContInv' /\ RunnerInv' /\ WhyInv'
  BY DEF IInv, TypeOK, PlaceOK, ContInv, RunnerInv, WhyInv, Before, Reading, Over, Terminated
<1>4. PassInv'
  BY DEF IInv, PassInv, RunnerInv, WhyInv, Over, Before, Reading, Terminated
<1> QED BY <1>1, <1>2, <1>3, <1>4 DEF IInv

LEMMA KillStep ==
    ASSUME IInv, Kill
    PROVE  IInv'
<1> USE DEF Goto, outside, flow, group, AfterStop
<1>0. Quiet
  BY DEF Quiet, Kill
<1>1. TypeOK'
  <2>1. PlaceOK'
    BY DEF IInv, TypeOK, PlaceOK, Places, Kill
  <2>2. LocalsOK'
    BY DEF IInv, TypeOK, LocalsOK, Kill
  <2>3. RowsOK'
    BY DEF IInv, TypeOK, RowsOK, Kill
  <2>4. CallsOK'
    BY <1>0, CallsKept DEF Kill
  <2>5. GroupOK'
    BY DEF IInv, TypeOK, PlaceOK, GroupOK, Kill
  <2> QED BY <2>1, <2>2, <2>3, <2>4, <2>5 DEF TypeOK
<1>2. OneCall'
  BY <1>0, CallsKept DEF Kill
<1>3. ContInv' /\ RunnerInv' /\ WhyInv'
  BY DEF IInv, TypeOK, PlaceOK, ContInv, RunnerInv, WhyInv, Before, Reading, Over, Kill
<1>4. PassInv'
  BY DEF IInv, PassInv, RunnerInv, WhyInv, Over, Before, Reading, Kill
<1> QED BY <1>1, <1>2, <1>3, <1>4 DEF IInv

LEMMA AskFirstStep ==
    ASSUME IInv, AskFirst
    PROVE  IInv'
<1> USE DEF Goto, outside, flow, group, Answer
<1>0. Quiet
  BY DEF Quiet, AskFirst
<1>1. TypeOK'
  <2>1. PlaceOK'
    BY DEF IInv, TypeOK, PlaceOK, Places, AskFirst
  <2>2. LocalsOK'
    BY DEF IInv, TypeOK, LocalsOK, AskFirst
  <2>3. RowsOK'
    BY DEF IInv, TypeOK, RowsOK, AskFirst
  <2>4. CallsOK'
    BY <1>0, CallsKept DEF AskFirst
  <2>5. GroupOK'
    BY DEF IInv, TypeOK, PlaceOK, GroupOK, AskFirst
  <2> QED BY <2>1, <2>2, <2>3, <2>4, <2>5 DEF TypeOK
<1>2. OneCall'
  BY <1>0, CallsKept DEF AskFirst
<1>3. ContInv' /\ RunnerInv' /\ WhyInv'
  BY DEF IInv, TypeOK, PlaceOK, ContInv, RunnerInv, WhyInv, Before, Reading, Over, AskFirst
<1>4. PassInv'
  BY EdgeValues DEF IInv, PassInv, RunnerInv, WhyInv, Over, Before, Reading, AskFirst
<1> QED BY <1>1, <1>2, <1>3, <1>4 DEF IInv

LEMMA SpawnStep ==
    ASSUME IInv, Spawn
    PROVE  IInv'
<1> USE DEF Goto, outside, flow, group
<1>0. Quiet
  BY DEF Quiet, Spawn
<1>1. TypeOK'
  <2>1. PlaceOK'
    BY DEF IInv, TypeOK, PlaceOK, Places, Spawn
  <2>2. LocalsOK'
    BY DEF IInv, TypeOK, LocalsOK, Spawn
  <2>3. RowsOK'
    BY DEF IInv, TypeOK, RowsOK, Spawn
  <2>4. CallsOK'
    BY <1>0, CallsKept DEF Spawn
  <2>5. GroupOK'
    BY DEF IInv, TypeOK, PlaceOK, GroupOK, Spawn
  <2> QED BY <2>1, <2>2, <2>3, <2>4, <2>5 DEF TypeOK
<1>2. OneCall'
  BY <1>0, CallsKept DEF Spawn
<1>3. ContInv' /\ RunnerInv' /\ WhyInv'
  BY DEF IInv, TypeOK, PlaceOK, ContInv, RunnerInv, WhyInv, Before, Reading, Over, Spawn
<1>4. PassInv'
  BY DEF IInv, PassInv, RunnerInv, WhyInv, Over, Before, Reading, Spawn
<1> QED BY <1>1, <1>2, <1>3, <1>4 DEF IInv

LEMMA PollStep ==
    ASSUME IInv, Poll
    PROVE  IInv'
<1> USE DEF Goto, outside, flow, group, StartScan
<1>0. Quiet
  BY DEF Quiet, Poll
<1>1. TypeOK'
  <2>1. PlaceOK'
    BY DEF IInv, TypeOK, PlaceOK, Places, Poll
  <2>2. LocalsOK'
    BY LenType DEF IInv, TypeOK, LocalsOK, Poll, Nothing, Found
  <2>3. RowsOK'
    BY DEF IInv, TypeOK, RowsOK, Poll
  <2>4. CallsOK'
    BY <1>0, CallsKept DEF Poll
  <2>5. GroupOK'
    BY DEF IInv, TypeOK, PlaceOK, GroupOK, Poll
  <2> QED BY <2>1, <2>2, <2>3, <2>4, <2>5 DEF TypeOK
<1>2. OneCall'
  BY <1>0, CallsKept DEF Poll
<1>3. ContInv' /\ RunnerInv' /\ WhyInv'
  BY DEF IInv, TypeOK, PlaceOK, ContInv, RunnerInv, WhyInv, Before, Reading, Over, Poll
<1>4. PassInv'
  BY DEF IInv, PassInv, RunnerInv, WhyInv, Over, Before, Reading, Poll
<1> QED BY <1>1, <1>2, <1>3, <1>4 DEF IInv

LEMMA FinalScanStep ==
    ASSUME IInv, FinalScan
    PROVE  IInv'
<1> USE DEF Goto, outside, flow, group, StartScan
<1>0. Quiet
  BY DEF Quiet, FinalScan
<1>1. TypeOK'
  <2>1. PlaceOK'
    BY DEF IInv, TypeOK, PlaceOK, Places, FinalScan
  <2>2. LocalsOK'
    BY LenType DEF IInv, TypeOK, LocalsOK, FinalScan, Nothing, Found
  <2>3. RowsOK'
    BY DEF IInv, TypeOK, RowsOK, FinalScan
  <2>4. CallsOK'
    BY <1>0, CallsKept DEF FinalScan
  <2>5. GroupOK'
    BY DEF IInv, TypeOK, PlaceOK, GroupOK, FinalScan
  <2> QED BY <2>1, <2>2, <2>3, <2>4, <2>5 DEF TypeOK
<1>2. OneCall'
  BY <1>0, CallsKept DEF FinalScan
<1>3. ContInv' /\ RunnerInv' /\ WhyInv'
  BY DEF IInv, TypeOK, PlaceOK, ContInv, RunnerInv, WhyInv, Before, Reading, Over, FinalScan
<1>4. PassInv'
  BY DEF IInv, PassInv, RunnerInv, WhyInv, Over, Before, Reading, FinalScan
<1> QED BY <1>1, <1>2, <1>3, <1>4 DEF IInv

LEMMA ScanTaskStep ==
    ASSUME IInv, ScanTask
    PROVE  IInv'
<1> USE DEF Goto, outside, flow, group
<1>0. Quiet
  BY DEF Quiet, ScanTask
<1>1. TypeOK'
  <2>1. PlaceOK'
    BY DEF IInv, TypeOK, PlaceOK, Places, ScanTask
  <2>2. LocalsOK'
    BY LenType DEF IInv, TypeOK, LocalsOK, ScanTask, Found, Trace, GroupOK
  <2>3. RowsOK'
    BY DEF IInv, TypeOK, RowsOK, ScanTask
  <2>4. CallsOK'
    BY <1>0, CallsKept DEF ScanTask
  <2>5. GroupOK'
    BY DEF IInv, TypeOK, PlaceOK, GroupOK, ScanTask
  <2> QED BY <2>1, <2>2, <2>3, <2>4, <2>5 DEF TypeOK
<1>2. OneCall'
  BY <1>0, CallsKept DEF ScanTask
<1>3. ContInv' /\ RunnerInv' /\ WhyInv'
  BY DEF IInv, TypeOK, PlaceOK, ContInv, RunnerInv, WhyInv, Before, Reading, Over, ScanTask
<1>4. PassInv'
  BY DEF IInv, PassInv, RunnerInv, WhyInv, Over, Before, Reading, ScanTask
<1> QED BY <1>1, <1>2, <1>3, <1>4 DEF IInv

LEMMA PreflightStep ==
    ASSUME IInv, Preflight
    PROVE  IInv'
<1> USE DEF Goto, outside, flow, group
<1>0. Starts \/ Quiet
  <2>1. n \in Runs
    BY DEF IInv, TypeOK, PlaceOK
  <2> QED BY <2>1, NewCallType, InitLists, ProgressType DEF Report, Starts, Quiet, Preflight
<1>1. TypeOK'
  <2>1. PlaceOK'
    BY DEF IInv, TypeOK, PlaceOK, Places, Preflight, Report
  <2>2. LocalsOK'
    BY DEF IInv, TypeOK, LocalsOK, Preflight, Report
  <2>3. RowsOK'
    BY DEF IInv, TypeOK, RowsOK, Preflight
  <2>4. CallsOK'
    BY <1>0, CallsKept DEF Preflight
  <2>5. GroupOK'
    BY DEF IInv, TypeOK, PlaceOK, GroupOK, Preflight
  <2> QED BY <2>1, <2>2, <2>3, <2>4, <2>5 DEF TypeOK
<1>2. OneCall'
  BY <1>0, CallsKept DEF Preflight
<1>3. ContInv' /\ RunnerInv' /\ WhyInv'
  BY DEF IInv, TypeOK, PlaceOK, ContInv, RunnerInv, WhyInv, Before, Reading, Over, Preflight, Report
<1>4. PassInv'
  BY DEF IInv, PassInv, RunnerInv, WhyInv, Over, Before, Reading, Preflight, Report
<1> QED BY <1>1, <1>2, <1>3, <1>4 DEF IInv

LEMMA ClearTracesStep ==
    ASSUME IInv, ClearTraces
    PROVE  IInv'
<1> USE DEF Goto, outside, flow, group
<1>0. Starts \/ Quiet
  <2>1. n \in Runs
    BY DEF IInv, TypeOK, PlaceOK
  <2> QED BY <2>1, NewCallType, InitLists, ProgressType DEF Report, Starts, Quiet, ClearTraces
<1>1. TypeOK'
  <2>1. PlaceOK'
    BY DEF IInv, TypeOK, PlaceOK, Places, ClearTraces, Report
  <2>2. LocalsOK'
    BY DEF IInv, TypeOK, LocalsOK, ClearTraces, Report
  <2>3. RowsOK'
    BY DEF IInv, TypeOK, RowsOK, ClearTraces
  <2>4. CallsOK'
    BY <1>0, CallsKept DEF ClearTraces
  <2>5. GroupOK'
    BY DEF IInv, TypeOK, PlaceOK, GroupOK, ClearTraces, NoTraces, Trace, Found
  <2> QED BY <2>1, <2>2, <2>3, <2>4, <2>5 DEF TypeOK
<1>2. OneCall'
  BY <1>0, CallsKept DEF ClearTraces
<1>3. ContInv' /\ RunnerInv' /\ WhyInv'
  BY DEF IInv, TypeOK, PlaceOK, ContInv, RunnerInv, WhyInv, Before, Reading, Over, ClearTraces, Report
<1>4. PassInv'
  BY DEF IInv, PassInv, RunnerInv, WhyInv, Over, Before, Reading, ClearTraces, Report
<1> QED BY <1>1, <1>2, <1>3, <1>4 DEF IInv

LEMMA SpawnFailsStep ==
    ASSUME IInv, SpawnFails
    PROVE  IInv'
<1> USE DEF Goto, outside, flow, group
<1>0. Starts \/ Quiet
  <2>1. n \in Runs
    BY DEF IInv, TypeOK, PlaceOK
  <2> QED BY <2>1, NewCallType, InitLists, ProgressType DEF Report, Starts, Quiet, SpawnFails
<1>1. TypeOK'
  <2>1. PlaceOK'
    BY DEF IInv, TypeOK, PlaceOK, Places, SpawnFails, Report
  <2>2. LocalsOK'
    BY DEF IInv, TypeOK, LocalsOK, SpawnFails, Report
  <2>3. RowsOK'
    BY DEF IInv, TypeOK, RowsOK, SpawnFails
  <2>4. CallsOK'
    BY <1>0, CallsKept DEF SpawnFails
  <2>5. GroupOK'
    BY DEF IInv, TypeOK, PlaceOK, GroupOK, SpawnFails
  <2> QED BY <2>1, <2>2, <2>3, <2>4, <2>5 DEF TypeOK
<1>2. OneCall'
  BY <1>0, CallsKept DEF SpawnFails
<1>3. ContInv' /\ RunnerInv' /\ WhyInv'
  BY DEF IInv, TypeOK, PlaceOK, ContInv, RunnerInv, WhyInv, Before, Reading, Over, SpawnFails, Report
<1>4. PassInv'
  BY DEF IInv, PassInv, RunnerInv, WhyInv, Over, Before, Reading, SpawnFails, Report
<1> QED BY <1>1, <1>2, <1>3, <1>4 DEF IInv

LEMMA RescueStep ==
    ASSUME IInv, Rescue
    PROVE  IInv'
<1> USE DEF Goto, outside, flow, group
<1>0. Starts \/ Quiet
  <2>1. n \in Runs
    BY DEF IInv, TypeOK, PlaceOK
  <2> QED BY <2>1, NewCallType, InitLists, ProgressType DEF Report, Starts, Quiet, Rescue
<1>1. TypeOK'
  <2>1. PlaceOK'
    BY DEF IInv, TypeOK, PlaceOK, Places, Rescue, Report
  <2>2. LocalsOK'
    BY DEF IInv, TypeOK, LocalsOK, Rescue, Report
  <2>3. RowsOK'
    BY DEF IInv, TypeOK, RowsOK, Rescue
  <2>4. CallsOK'
    BY <1>0, CallsKept DEF Rescue
  <2>5. GroupOK'
    BY DEF IInv, TypeOK, PlaceOK, GroupOK, Rescue
  <2> QED BY <2>1, <2>2, <2>3, <2>4, <2>5 DEF TypeOK
<1>2. OneCall'
  BY <1>0, CallsKept DEF Rescue
<1>3. ContInv' /\ RunnerInv' /\ WhyInv'
  BY DEF IInv, TypeOK, PlaceOK, ContInv, RunnerInv, WhyInv, Before, Reading, Over, Rescue, Report
<1>4. PassInv'
  BY DEF IInv, PassInv, RunnerInv, WhyInv, Over, Before, Reading, Rescue, Report
<1> QED BY <1>1, <1>2, <1>3, <1>4 DEF IInv

LEMMA ScannedStep ==
    ASSUME IInv, Scanned
    PROVE  IInv'
<1> USE DEF Goto, outside, flow, group
<1>0. Starts \/ Quiet
  <2>1. n \in Runs
    BY DEF IInv, TypeOK, PlaceOK
  <2> QED BY <2>1, NewCallType, InitLists, ProgressType DEF Report, Starts, Quiet, Scanned
<1>1. TypeOK'
  <2>1. PlaceOK'
    BY DEF IInv, TypeOK, PlaceOK, Places, Scanned, Report
  <2>2. LocalsOK'
    BY DEF IInv, TypeOK, LocalsOK, Scanned, Report
  <2>3. RowsOK'
    BY DEF IInv, TypeOK, RowsOK, Scanned
  <2>4. CallsOK'
    BY <1>0, CallsKept DEF Scanned
  <2>5. GroupOK'
    BY DEF IInv, TypeOK, PlaceOK, GroupOK, Scanned
  <2> QED BY <2>1, <2>2, <2>3, <2>4, <2>5 DEF TypeOK
<1>2. OneCall'
  BY <1>0, CallsKept DEF Scanned
<1>3. ContInv' /\ RunnerInv' /\ WhyInv'
  BY DEF IInv, TypeOK, PlaceOK, ContInv, RunnerInv, WhyInv, Before, Reading, Over, Scanned, Report
<1>4. PassInv'
  BY DEF IInv, PassInv, RunnerInv, WhyInv, Over, Before, Reading, Scanned, Report
<1> QED BY <1>1, <1>2, <1>3, <1>4 DEF IInv

LEMMA DrainStep ==
    ASSUME IInv, Drain
    PROVE  IInv'
<1> USE DEF Goto, outside, flow, group, Answer, Leave
<1>0. Starts \/ Quiet
  <2>1. n \in Runs
    BY DEF IInv, TypeOK, PlaceOK
  <2> QED BY <2>1, NewCallType, InitLists, ProgressType DEF Report, Starts, Quiet, Drain
<1>1. TypeOK'
  <2>1. PlaceOK'
    BY DEF IInv, TypeOK, PlaceOK, Places, Drain, Report
  <2>2. LocalsOK'
    BY DEF IInv, TypeOK, LocalsOK, Drain, Report
  <2>3. RowsOK'
    BY DEF IInv, TypeOK, RowsOK, Drain
  <2>4. CallsOK'
    BY <1>0, CallsKept DEF Drain
  <2>5. GroupOK'
    BY DEF IInv, TypeOK, PlaceOK, GroupOK, Drain
  <2> QED BY <2>1, <2>2, <2>3, <2>4, <2>5 DEF TypeOK
<1>2. OneCall'
  BY <1>0, CallsKept DEF Drain
<1>3. ContInv' /\ RunnerInv' /\ WhyInv'
  BY DEF IInv, TypeOK, PlaceOK, ContInv, RunnerInv, WhyInv, Before, Reading, Over, Drain, Report
<1>4. PassInv'
  BY EdgeValues DEF IInv, PassInv, RunnerInv, WhyInv, Over, Before, Reading, Drain, Report
<1> QED BY <1>1, <1>2, <1>3, <1>4 DEF IInv

LEMMA ParseStep ==
    ASSUME IInv, Parse
    PROVE  IInv'
<1> USE DEF Goto, outside, flow, group, Answer
<1>0. Quiet
  BY DEF Quiet, Parse
<1>a. stdout # NoPayload => stdout \in [Tasks -> Reward]
  BY DEF IInv, TypeOK, GroupOK
<1>b. \/ result' = result
      \/ result' = Infra
      \/ stdout # NoPayload /\ result' = [t \in Tasks |-> Status(stdout[t])]
  BY DEF Parse
<1>1. TypeOK'
  <2>1. PlaceOK'
    BY DEF IInv, TypeOK, PlaceOK, Places, Parse
  <2>2. LocalsOK'
    <3>1. result' \in [Tasks -> TaskStatus] \cup {EmptyResult, NoResult}
      BY <1>a, <1>b, EdgeValues, StatusType DEF IInv, TypeOK, LocalsOK
    <3> QED BY <3>1 DEF IInv, TypeOK, LocalsOK, Parse
  <2>3. RowsOK'
    BY DEF IInv, TypeOK, RowsOK, Parse
  <2>4. CallsOK'
    BY <1>0, CallsKept DEF Parse
  <2>5. GroupOK'
    BY DEF IInv, TypeOK, PlaceOK, GroupOK, Parse
  <2> QED BY <2>1, <2>2, <2>3, <2>4, <2>5 DEF TypeOK
<1>2. OneCall'
  BY <1>0, CallsKept DEF Parse
<1>3. ContInv' /\ RunnerInv' /\ WhyInv'
  BY DEF IInv, TypeOK, PlaceOK, ContInv, RunnerInv, WhyInv, Before, Reading, Over, Parse
<1>4. PassInv'
  <2>1. CASE result' = result
    BY <2>1 DEF IInv, PassInv, Over, Parse
  <2>2. CASE result' = Infra
    BY <2>2, EdgeValues DEF PassInv
  <2>3. CASE stdout # NoPayload /\ result' # result /\ result' = [t \in Tasks |-> Status(stdout[t])]
    <3>1. pc' = "returned" /\ why' = "none" /\ stdout' = stdout
      BY <2>3 DEF IInv, WhyInv, Reading, Parse
    <3>2. \A t \in Tasks : Status(stdout[t]) = "passed" => stdout[t] = "high"
      BY <1>a, <2>3, StatusType
    <3> QED BY <1>a, <2>3, <3>1, <3>2 DEF PassInv, Over
  <2> QED BY <1>b, <2>1, <2>2, <2>3
<1> QED BY <1>1, <1>2, <1>3, <1>4 DEF IInv

-----------------------------------------------------------------------------
(* A call that ends, or that the thread gives up on, is not waited for any more. *)
LEMMA CallEnds ==
    ASSUME IInv, NEW c \in calls,
           \/ calls' = calls \ {c}
           \/ \E d \in Call : ~d.mine /\ calls' = (calls \ {c}) \cup {d},
           c.mine => pc' # "report",
           ~c.mine => pc' = pc /\ calls' = calls \ {c}
    PROVE  CallsOK' /\ OneCall'
<1>1. calls \subseteq Call /\ \A d \in calls : d.mine => pc = "report"
  BY DEF IInv, TypeOK, CallsOK
<1>2. calls' \subseteq Call
  BY <1>1
<1>3. OneCall'
  BY DEF IInv, OneCall
<1>4. CASE c.mine
  <2>1. \A d \in calls' : ~d.mine
    BY <1>4 DEF IInv, OneCall
  <2> QED BY <1>2, <1>3, <1>4, <2>1 DEF CallsOK
<1>5. CASE ~c.mine
  <2>1. {d \in calls' : d.mine} = {d \in calls : d.mine}
    BY <1>5
  <2> QED BY <1>2, <1>3, <1>5, <2>1 DEF IInv, TypeOK, CallsOK
<1> QED BY <1>4, <1>5

(* The thread waits in one place only. *)
LEMMA MineWaits == ASSUME IInv, NEW c \in calls, c.mine PROVE pc = "report"
BY DEF IInv, TypeOK, CallsOK

(* The thread goes on after its call. *)
LEMMA ResumeStep ==
    ASSUME IInv, pc = "report", Resume, UNCHANGED unheard
    PROVE  /\ PlaceOK' /\ LocalsOK' /\ GroupOK' /\ pc' # "report"
           /\ ContInv' /\ RunnerInv' /\ WhyInv' /\ PassInv'
<1> USE DEF Resume, Goto, Forget, group, unheard
<1>1. PlaceOK'
  BY DEF IInv, TypeOK, PlaceOK, Places, ContInv
<1>2. LocalsOK'
  BY LenType, ProgressType, EdgeValues DEF IInv, TypeOK, LocalsOK, Nothing, Found
<1>3. GroupOK'
  BY DEF IInv, TypeOK, GroupOK
<1>4. ContInv' /\ RunnerInv' /\ WhyInv' /\ pc' # "report"
  BY DEF IInv, ContInv, RunnerInv, WhyInv, Before, Reading, Over
<1>5. PassInv'
  <2>1. \A t \in DOMAIN result : result[t] # "passed"
    BY DEF IInv, PassInv, Over
  <2> QED BY <2>1, EdgeValues DEF PassInv
<1> QED BY <1>1, <1>2, <1>3, <1>4, <1>5

(* The thread's call raises. *)
LEMMA FailStep ==
    ASSUME IInv, pc = "report", Fail, UNCHANGED unheard
    PROVE  /\ PlaceOK' /\ LocalsOK' /\ GroupOK' /\ pc' # "report"
           /\ ContInv' /\ RunnerInv' /\ WhyInv' /\ PassInv'
<1> USE DEF Fail, Leave, Goto, Forget, group, unheard
<1>1. PlaceOK'
  BY DEF IInv, TypeOK, PlaceOK, Places
<1>2. LocalsOK'
  BY LenType DEF IInv, TypeOK, LocalsOK, Nothing, Found
<1>3. GroupOK'
  BY DEF IInv, TypeOK, GroupOK
<1>4. ContInv' /\ RunnerInv' /\ WhyInv' /\ pc' # "report"
  BY DEF IInv, ContInv, RunnerInv, WhyInv, Before, Reading, Over
<1>5. PassInv'
  BY DEF IInv, PassInv, Over
<1> QED BY <1>1, <1>2, <1>3, <1>4, <1>5

(* A step of a call the thread does not wait for leaves the thread alone. *)
LEMMA Unheard ==
    ASSUME IInv, UNCHANGED <<unheard, pc, flow>>
    PROVE  /\ PlaceOK' /\ LocalsOK' /\ GroupOK'
           /\ ContInv' /\ RunnerInv' /\ WhyInv' /\ PassInv'
BY DEF IInv, TypeOK, PlaceOK, LocalsOK, GroupOK, ContInv, RunnerInv, WhyInv, PassInv,
       unheard, flow, group

LEMMA CallReadsStep ==
    ASSUME IInv, NEW c \in calls, CallReads(c)
    PROVE  IInv'
<1> DEFINE d == [c EXCEPT !.base = rows[c.run]]
<1>1. c \in Call /\ rows[c.run] \in Lists
  BY DEF IInv, TypeOK, CallsOK, RowsOK, Call
<1>2. d \in Call /\ d.mine = c.mine
  BY <1>1 DEF Call
<1>3. calls' = (calls \ {c}) \cup {d} /\ UNCHANGED <<unheard, pc, flow, rows>>
  BY DEF CallReads
<1> HIDE DEF d
<1>4. CallsOK'
  <2>1. calls' \subseteq Call
    BY <1>2, <1>3 DEF IInv, TypeOK, CallsOK
  <2>2. (\E e \in calls' : e.mine) <=> (\E e \in calls : e.mine)
    BY <1>2, <1>3
  <2> QED BY <1>3, <2>1, <2>2 DEF IInv, TypeOK, CallsOK
<1>5. OneCall'
  BY <1>2, <1>3 DEF IInv, OneCall
<1>6. RowsOK'
  BY <1>3 DEF IInv, TypeOK, RowsOK, unheard
<1> QED BY <1>3, <1>4, <1>5, <1>6, Unheard DEF IInv, TypeOK

LEMMA CallCommitsStep ==
    ASSUME IInv, NEW c \in calls, CallCommits(c)
    PROVE  IInv'
<1>1. c \in Call
  BY DEF IInv, TypeOK, CallsOK
<1>2. RowsOK'
  BY <1>1, MergedType DEF IInv, TypeOK, RowsOK, Call, CallCommits, unheard
<1>3. CASE c.mine
  <2>1. pc = "report" /\ Resume /\ UNCHANGED unheard /\ calls' = calls \ {c}
    BY <1>3, MineWaits DEF CallCommits
  <2>2. CallsOK' /\ OneCall'
    BY <1>3, <2>1, ResumeStep, CallEnds
  <2> QED BY <1>2, <2>1, <2>2, ResumeStep DEF IInv, TypeOK
<1>4. CASE ~c.mine
  <2>1. UNCHANGED <<unheard, pc, flow>> /\ calls' = calls \ {c}
    BY <1>4 DEF CallCommits
  <2>2. CallsOK' /\ OneCall'
    BY <1>4, <2>1, CallEnds
  <2> QED BY <1>2, <2>1, <2>2, Unheard DEF IInv, TypeOK
<1> QED BY <1>3, <1>4

LEMMA CallFailsStep ==
    ASSUME IInv, NEW c \in calls, CallFails(c)
    PROVE  IInv'
<1>2. RowsOK'
  BY DEF IInv, TypeOK, RowsOK, CallFails, unheard
<1>3. CASE c.mine
  <2>1. pc = "report" /\ Fail /\ UNCHANGED unheard /\ calls' = calls \ {c}
    BY <1>3, MineWaits DEF CallFails
  <2>2. CallsOK' /\ OneCall'
    BY <1>3, <2>1, FailStep, CallEnds
  <2> QED BY <1>2, <2>1, <2>2, FailStep DEF IInv, TypeOK
<1>4. CASE ~c.mine
  <2>1. UNCHANGED <<unheard, pc, flow>> /\ calls' = calls \ {c}
    BY <1>4 DEF CallFails
  <2>2. CallsOK' /\ OneCall'
    BY <1>4, <2>1, CallEnds
  <2> QED BY <1>2, <2>1, <2>2, Unheard DEF IInv, TypeOK
<1> QED BY <1>3, <1>4

LEMMA TimesOutStep ==
    ASSUME IInv, NEW c \in calls, TimesOut(c)
    PROVE  IInv'
<1>1. pc = "report" /\ c.mine /\ Fail /\ UNCHANGED <<unheard, rows>>
  BY MineWaits DEF TimesOut
<1>2. \/ calls' = calls \ {c}
      \/ \E d \in Call : ~d.mine /\ calls' = (calls \ {c}) \cup {d}
  <2>1. c \in Call
    BY DEF IInv, TypeOK, CallsOK
  <2>2. [c EXCEPT !.mine = FALSE] \in Call /\ ~[c EXCEPT !.mine = FALSE].mine
    BY <2>1 DEF Call
  <2> QED BY <2>2 DEF TimesOut
<1>3. RowsOK'
  BY <1>1 DEF IInv, TypeOK, RowsOK, unheard
<1>4. CallsOK' /\ OneCall'
  BY <1>1, <1>2, FailStep, CallEnds
<1> QED BY <1>1, <1>3, <1>4, FailStep DEF IInv, TypeOK

-----------------------------------------------------------------------------
(* The process group, the clock and the cancel endpoint leave the thread alone. *)
LEMMA LeaderEndsStep == ASSUME IInv, LeaderEnds PROVE IInv'
<1> USE DEF alone, flow, group, LeaderEnds
<1>1. TypeOK'
  BY DEF IInv, TypeOK, PlaceOK, LocalsOK, RowsOK, CallsOK, GroupOK
<1>2. OneCall' /\ ContInv' /\ RunnerInv' /\ WhyInv'
  BY DEF IInv, OneCall, ContInv, RunnerInv, WhyInv, Before
<1>3. PassInv'
  BY DEF IInv, RunnerInv, PassInv, Over
<1> QED BY <1>1, <1>2, <1>3 DEF IInv

LEMMA HelperStep ==
    ASSUME IInv, NEW r \in Runs, HelperStarts \/ HelperEnds(r)
    PROVE  IInv'
<1> USE DEF alone, flow, group, HelperStarts, HelperEnds
<1>1. TypeOK'
  <2>1. helpers' \subseteq Runs
    BY DEF IInv, TypeOK, PlaceOK, GroupOK
  <2>2. GroupOK'
    BY <2>1 DEF IInv, TypeOK, GroupOK
  <2> QED BY <2>2 DEF IInv, TypeOK, PlaceOK, LocalsOK, RowsOK, CallsOK
<1>2. OneCall' /\ ContInv' /\ RunnerInv' /\ WhyInv'
  BY DEF IInv, OneCall, ContInv, RunnerInv, WhyInv
<1>3. PassInv'
  BY DEF IInv, PassInv
<1> QED BY <1>1, <1>2, <1>3 DEF IInv

LEMMA WritesStep ==
    ASSUME IInv, NEW r \in Runs, NEW t \in Tasks, Writes(r, t)
    PROVE  IInv'
<1> USE DEF alone, flow, group, Writes
<1>1. GroupOK'
  BY DEF IInv, TypeOK, GroupOK, Trace, Found
<1>2. PlaceOK' /\ LocalsOK' /\ RowsOK' /\ CallsOK'
  BY DEF IInv, TypeOK, PlaceOK, LocalsOK, RowsOK, CallsOK
<1>3. OneCall' /\ ContInv' /\ RunnerInv' /\ WhyInv'
  BY DEF IInv, OneCall, ContInv, RunnerInv, WhyInv
<1>4. PassInv'
  BY DEF IInv, PassInv
<1> QED BY <1>1, <1>2, <1>3, <1>4 DEF IInv, TypeOK

LEMMA ClockStep == ASSUME IInv, DeadlinePasses \/ JobCancelled PROVE IInv'
<1> USE DEF flow, group, DeadlinePasses, JobCancelled
<1>1. TypeOK'
  BY DEF IInv, TypeOK, PlaceOK, LocalsOK, RowsOK, CallsOK, GroupOK
<1>2. OneCall' /\ ContInv' /\ RunnerInv' /\ WhyInv'
  BY DEF IInv, OneCall, ContInv, RunnerInv, WhyInv
<1>3. PassInv'
  BY DEF IInv, PassInv
<1> QED BY <1>1, <1>2, <1>3 DEF IInv

-----------------------------------------------------------------------------
(* The processor. *)
LEMMA AfterRunStep == ASSUME IInv, AfterRun PROVE IInv'
<1> USE DEF flow, group, AfterRun, Goto
<1>1. RowsOK'
  BY MergedType, InitLists DEF IInv, TypeOK, PlaceOK, RowsOK
<1>2. PlaceOK' /\ LocalsOK' /\ CallsOK' /\ GroupOK'
  BY DEF IInv, TypeOK, PlaceOK, LocalsOK, CallsOK, GroupOK, Places
<1>3. OneCall' /\ ContInv' /\ RunnerInv' /\ WhyInv'
  BY DEF IInv, OneCall, ContInv, RunnerInv, WhyInv, Before, Reading, Over
<1>4. PassInv'
  BY DEF IInv, PassInv, Over
<1> QED BY <1>1, <1>2, <1>3, <1>4 DEF IInv, TypeOK

LEMMA CloseStep == ASSUME IInv, Close PROVE IInv'
<1> USE DEF flow, group, Close, Goto
<1>1. RowsOK'
  BY MergedType, InitLists DEF IInv, TypeOK, PlaceOK, RowsOK
<1>2. PlaceOK' /\ LocalsOK' /\ CallsOK' /\ GroupOK'
  BY DEF IInv, TypeOK, PlaceOK, LocalsOK, CallsOK, GroupOK, Places
<1>3. OneCall' /\ ContInv' /\ RunnerInv' /\ WhyInv'
  BY DEF IInv, OneCall, ContInv, RunnerInv, WhyInv, Before, Reading, Over
<1>4. PassInv'
  BY DEF IInv, PassInv, Over
<1> QED BY <1>1, <1>2, <1>3, <1>4 DEF IInv, TypeOK

LEMMA NextRunStep == ASSUME IInv, NextRun PROVE IInv'
<1> USE DEF NextRun, Goto, Forget
<1>1. PlaceOK'
  <2>1. n \in Runs /\ n < MaxRuns
    BY DEF IInv, TypeOK, PlaceOK
  <2>2. n' \in Runs
    BY <2>1, MaxRunsPositive
  <2>3. cancelled' \in BOOLEAN
    BY DEF IInv, TypeOK, PlaceOK
  <2> QED BY <2>2, <2>3 DEF PlaceOK, Places
<1>2. LocalsOK'
  BY LenType DEF LocalsOK, Nothing, Found
<1>3. RowsOK' /\ CallsOK' /\ GroupOK'
  BY DEF IInv, TypeOK, RowsOK, CallsOK, GroupOK
<1>4. OneCall' /\ ContInv' /\ RunnerInv' /\ WhyInv'
  BY DEF IInv, OneCall, ContInv, RunnerInv, WhyInv, Before, Reading, Over
<1>5. PassInv'
  BY EdgeValues DEF PassInv
<1> QED BY <1>1, <1>2, <1>3, <1>4, <1>5 DEF IInv, TypeOK

-----------------------------------------------------------------------------
LEMMA StutterStep == ASSUME IInv, UNCHANGED vars PROVE IInv'
<1> USE DEF vars, flow, group
<1>1. TypeOK'
  BY DEF IInv, TypeOK, PlaceOK, LocalsOK, RowsOK, CallsOK, GroupOK
<1>2. OneCall' /\ ContInv' /\ RunnerInv' /\ WhyInv'
  BY DEF IInv, OneCall, ContInv, RunnerInv, WhyInv
<1>3. PassInv'
  BY DEF IInv, PassInv
<1> QED BY <1>1, <1>2, <1>3 DEF IInv

THEOREM StepInv == IInv /\ [Next]_vars => IInv'
<1> SUFFICES ASSUME IInv, [Next]_vars PROVE IInv'
  OBVIOUS
<1>1. CASE Thread
  <2>1. CASE Preflight \/ Prepare \/ AskFirst \/ ClearTraces \/ Spawn \/ SpawnFails
    BY <2>1, PreflightStep, PrepareStep, AskFirstStep, ClearTracesStep, SpawnStep,
       SpawnFailsStep
  <2>2. CASE Poll \/ ScanTask \/ Scanned \/ Check \/ Ask \/ Deadline
    BY <2>2, PollStep, ScanTaskStep, ScannedStep, CheckStep, AskStep, DeadlineStep
  <2>3. CASE Stop \/ Terminated \/ Kill \/ Drain \/ Rescue \/ FinalScan \/ Parse
    BY <2>3, StopStep, TerminatedStep, KillStep, DrainStep, RescueStep, FinalScanStep,
       ParseStep
  <2>4. CASE \E c \in calls : TimesOut(c)
    BY <2>4, TimesOutStep
  <2> QED BY <1>1, <2>1, <2>2, <2>3, <2>4 DEF Thread
<1>2. CASE Group
  <2>1. n \in Runs
    BY DEF IInv, TypeOK, PlaceOK
  <2> QED BY <1>2, <2>1, LeaderEndsStep, HelperStep, WritesStep DEF Group
<1>3. CASE \E c \in calls : CallReads(c) \/ CallCommits(c) \/ CallFails(c)
  BY <1>3, CallReadsStep, CallCommitsStep, CallFailsStep
<1>4. CASE DeadlinePasses \/ JobCancelled
  BY <1>4, ClockStep
<1>5. CASE AfterRun \/ Close \/ NextRun
  BY <1>5, AfterRunStep, CloseStep, NextRunStep
<1>6. CASE UNCHANGED vars
  BY <1>6, StutterStep
<1> QED BY <1>1, <1>2, <1>3, <1>4, <1>5, <1>6 DEF Next

(* The inductive invariant holds of every behaviour: what the places of the thread
   tell of the runner, of the reason it left the loop, and of the result. *)
THEOREM Invariance == Spec => []IInv
<1> QED BY InitInv, StepInv, PTL DEF Spec

(* Rows, calls, directories and the thread's locals keep their types, and the
   thread waits exactly while a call of its own is under way. *)
THEOREM TypeCorrect == Spec => []TypeOK
<1>1. IInv => TypeOK
  BY DEF IInv
<1> QED BY <1>1, Invariance, PTL

(* Harbor's own process is gone whenever its run is read, over or failed, for any
   tasks, iterations and failures. *)
THEOREM RunnerIsAlwaysGone == Spec => []RunnerIsGone
<1>1. IInv => RunnerIsGone
  <2> SUFFICES ASSUME IInv PROVE RunnerIsGone
    OBVIOUS
  <2> QED BY DEF IInv, RunnerInv, RunnerIsGone, Reading, Over
<1> QED BY <1>1, Invariance, PTL

(* No run that was cancelled, timed out or failed credits a pass. *)
THEOREM PassesAreAlwaysEarned == Spec => []PassesAreEarned
<1>1. IInv => PassesAreEarned
  <2> SUFFICES ASSUME IInv PROVE PassesAreEarned
    OBVIOUS
  <2> QED BY DEF IInv, PassInv, PassesAreEarned
<1> QED BY <1>1, Invariance, PTL

-----------------------------------------------------------------------------
(* Where the directory holds nothing from before it was cleared. *)
AfterClear == Asked \cup {"drain", "rescue", "final", "parse"}

(* Processes that are alive belong to this run or to one that was outlived, and so
   does everything that was written since the directory was cleared. *)
TraceInv ==
    /\ helpers \subseteq outlived \cup {n}
    /\ pc \in AfterClear \/ (pc = "report" /\ cont \in {"spawn", "check", "parse"}) =>
         \A t \in Tasks : traces[t].by \in {NoRun, n} \cup outlived

(* A result without tasks tells of a cancellation that was seen. *)
EmptyInv ==
    /\ why = "cancelled" => cancelled
    /\ result = EmptyResult => cancelled

LEMMA NotEmpty ==
    /\ NoResult # EmptyResult
    /\ Infra # EmptyResult
    /\ \A f \in [Tasks -> TaskStatus] : f # EmptyResult
<1>1. Tasks # {}
  BY TaskIdsType DEF Tasks
<1>2. DOMAIN EmptyResult = {} /\ DOMAIN NoResult = {NoTask} /\ DOMAIN Infra = Tasks
  BY DEF EmptyResult, NoResult, Infra
<1> QED BY <1>1, <1>2

LEMMA TraceStep == IInv /\ TraceInv /\ [Next]_vars => TraceInv'
<1> SUFFICES ASSUME IInv, TraceInv, [Next]_vars PROVE TraceInv'
  OBVIOUS
<1> USE DEF AfterClear, Asked, TraceInv, Goto
<1>1. CASE Preflight \/ Prepare \/ AskFirst \/ Spawn \/ SpawnFails
  BY <1>1 DEF Preflight, Prepare, AskFirst, Spawn, SpawnFails, Report, Answer, outside,
              group, flow
<1>2. CASE ClearTraces
  BY <1>2 DEF ClearTraces, NoTraces, Report, outside, group
<1>3. CASE Poll \/ ScanTask \/ Scanned \/ Check \/ Ask \/ Deadline
  BY <1>3 DEF IInv, ContInv, Poll, ScanTask, Scanned, Check, Ask, Deadline, StartScan, Report, Leave,
              Forget, outside, group, flow
<1>4. CASE Stop \/ Terminated \/ Kill \/ Drain \/ Rescue \/ FinalScan \/ Parse
  BY <1>4 DEF Stop, Terminated, Kill, Drain, Rescue, FinalScan, Parse, StartScan, Report, Leave,
              Answer, AfterStop, outside, group, flow
<1>5. CASE \E c \in calls : TimesOut(c) \/ CallFails(c) \/ CallCommits(c) \/ CallReads(c)
  <2>1. PICK c \in calls : TimesOut(c) \/ CallFails(c) \/ CallCommits(c) \/ CallReads(c)
    BY <1>5
  <2>2. UNCHANGED unheard
    BY <2>1 DEF TimesOut, CallFails, CallCommits, CallReads
  <2>3. CASE UNCHANGED <<pc, flow>>
    BY <2>2, <2>3 DEF unheard, group, flow
  <2>4. CASE c.mine /\ (Resume \/ Fail)
    BY <2>2, <2>4, MineWaits DEF IInv, ContInv, Resume, Fail, Leave, Forget, unheard, group
  <2> QED BY <2>1, <2>3, <2>4 DEF TimesOut, CallFails, CallCommits, CallReads
<1>6. CASE Group
  <2>1. CASE LeaderEnds \/ HelperStarts \/ \E r \in Runs : HelperEnds(r)
    BY <2>1 DEF LeaderEnds, HelperStarts, HelperEnds, alone, flow
  <2>2. ASSUME NEW r \in Runs, NEW t \in Tasks, Writes(r, t) PROVE TraceInv'
    <3>1. r \in outlived \cup {n}
      BY <2>2 DEF Writes, Alive
    <3>2. \A u \in Tasks : traces'[u].by = traces[u].by \/ traces'[u].by = r
      BY <2>2 DEF Writes, IInv, TypeOK, GroupOK, Trace
    <3>3. UNCHANGED <<n, pc, cont, helpers, outlived>>
      BY <2>2 DEF Writes, alone, flow, group
    <3> QED BY <3>1, <3>2, <3>3
  <2> QED BY <1>6, <2>1, <2>2 DEF Group
<1>7. CASE DeadlinePasses \/ JobCancelled \/ AfterRun \/ Close
  BY <1>7 DEF DeadlinePasses, JobCancelled, AfterRun, Close, flow, group
<1>8. CASE NextRun
  BY <1>8 DEF NextRun, Forget
<1>9. CASE UNCHANGED vars
  BY <1>9 DEF vars, flow, group
<1> QED BY <1>1, <1>2, <1>3, <1>4, <1>5, <1>6, <1>7, <1>8, <1>9 DEF Next, Thread

LEMMA EmptyStep == IInv /\ EmptyInv /\ [Next]_vars => EmptyInv'
<1> SUFFICES ASSUME IInv, EmptyInv, [Next]_vars PROVE EmptyInv'
  OBVIOUS
<1> USE NotEmpty DEF EmptyInv, Goto
<1>1. CASE Preflight \/ Prepare \/ AskFirst \/ ClearTraces \/ Spawn \/ SpawnFails
  BY <1>1 DEF Preflight, Prepare, AskFirst, ClearTraces, Spawn, SpawnFails, Answer,
              outside, flow
<1>2. CASE Poll \/ ScanTask \/ Scanned \/ Check \/ Ask \/ Deadline
  BY <1>2 DEF Poll, ScanTask, Scanned, Check, Ask, Deadline, Leave, outside, flow
<1>3. CASE Stop \/ Terminated \/ Kill \/ Drain \/ Rescue \/ FinalScan
  BY <1>3 DEF Stop, Terminated, Kill, Drain, Rescue, FinalScan, Leave, Answer, outside, flow
<1>4. CASE Parse
  <2>1. stdout # NoPayload => stdout \in [Tasks -> Reward]
    BY DEF IInv, TypeOK, GroupOK
  <2>2. result' = result \/ result' = Infra \/ result' \in [Tasks -> TaskStatus]
    BY <1>4, <2>1, StatusType DEF Parse, Answer
  <2> QED BY <1>4, <2>2 DEF Parse, outside
<1>5. CASE \E c \in calls : TimesOut(c) \/ CallFails(c) \/ CallCommits(c) \/ CallReads(c)
  <2>1. PICK c \in calls : TimesOut(c) \/ CallFails(c) \/ CallCommits(c) \/ CallReads(c)
    BY <1>5
  <2>2. UNCHANGED unheard
    BY <2>1 DEF TimesOut, CallFails, CallCommits, CallReads
  <2>3. CASE UNCHANGED <<pc, flow>>
    BY <2>2, <2>3 DEF unheard, flow
  <2>4. CASE Resume \/ Fail
    BY <2>2, <2>4 DEF Resume, Fail, Leave, unheard
  <2> QED BY <2>1, <2>3, <2>4 DEF TimesOut, CallFails, CallCommits, CallReads
<1>6. CASE Group
  BY <1>6 DEF Group, LeaderEnds, HelperStarts, HelperEnds, Writes, alone, flow
<1>7. CASE DeadlinePasses \/ JobCancelled \/ AfterRun \/ Close
  BY <1>7 DEF DeadlinePasses, JobCancelled, AfterRun, Close, flow
<1>8. CASE NextRun
  BY <1>8 DEF NextRun
<1>9. CASE UNCHANGED vars
  BY <1>9 DEF vars, flow
<1> QED BY <1>1, <1>2, <1>3, <1>4, <1>5, <1>6, <1>7, <1>8, <1>9 DEF Next, Thread

(* What is in the directory while a run is polled and read was written by this run,
   or by one that the iteration after it has outlived. *)
THEOREM ArtifactsStayOfTheRun == Spec => []ArtifactsAreOfThisRun
<1>1. Init => TraceInv
  BY DEF Init, TraceInv, AfterClear, Asked
<1>2. TraceInv => ArtifactsAreOfThisRun
  BY DEF TraceInv, AfterClear, ArtifactsAreOfThisRun
<1> QED BY <1>1, <1>2, TraceStep, Invariance, PTL DEF Spec

(* A result without tasks is given back only for a cancelled job. *)
THEOREM EmptyMeansCancelled == Spec => []EmptyOnlyIfCancelled
<1>1. Init => EmptyInv
  BY NotEmpty DEF Init, EmptyInv
<1>2. EmptyInv => EmptyOnlyIfCancelled
  BY DEF EmptyInv, EmptyOnlyIfCancelled
<1> QED BY <1>1, <1>2, EmptyStep, Invariance, PTL DEF Spec
-----------------------------------------------------------------------------
(* What a client sees of an iteration moves forward. While the thread is on its
   way to the end of the run, no failure behind it, *)
Started ==
    \/ pc \in AfterClear \ {"rescue", "parse"}
    \/ pc = "report" /\ cont \in {"spawn", "check", "parse"}
Healthy == why = "none" /\ (pc \in Before \/ Started)

Shown  == Completed(rows[n])
OnDisk == {t \in Tasks : traces[t].found \in HasResult}

(* no call of this run is late, and no call is of a run to come; *)
OwnersInv ==
    /\ \A c \in calls : c.run <= n /\ (c.mine => c.run = n)
    /\ Healthy => \A c \in calls : c.run = n => c.mine
    /\ \A r \in Runs : r > n => rows[r] = AllPending

(* the reason to leave the loop is still open; *)
ReasonInv ==
    /\ pc \in Before \cup {"poll", "check", "ask", "deadline"} => why = "none"
    /\ pc \in {"scan", "report"} /\ cont \in {"spawn", "check"} => why = "none"

(* what is shown completed has its result on disk; *)
ShownInv ==
    /\ pc \in Before \ {"spawn"} => rows[n] = AllPending
    /\ why = "none" /\ Started => Shown \subseteq OnDisk

(* a scan finds the results of what is shown completed, and no others; *)
ScanInv ==
    why = "none" /\ pc = "scan" =>
        /\ \A i \in 1 .. at - 1 : TaskIds[i] \in Shown => scan[TaskIds[i]] \in HasResult
        /\ \A t \in Tasks : scan[t] \in HasResult => t \in OnDisk

(* and the call under way clears the lists, or adds to what is shown completed
   and writes the row it has read. *)
MineInv ==
    \A c \in calls : c.mine =>
        \/ c.lists = Cleared /\ cont \in {"infra", "parse"}
        \/ /\ why = "none" /\ cont # "infra"
           /\ c.base \in {NoLists, rows[n]}
           /\ Shown \subseteq Completed(c.lists) /\ Completed(c.lists) \subseteq OnDisk

ForwardInv == OwnersInv /\ ReasonInv /\ ShownInv /\ ScanInv /\ MineInv

LEMMA ListFacts ==
    /\ Completed(AllPending) = {} /\ Completed(Cleared) = Tasks
    /\ NoLists \notin Lists
<1>1. NoLists.pending = {NoTask} /\ \A l \in Lists : NoTask \notin l.pending
  BY NoTaskIsNone DEF NoLists, Lists
<1> QED BY <1>1 DEF Completed, AllPending, Cleared

(* Clearing the lists takes no task off the completed ones, whatever was read. *)
LEMMA ClearingShowsMore ==
    ASSUME NEW row, NEW base
    PROVE  Completed(row) \subseteq Completed(Merged(row, base, Cleared))
BY DEF Completed, Merged, Cleared

(* A row that did not change since it was read becomes what is written. *)
LEMMA WrittenAsSent ==
    ASSUME NEW row, NEW lists
    PROVE  Completed(Merged(row, row, lists)) = Completed(lists)
BY DEF Completed, Merged

(* The thread's steps between two calls: nothing is written, and from a place on
   the way to the end it came from one. *)
LEMMA ThreadForward ==
    ASSUME IInv, ForwardInv,
           \/ Prepare \/ AskFirst \/ Spawn \/ Poll \/ ScanTask \/ Check \/ Ask
           \/ Deadline \/ Stop \/ Terminated \/ Kill \/ FinalScan \/ Parse
    PROVE  ForwardInv'
<1> USE DEF Goto, Leave, Forget, StartScan, Answer, AfterStop, outside, flow, group,
            Before, AfterClear, Asked, Reading, Over
<1>1. UNCHANGED <<n, rows, calls, traces>> /\ pc # "report" /\ pc' # "report"
  BY DEF Prepare, AskFirst, Spawn, Poll, ScanTask, Check, Ask, Deadline, Stop, Terminated,
         Kill, FinalScan, Parse
<1>2. /\ Healthy' => Healthy
      /\ why' = "none" /\ Started' => why = "none" /\ Started
      /\ pc' \in Before \ {"spawn"} => pc \in Before \ {"spawn"}
  BY DEF ForwardInv, ReasonInv, Healthy, Started,
         Prepare, AskFirst, Spawn, Poll, ScanTask, Check, Ask, Deadline, Stop, Terminated,
         Kill, FinalScan, Parse
<1>3. OwnersInv'
  BY <1>1, <1>2 DEF ForwardInv, OwnersInv
<1>4. ReasonInv'
  BY DEF ForwardInv, ReasonInv, IInv, WhyInv, ContInv,
         Prepare, AskFirst, Spawn, Poll, ScanTask, Check, Ask, Deadline, Stop, Terminated,
         Kill, FinalScan, Parse
<1>5. ShownInv'
  BY <1>1, <1>2 DEF ForwardInv, ShownInv, Shown, OnDisk
<1>6. ScanInv'
  <2>1. CASE ScanTask
    <3> DEFINE t == TaskIds[at]
    <3>1. at \in 1 .. Len(TaskIds) /\ t \in Tasks
      BY <2>1, LenType DEF IInv, TypeOK, LocalsOK, ScanTask
    <3>2. /\ scan' = [scan EXCEPT ![t] = traces[t].found] /\ scan \in [Tasks -> Found]
          /\ at' = at + 1 /\ UNCHANGED <<why, pc>> /\ pc = "scan"
      BY <2>1 DEF IInv, TypeOK, LocalsOK, ScanTask
    <3>3. Shown' = Shown /\ OnDisk' = OnDisk
      BY <1>1 DEF Shown, OnDisk
    <3>4. ASSUME why = "none" PROVE Shown \subseteq OnDisk
      BY <3>2, <3>4 DEF ForwardInv, ShownInv, Started
    <3>5. t \in OnDisk <=> traces[t].found \in HasResult
      BY <3>1 DEF OnDisk
    <3>6. \A i \in 1 .. Len(TaskIds) : TaskIds[i] \in Tasks
      BY LenType
    <3> HIDE DEF t
    <3>7. ASSUME why = "none", NEW i \in 1 .. at, TaskIds[i] \in Shown
          PROVE  scan'[TaskIds[i]] \in HasResult
      <4>1. TaskIds[i] \in Tasks /\ (i = at => TaskIds[i] = t)
        BY <3>1, <3>6 DEF t
      <4>2. i # at => scan[TaskIds[i]] \in HasResult
        BY <3>1, <3>2, <3>7 DEF ForwardInv, ScanInv
      <4>3. t \in Shown => traces[t].found \in HasResult
        BY <3>4, <3>5, <3>7
      <4> QED BY <3>2, <3>7, <4>1, <4>2, <4>3
    <3>8. ASSUME why = "none", NEW u \in Tasks, scan'[u] \in HasResult
          PROVE  u \in OnDisk
      BY <3>2, <3>5, <3>8 DEF ForwardInv, ScanInv
    <3>9. at' - 1 = at
      BY <3>1, <3>2
    <3> QED BY <3>2, <3>3, <3>7, <3>8, <3>9 DEF ScanInv
  <2>2. CASE Poll \/ FinalScan
    <3>1. at' = 1 /\ scan' = Nothing
      BY <2>2 DEF Poll, FinalScan
    <3> QED BY <3>1 DEF ScanInv, Nothing, HasResult
  <2>3. CASE pc' # "scan"
    BY <2>3 DEF ScanInv
  <2> QED BY <2>1, <2>2, <2>3 DEF Prepare, AskFirst, Spawn, Check, Ask, Deadline, Stop,
             Terminated, Kill, Parse
<1>7. MineInv'

  BY <1>1 DEF IInv, TypeOK, CallsOK, MineInv
<1> QED BY <1>3, <1>4, <1>5, <1>6, <1>7 DEF ForwardInv

(* A call the thread starts has read nothing; it keeps the invariant if it clears
   the lists at the end of the run, or tells at least what is shown and on disk. *)
LEMMA CallForward ==
    ASSUME IInv, ForwardInv, pc # "report", NEW lists \in Lists, NEW k, Report(lists, k),
           UNCHANGED <<n, rows, why>>,
           \/ lists = Cleared /\ k \in {"infra", "parse"}
           \/ /\ why = "none" /\ k # "infra"
              /\ Shown' \subseteq Completed(lists) /\ Completed(lists) \subseteq OnDisk'
    PROVE  /\ MineInv'
           /\ (Healthy' => Healthy) => OwnersInv'
<1> DEFINE new == [run |-> n, lists |-> lists, base |-> NoLists, mine |-> TRUE]
<1>1. calls' = calls \cup {new} /\ cont' = k /\ \A c \in calls : ~c.mine
  BY DEF Report, IInv, TypeOK, CallsOK
<1>2. new.lists = lists /\ new.base = NoLists /\ new.mine /\ new.run = n
  OBVIOUS
<1>3. n \in Runs /\ n <= n
  BY MaxRunsPositive DEF IInv, TypeOK, PlaceOK
<1> HIDE DEF new
<1>4. MineInv'
  BY <1>1, <1>2 DEF MineInv
<1>5. ASSUME Healthy' => Healthy PROVE OwnersInv'
  BY <1>1, <1>2, <1>3, <1>5 DEF ForwardInv, OwnersInv
<1> QED BY <1>4, <1>5

(* A scan that found something tells what is on disk, and all that is shown. *)
LEMMA ProgressForward ==
    ASSUME IInv, ForwardInv, why = "none", pc = "scan", at > Len(TaskIds)
    PROVE  Shown \subseteq Completed(Progress) /\ Completed(Progress) \subseteq OnDisk
<1>1. scan \in [Tasks -> Found] /\ Completed(Progress) = {t \in Tasks : scan[t] \in HasResult}
  BY DEF IInv, TypeOK, LocalsOK, Completed, Progress, Found, HasResult
<1>2. at - 1 = Len(TaskIds)
  BY LenType DEF IInv, TypeOK, LocalsOK
<1>3. \A t \in Tasks : \E i \in 1 .. Len(TaskIds) : t = TaskIds[i]
  BY DEF Tasks
<1>4. Shown \subseteq Tasks
  BY DEF Shown, Completed
<1> QED BY <1>1, <1>2, <1>3, <1>4 DEF ForwardInv, ScanInv

(* The thread's steps that may start a call. *)
LEMMA ReportForward ==
    ASSUME IInv, ForwardInv,
           Preflight \/ ClearTraces \/ SpawnFails \/ Scanned \/ Drain \/ Rescue
    PROVE  ForwardInv'
<1> USE DEF Goto, Leave, Answer, outside, flow, group, Before, AfterClear, Asked, Reading, Over
<1>1. UNCHANGED <<n, rows>> /\ pc # "report" /\ pc' # "scan"
  BY DEF Preflight, ClearTraces, SpawnFails, Scanned, Drain, Rescue, Report, IInv, ContInv
<1>2. Healthy' => Healthy
  BY DEF ForwardInv, ReasonInv, Healthy, Started, IInv, ContInv,
         Preflight, ClearTraces, SpawnFails, Scanned, Drain, Rescue, Report
<1>3. ReasonInv'
  BY DEF ForwardInv, ReasonInv, IInv, WhyInv, ContInv,
         Preflight, ClearTraces, SpawnFails, Scanned, Drain, Rescue, Report
<1>4. ScanInv'
  BY <1>1 DEF ScanInv
<1>5. ShownInv'
  <2>1. CASE ClearTraces
    <3>1. rows[n] = AllPending /\ Shown = {} /\ Shown' = Shown
      BY <1>1, <2>1, ListFacts DEF ForwardInv, ShownInv, Shown, ClearTraces
    <3>2. pc' \notin Before
      BY <2>1 DEF ClearTraces, Report
    <3> QED BY <3>1, <3>2 DEF ShownInv
  <2>2. CASE ~ClearTraces
    <3>1. UNCHANGED traces
      BY <2>2 DEF Preflight, SpawnFails, Scanned, Drain, Rescue
    <3>2. pc' \in Before \ {"spawn"} => pc \in Before \ {"spawn"}
      BY <2>2 DEF Preflight, SpawnFails, Scanned, Drain, Rescue, Report, IInv, ContInv
    <3>3. why' = "none" /\ Started' => why = "none" /\ Started
      BY <2>2 DEF Started, ForwardInv, ReasonInv, IInv, ContInv,
             Preflight, SpawnFails, Scanned, Drain, Rescue, Report
    <3> QED BY <1>1, <3>1, <3>2, <3>3 DEF ForwardInv, ShownInv, Shown, OnDisk
  <2> QED BY <2>1, <2>2
<1>6. CASE UNCHANGED calls
  <2>1. OwnersInv'
    BY <1>1, <1>2, <1>6 DEF ForwardInv, OwnersInv
  <2>2. MineInv'
    BY <1>1, <1>6 DEF IInv, TypeOK, CallsOK, MineInv
  <2> QED BY <1>3, <1>4, <1>5, <2>1, <2>2 DEF ForwardInv
<1>7. CASE calls' # calls
  <2>1. CASE Preflight \/ SpawnFails \/ Drain \/ Rescue
    <3>1. Report(Cleared, "infra")
      BY <1>7, <2>1 DEF Preflight, SpawnFails, Drain, Rescue
    <3>2. CASE UNCHANGED why
      BY <1>1, <1>2, <1>3, <1>4, <1>5, <3>1, <3>2, CallForward, InitLists DEF ForwardInv
    <3> QED BY <1>7, <2>1, <3>2 DEF Preflight, SpawnFails, Drain, Rescue
  <2>2. CASE ClearTraces
    <3>1. Report(AllPending, "spawn") /\ UNCHANGED why /\ why = "none"
      BY <1>7, <2>2 DEF ClearTraces, ForwardInv, ReasonInv
    <3>2. Shown' = {} /\ Completed(AllPending) = {}
      BY <1>1, <2>2, ListFacts DEF ForwardInv, ShownInv, Shown, ClearTraces
    <3> QED BY <1>1, <1>2, <1>3, <1>4, <1>5, <3>1, <3>2, CallForward, InitLists DEF ForwardInv
  <2>3. CASE Scanned
    <3>1. /\ UNCHANGED <<why, traces>> /\ pc = "scan" /\ at > Len(TaskIds)
          /\ \/ cont = "parse" /\ Report(Cleared, "parse")
             \/ cont \in {"check", "parse"} /\ Report(Progress, cont)
      BY <1>7, <2>3 DEF Scanned
    <3>2. why = "none"
      BY <3>1 DEF IInv, WhyInv, ContInv, ForwardInv, ReasonInv
    <3>3. Shown' = Shown /\ OnDisk' = OnDisk
      BY <1>1, <3>1 DEF Shown, OnDisk
    <3>4. CASE Report(Cleared, "parse")
      BY <1>1, <1>2, <1>3, <1>4, <1>5, <3>1, <3>4, CallForward, InitLists DEF ForwardInv
    <3>5. CASE cont \in {"check", "parse"} /\ Report(Progress, cont)
      <4>1. Shown' \subseteq Completed(Progress) /\ Completed(Progress) \subseteq OnDisk'
        BY <3>1, <3>2, <3>3, ProgressForward
      <4> QED BY <1>1, <1>2, <1>3, <1>4, <1>5, <3>1, <3>2, <3>5, <4>1, CallForward, ProgressType
              DEF ForwardInv
    <3> QED BY <3>1, <3>4, <3>5
  <2> QED BY <2>1, <2>2, <2>3
<1> QED BY <1>6, <1>7

(* A call that ends: of the calls left none is the thread's, or only those are gone
   that were not. *)
LEMMA FailForward ==
    ASSUME IInv, ForwardInv, NEW c \in calls, CallFails(c) \/ TimesOut(c), c.mine
    PROVE  ForwardInv'
<1> USE DEF Goto, Leave, Forget, Fail, unheard, group, Before, AfterClear, Asked
<1>1. /\ pc = "report" /\ pc' \in {"stop", "raised"} /\ UNCHANGED <<n, rows, traces>>
      /\ ~Healthy' /\ (pc' = "stop" => why' = "failure")
  BY MineWaits DEF CallFails, TimesOut, Healthy, Started
<1>2. c \in Call
  BY DEF IInv, TypeOK, CallsOK
<1>3. \A d \in calls' : (d \in calls /\ ~d.mine) \/ d = [c EXCEPT !.mine = FALSE]
  BY DEF CallFails, TimesOut, IInv, OneCall
<1>4. \A d \in calls' : ~d.mine /\ d.run <= n
  BY <1>1, <1>2, <1>3 DEF ForwardInv, OwnersInv, Call
<1>5. OwnersInv' /\ MineInv'
  BY <1>1, <1>4 DEF ForwardInv, OwnersInv, MineInv
<1>6. ReasonInv' /\ ShownInv' /\ ScanInv'
  BY <1>1 DEF ReasonInv, ShownInv, ScanInv, Started
<1> QED BY <1>5, <1>6 DEF ForwardInv

(* The thread's call is written: the row is what was sent, or cleared. *)
LEMMA CommitForward ==
    ASSUME IInv, ForwardInv, NEW c \in calls, CallCommits(c), c.mine
    PROVE  /\ ForwardInv'
           /\ Shown \subseteq Completed(rows'[n])
           /\ \A r \in Runs \ {n} : rows'[r] = rows[r]
<1> USE DEF Goto, Forget, Resume, unheard, group, Before, AfterClear, Asked
<1>1. /\ pc = "report" /\ pc' # "report" /\ pc' = (IF cont = "infra" THEN "returned" ELSE cont)
      /\ UNCHANGED <<n, traces, why>>
      /\ c \in Call /\ c.base # NoLists /\ c.run = n /\ n \in Runs
      /\ rows' = [rows EXCEPT ![n] = Merged(@, c.base, c.lists)]
      /\ calls' = calls \ {c}
      /\ rows \in [Runs -> Lists]
  BY MineWaits DEF CallCommits, IInv, TypeOK, PlaceOK, CallsOK, RowsOK, ContInv,
     ForwardInv, OwnersInv
<1>2. cont \in {"spawn", "check", "parse", "infra"}
  BY <1>1 DEF IInv, ContInv
<1>3. rows'[n] = Merged(rows[n], c.base, c.lists) /\ \A r \in Runs \ {n} : rows'[r] = rows[r]
  BY <1>1
<1>4. /\ Shown \subseteq Completed(rows'[n])
      /\ \/ cont \in {"infra", "parse"}
         \/ why = "none" /\ Completed(rows'[n]) \subseteq OnDisk
  <2>1. CASE c.lists = Cleared /\ cont \in {"infra", "parse"}
    BY <1>3, <2>1, ClearingShowsMore DEF Shown
  <2>2. CASE c.base = rows[n] /\ why = "none" /\ Shown \subseteq Completed(c.lists)
             /\ Completed(c.lists) \subseteq OnDisk
    BY <1>3, <2>2, WrittenAsSent DEF Shown
  <2> QED BY <1>1, <2>1, <2>2 DEF ForwardInv, MineInv
<1>5. \A d \in calls' : d \in calls /\ ~d.mine
  BY <1>1 DEF IInv, OneCall
<1>6. Healthy' => why = "none" /\ cont # "infra"
  BY <1>1 DEF Healthy, Started
<1>7. OwnersInv'
  <2>1. Healthy' => Healthy
    BY <1>1, <1>2, <1>6 DEF Healthy, Started
  <2> QED BY <1>1, <1>3, <1>5, <2>1 DEF ForwardInv, OwnersInv
<1>8. MineInv'
  BY <1>5 DEF MineInv
<1>9. ReasonInv' /\ ScanInv'
  BY <1>1, <1>2 DEF ForwardInv, ReasonInv, ScanInv
<1>10. ShownInv'
  BY <1>1, <1>2, <1>4 DEF ShownInv, Shown, OnDisk, Started
<1> QED BY <1>3, <1>4, <1>7, <1>8, <1>9, <1>10 DEF ForwardInv

(* A call the thread has given up on is of this run only after a failure. *)
LEMMA LateForward ==
    ASSUME IInv, ForwardInv, NEW c \in calls, ~c.mine, CallCommits(c) \/ CallFails(c)
    PROVE  ForwardInv'
<1> USE DEF unheard, group, flow
<1>1. /\ UNCHANGED <<n, pc, cont, why, at, scan, traces>> /\ calls' = calls \ {c}
      /\ (\A r \in Runs \ {c.run} : rows'[r] = rows[r])
      /\ rows \in [Runs -> Lists] /\ c \in Call /\ n \in Runs
  BY DEF CallCommits, CallFails, IInv, TypeOK, RowsOK, CallsOK, PlaceOK
<1>2. c.run <= n /\ (Healthy => c.run # n)
  BY DEF ForwardInv, OwnersInv
<1>3. \A r \in Runs : r > n => rows'[r] = rows[r]
  BY <1>1, <1>2, MaxRunsPositive DEF Call
<1>4. Healthy => rows'[n] = rows[n]
  BY <1>1, <1>2
<1>5. (Healthy' <=> Healthy) /\ (Started' <=> Started) /\ OnDisk' = OnDisk
  BY <1>1 DEF Healthy, Started, OnDisk
<1>6. OwnersInv' /\ ReasonInv'
  BY <1>1, <1>3, <1>5 DEF ForwardInv, OwnersInv, ReasonInv
<1>7. CASE Healthy
  BY <1>1, <1>4, <1>5, <1>6, <1>7 DEF ForwardInv, ShownInv, ScanInv, MineInv, Shown
<1>8. CASE ~Healthy
  <2>1. ~(why = "none" /\ Started) /\ ~(pc \in Before)
    BY <1>8 DEF Healthy, ForwardInv, ReasonInv
  <2>2. why = "none" => pc # "scan"
    BY <2>1 DEF Started, AfterClear, Asked
  <2>3. ShownInv' /\ ScanInv'
    BY <1>1, <1>5, <2>1, <2>2 DEF ShownInv, ScanInv
  <2>4. \A d \in calls : d.mine => d.lists = Cleared /\ cont \in {"infra", "parse"}
    BY <2>1, MineWaits DEF ForwardInv, MineInv, Started, IInv, ContInv
  <2>5. MineInv'
    BY <1>1, <2>4 DEF MineInv
  <2> QED BY <1>6, <2>3, <2>5 DEF ForwardInv
<1> QED BY <1>7, <1>8

(* A call reads the row it will write. *)
LEMMA ReadForward ==
    ASSUME IInv, ForwardInv, NEW c \in calls, CallReads(c)
    PROVE  ForwardInv'
<1> USE DEF unheard, group, flow
<1> DEFINE d == [c EXCEPT !.base = rows[c.run]]
<1>1. /\ UNCHANGED <<n, pc, cont, why, at, scan, traces, rows>>
      /\ calls' = (calls \ {c}) \cup {d} /\ c \in Call
  BY DEF CallReads, IInv, TypeOK, CallsOK
<1>2. d.run = c.run /\ d.mine = c.mine /\ d.lists = c.lists /\ d.base = rows[c.run]
  BY <1>1 DEF Call
<1> HIDE DEF d
<1>3. /\ (Healthy' <=> Healthy) /\ (Started' <=> Started) /\ OnDisk' = OnDisk /\ Shown' = Shown
  BY <1>1 DEF Healthy, Started, OnDisk, Shown
<1>4. OwnersInv'
  BY <1>1, <1>2, <1>3 DEF ForwardInv, OwnersInv
<1>5. MineInv'
  <2>1. \A e \in calls' : e \in calls \/ e = d
    BY <1>1
  <2>2. c.mine => c.run = n
    BY DEF ForwardInv, OwnersInv
  <2> QED BY <1>1, <1>2, <1>3, <2>1, <2>2 DEF ForwardInv, MineInv
<1>6. ReasonInv' /\ ShownInv' /\ ScanInv'
  BY <1>1, <1>3 DEF ForwardInv, ReasonInv, ShownInv, ScanInv
<1> QED BY <1>4, <1>5, <1>6 DEF ForwardInv

(* The group only adds results to the directory. *)
LEMMA GroupForward ==
    ASSUME IInv, ForwardInv, Group \/ DeadlinePasses \/ JobCancelled \/ UNCHANGED vars
    PROVE  ForwardInv'
<1> USE DEF alone, group, flow
<1>1. UNCHANGED <<n, pc, cont, why, at, scan, rows, calls>>
  BY DEF Group, LeaderEnds, HelperStarts, HelperEnds, Writes, DeadlinePasses, JobCancelled, vars
<1>2. OnDisk \subseteq OnDisk'
  <2>1. ASSUME NEW r \in Runs, NEW t \in Tasks, Writes(r, t) PROVE OnDisk \subseteq OnDisk'
    <3>1. \A u \in Tasks : traces[u].found \in HasResult => traces'[u].found \in HasResult
      BY <2>1 DEF Writes, HasResult, IInv, TypeOK, GroupOK, Trace
    <3> QED BY <3>1 DEF OnDisk
  <2>2. CASE UNCHANGED traces
    BY <2>2 DEF OnDisk
  <2> QED BY <2>1, <2>2 DEF Group, LeaderEnds, HelperStarts, HelperEnds, DeadlinePasses,
             JobCancelled, vars
<1>3. (Healthy' <=> Healthy) /\ (Started' <=> Started) /\ Shown' = Shown
  BY <1>1 DEF Healthy, Started, Shown
<1> QED BY <1>1, <1>2, <1>3 DEF ForwardInv, OwnersInv, ReasonInv, ShownInv, ScanInv, MineInv

(* The processor closes a run whose thread is done, and begins the next, whose row
   no call has seen. *)
LEMMA ProcessorForward ==
    ASSUME IInv, ForwardInv, AfterRun \/ Close \/ NextRun
    PROVE  ForwardInv'
<1> USE DEF flow, group, Goto, Forget
<1>1. /\ UNCHANGED <<calls, traces>> /\ \A c \in calls : ~c.mine
      /\ pc' \in {"close", "closed", "preflight"} /\ (pc' # "preflight" => n' = n)
  BY DEF AfterRun, Close, NextRun, IInv, TypeOK, CallsOK
<1>2. MineInv' /\ ScanInv'
  BY <1>1 DEF MineInv, ScanInv
<1>3. CASE AfterRun \/ Close
  <2>1. ~Healthy' /\ ~Started' /\ pc' \notin Before
    BY <1>3 DEF AfterRun, Close, Healthy, Started, Before, AfterClear, Asked
  <2>2. \A r \in Runs : r > n => rows'[r] = rows[r]
    BY <1>3, MaxRunsPositive DEF AfterRun, Close, IInv, TypeOK, PlaceOK, RowsOK
  <2>3. n' = n /\ cont' = cont /\ pc' \in {"close", "closed"}
    BY <1>3 DEF AfterRun, Close
  <2>4. OwnersInv' /\ ReasonInv' /\ ShownInv'
    BY <1>1, <2>1, <2>2, <2>3 DEF ForwardInv, OwnersInv, ReasonInv, ShownInv
  <2> QED BY <1>2, <2>4 DEF ForwardInv
<1>4. CASE NextRun
  <2>1. /\ n' = n + 1 /\ n' \in Runs /\ n \in Runs
        /\ why' = "none" /\ pc' = "preflight" /\ rows' = rows
    BY <1>4, MaxRunsPositive DEF NextRun, IInv, TypeOK, PlaceOK
  <2>2. \A c \in calls : c.run <= n /\ c.run \in Runs
    BY DEF ForwardInv, OwnersInv, IInv, TypeOK, CallsOK, Call
  <2>3. OwnersInv'
    <3>1. \A c \in calls' : c.run <= n' /\ c.run # n' /\ ~c.mine
      BY <1>1, <2>1, <2>2, MaxRunsPositive
    <3>2. \A r \in Runs : r > n' => rows'[r] = AllPending
      BY <2>1, MaxRunsPositive DEF ForwardInv, OwnersInv
    <3> QED BY <3>1, <3>2 DEF OwnersInv
  <2>4. rows'[n'] = AllPending
    BY <2>1, MaxRunsPositive DEF ForwardInv, OwnersInv
  <2>5. ReasonInv' /\ ShownInv'
    BY <2>1, <2>4 DEF ReasonInv, ShownInv, Started, AfterClear, Asked
  <2> QED BY <1>2, <2>3, <2>5 DEF ForwardInv
<1> QED BY <1>3, <1>4

LEMMA ForwardStep == IInv /\ ForwardInv /\ [Next]_vars => ForwardInv'
<1> SUFFICES ASSUME IInv, ForwardInv, [Next]_vars PROVE ForwardInv'
  OBVIOUS
<1>1. CASE \E c \in calls : TimesOut(c) \/ CallReads(c) \/ CallCommits(c) \/ CallFails(c)
  <2>1. PICK c \in calls : TimesOut(c) \/ CallReads(c) \/ CallCommits(c) \/ CallFails(c)
    BY <1>1
  <2>2. c.mine => CallReads(c) \/ ForwardInv'
    BY <2>1, FailForward, CommitForward
  <2>3. ~c.mine => CallReads(c) \/ ForwardInv'
    BY <2>1, LateForward DEF TimesOut
  <2> QED BY <2>2, <2>3, ReadForward
<1>2. CASE Thread /\ ~\E c \in calls : TimesOut(c)
  BY <1>2, ThreadForward, ReportForward DEF Thread
<1>3. CASE Group \/ DeadlinePasses \/ JobCancelled \/ UNCHANGED vars
  BY <1>3, GroupForward
<1>4. CASE AfterRun \/ Close \/ NextRun
  BY <1>4, ProcessorForward
<1> QED BY <1>1, <1>2, <1>3, <1>4 DEF Next

(* The step that writes a row keeps what it shows completed, or is a late call's. *)
LEMMA MovesForward ==
    IInv /\ ForwardInv /\ [Next]_vars =>
        \A r \in Runs : Completed(rows[r]) \subseteq Completed(rows'[r])
            \/ \E c \in Late : c.run = r /\ c \notin calls'
<1> SUFFICES ASSUME IInv, ForwardInv, [Next]_vars, NEW r \in Runs,
                    ~\E c \in Late : c.run = r /\ c \notin calls'
             PROVE  Completed(rows[r]) \subseteq Completed(rows'[r])
  OBVIOUS
<1>1. ASSUME NEW c \in calls, CallCommits(c)
      PROVE  Completed(rows[r]) \subseteq Completed(rows'[r])
  <2>1. CASE c.mine
    BY <1>1, <2>1, CommitForward DEF Shown
  <2>2. CASE ~c.mine
    <3>1. c.run # r /\ c.run \in Runs
      BY <1>1, <2>2 DEF CallCommits, Late, IInv, TypeOK, CallsOK, Call
    <3> QED BY <1>1, <3>1 DEF CallCommits, IInv, TypeOK, RowsOK
  <2> QED BY <2>1, <2>2
<1>2. CASE Close
  BY <1>2, ClearingShowsMore DEF Close, IInv, TypeOK, RowsOK, PlaceOK
<1>3. CASE UNCHANGED rows
  BY <1>3
<1> QED BY <1>1, <1>2, <1>3 DEF Next, Thread, Group, vars, flow, group, outside, unheard, alone,
        Preflight, Prepare, AskFirst, ClearTraces, Spawn, SpawnFails, Poll, ScanTask, Scanned,
        Check, Ask, Deadline, Stop, Terminated, Kill, Drain, Rescue, FinalScan, Parse,
        TimesOut, CallReads, CallFails, LeaderEnds, HelperStarts, HelperEnds, Writes,
        DeadlinePasses, JobCancelled, AfterRun, NextRun

(* What a client sees of an iteration moves forward, whatever the interleaving of
   runs, reports, failures and writers of the directory: only a call the thread had
   given up on can take a task back off the completed ones. *)
THEOREM ProgressMovesForward == Spec => ProgressOnlyMovesForward
<1>1. Init => ForwardInv
  <2> SUFFICES ASSUME Init PROVE ForwardInv
    OBVIOUS
  <2>1. OwnersInv /\ MineInv
    BY DEF Init, OwnersInv, MineInv
  <2>2. ReasonInv /\ ShownInv /\ ScanInv
    BY MaxRunsPositive DEF Init, ReasonInv, ShownInv, ScanInv, Started, AfterClear, Asked
  <2> QED BY <2>1, <2>2 DEF ForwardInv
<1> QED BY <1>1, ForwardStep, MovesForward, Invariance, PTL DEF Spec, ProgressOnlyMovesForward

-----------------------------------------------------------------------------
(* How many steps a thread has left that finds its job cancelled when it asks
   or its deadline passed when it looks. *)
Dirs == Len(TaskIds)

Ahead ==
    CASE pc \in Over -> 0
      [] pc = "report" /\ cont = "infra" -> 1
      [] pc = "rescue" -> 2
      [] pc = "term" -> IF why = "failure" THEN 3 ELSE Dirs + 10
      [] pc = "stop" -> IF why = "failure" THEN 4 ELSE Dirs + 11
      [] pc = "parse" -> 5
      [] pc = "report" /\ cont = "parse" -> 6
      [] pc = "scan" /\ cont = "parse" -> (Dirs + 1 - at) + 7
      [] pc = "final" -> Dirs + 8
      [] pc = "drain" -> Dirs + 9
      [] pc = "deadline" -> IF expired THEN Dirs + 12 ELSE 2 * Dirs + 18
      [] pc = "ask" -> Dirs + 13
      [] pc = "check" -> Dirs + 14
      [] pc = "report" /\ cont = "check" -> Dirs + 15
      [] pc = "scan" /\ cont = "check" -> (Dirs + 1 - at) + (Dirs + 16)
      [] pc = "poll" -> 2 * Dirs + 17
      [] pc = "spawn" -> 2 * Dirs + 19
      [] pc = "report" /\ cont = "spawn" -> 2 * Dirs + 20
      [] pc = "clear" -> 2 * Dirs + 21
      [] pc = "ask_first" -> 2 * Dirs + 22
      [] pc = "prepare" -> 2 * Dirs + 23
      [] pc = "preflight" -> 2 * Dirs + 24

(* Of a cancelled job, or past the deadline, each step of the thread brings the
   run nearer to its end; Harbor, calls that answer, fail or come late, the
   clock and clients cannot take it further away. *)
RunsEndInFewSteps ==
    [][(cancelled \/ expired) /\ pc \notin Over =>
          /\ Thread => Ahead' < Ahead
          /\ Ahead' <= Ahead /\ n' = n]_vars

(* A thread's way is never longer than this. *)
InRange == Ahead \in 0 .. 2 * Dirs + 24

LEMMA AheadType == IInv => InRange
<1> SUFFICES ASSUME IInv PROVE Ahead \in 0 .. 2 * Dirs + 24
  BY DEF InRange
<1>1. /\ Dirs \in Nat /\ at \in 1 .. Dirs + 1 /\ pc \in Places /\ expired \in BOOLEAN
      /\ pc = "report" => cont \in {"spawn", "check", "parse", "infra"}
      /\ pc = "scan" => cont \in {"check", "parse"}
  BY LenType DEF Dirs, IInv, TypeOK, PlaceOK, LocalsOK, ContInv
<1> HIDE DEF Dirs
<1>2. CASE pc = "returned"  BY <1>1, <1>2 DEF Ahead, Over
<1>3. CASE pc = "close"  BY <1>1, <1>3 DEF Ahead, Over
<1>4. CASE pc = "closed"  BY <1>1, <1>4 DEF Ahead, Over
<1>5. CASE pc = "raised"  BY <1>1, <1>5 DEF Ahead, Over
<1>6. CASE pc = "report"  BY <1>1, <1>6 DEF Ahead, Over
<1>7. CASE pc = "scan"  BY <1>1, <1>7 DEF Ahead, Over
<1>8. CASE pc = "rescue"  BY <1>1, <1>8 DEF Ahead, Over
<1>9. CASE pc = "parse"  BY <1>1, <1>9 DEF Ahead, Over
<1>10. CASE pc = "final"  BY <1>1, <1>10 DEF Ahead, Over
<1>11. CASE pc = "drain"  BY <1>1, <1>11 DEF Ahead, Over
<1>12. CASE pc = "ask"  BY <1>1, <1>12 DEF Ahead, Over
<1>13. CASE pc = "check"  BY <1>1, <1>13 DEF Ahead, Over
<1>14. CASE pc = "poll"  BY <1>1, <1>14 DEF Ahead, Over
<1>15. CASE pc = "spawn"  BY <1>1, <1>15 DEF Ahead, Over
<1>16. CASE pc = "clear"  BY <1>1, <1>16 DEF Ahead, Over
<1>17. CASE pc = "ask_first"  BY <1>1, <1>17 DEF Ahead, Over
<1>18. CASE pc = "prepare"  BY <1>1, <1>18 DEF Ahead, Over
<1>19. CASE pc = "preflight"  BY <1>1, <1>19 DEF Ahead, Over
<1>20. CASE pc = "term"  BY <1>1, <1>20 DEF Ahead, Over
<1>21. CASE pc = "stop"  BY <1>1, <1>21 DEF Ahead, Over
<1>22. CASE pc = "deadline"  BY <1>1, <1>22 DEF Ahead, Over
<1> QED
  BY <1>1, <1>2, <1>3, <1>4, <1>5, <1>6, <1>7, <1>8, <1>9, <1>10, <1>11,
     <1>12, <1>13, <1>14, <1>15, <1>16, <1>17, <1>18, <1>19, <1>20, <1>21, <1>22 DEF Places, Over

LEMMA AheadNext == IInv' => InRange'
  BY AheadType, PTL

LEMMA AheadIsNumber ==
    ASSUME IInv, [Next]_vars
    PROVE  Ahead \in Int /\ Ahead' \in Int
<1>1. IInv'
  BY StepInv
<1>2. Ahead' \in 0 .. 2 * Dirs + 24
  BY <1>1, AheadNext DEF InRange
<1>3. Dirs \in Nat
  BY LenType DEF Dirs
<1> QED  BY <1>1, <1>2, <1>3, AheadType DEF InRange

LEMMA ThreadNearer ==
    ASSUME IInv, cancelled \/ expired, Thread
    PROVE  Ahead' < Ahead /\ n' = n
<1>1. /\ Dirs \in Nat /\ Dirs = Len(TaskIds) /\ at \in 1 .. Dirs + 1 /\ expired \in BOOLEAN
      /\ pc = "report" => cont \in {"spawn", "check", "parse", "infra"}
      /\ pc = "scan" => cont \in {"check", "parse"}
  BY LenType DEF Dirs, IInv, TypeOK, PlaceOK, LocalsOK, ContInv
<1> HIDE DEF Dirs
<1> USE <1>1 DEF Ahead, Over, Goto, Report, Answer, outside, flow
<1>2. CASE Preflight \/ Prepare \/ AskFirst \/ ClearTraces
  BY <1>2 DEF Preflight, Prepare, AskFirst, ClearTraces
<1>3. CASE Spawn \/ SpawnFails
  BY <1>3 DEF Spawn, SpawnFails
<1>4. CASE Poll \/ FinalScan
  BY <1>4 DEF Poll, FinalScan, StartScan
<1>5. CASE ScanTask
  BY <1>5 DEF ScanTask
<1>6. CASE Scanned
  BY <1>6 DEF Scanned
<1>7. CASE Check
  BY <1>7 DEF Check, Forget
<1>8. CASE Ask \/ Deadline
  BY <1>8 DEF Ask, Deadline, Leave
<1>9. CASE Stop \/ Terminated \/ Kill
  BY <1>9 DEF Stop, Terminated, Kill, AfterStop
<1>10. CASE Drain \/ Rescue
  BY <1>10 DEF Drain, Rescue, Leave
<1>11. CASE Parse
  BY <1>11 DEF Parse
<1>12. ASSUME NEW c \in calls, TimesOut(c) PROVE Ahead' < Ahead /\ n' = n
  <2>1. pc = "report"
    BY <1>12 DEF TimesOut, IInv, TypeOK, CallsOK
  <2> QED  BY <1>12, <2>1 DEF TimesOut, Fail, Forget, Leave, unheard
<1> QED
  BY <1>2, <1>3, <1>4, <1>5, <1>6, <1>7, <1>8, <1>9, <1>10, <1>11, <1>12 DEF Thread

LEMMA CallNearer ==
    ASSUME IInv, NEW c \in calls, CallReads(c) \/ CallCommits(c) \/ CallFails(c)
    PROVE  Ahead' <= Ahead /\ n' = n
<1>1. /\ Dirs \in Nat /\ at \in 1 .. Dirs + 1
      /\ pc = "report" => cont \in {"spawn", "check", "parse", "infra"}
  BY LenType DEF Dirs, IInv, TypeOK, PlaceOK, LocalsOK, ContInv
<1>2. Ahead \in Int
  BY AheadIsNumber DEF Next
<1> HIDE DEF Dirs
<1>3. CASE UNCHANGED <<pc, cont, why, at, expired, n>>
  <2>1. Ahead' = Ahead /\ n' = n
    BY <1>3 DEF Ahead
  <2> QED  BY <2>1, <1>2
<1>4. CASE c.mine /\ ~CallReads(c)
  <2>1. pc = "report"
    BY <1>4 DEF IInv, TypeOK, CallsOK
  <2> QED
    BY <1>1, <1>4, <2>1
       DEF CallReads, CallCommits, CallFails, Resume, Fail, Forget, Leave, Goto, unheard,
           Ahead, Over
<1> QED  BY <1>3, <1>4 DEF CallReads, CallCommits, CallFails, unheard, flow

(* Cancelled or out of time, a run ends within 24 steps and two for each task
   directory, each with a limit of its own: CancelEndsRun and DeadlineEndsRun
   without the fairness. *)
THEOREM RunsEndSoon == Spec => []InRange /\ RunsEndInFewSteps
<1>1. ASSUME IInv, Next, cancelled \/ expired, pc \notin Over
      PROVE  (Thread => Ahead' < Ahead) /\ Ahead' <= Ahead /\ n' = n
  <2>1. Ahead \in Int /\ Ahead' \in Int
    BY <1>1, AheadIsNumber
  <2>2. CASE Thread
    <3>1. Ahead' < Ahead /\ n' = n
      BY <1>1, <2>2, ThreadNearer
    <3> QED  BY <2>1, <3>1
  <2>3. CASE ~Thread /\ (Group \/ JobCancelled)
    <3>1. UNCHANGED <<pc, cont, why, at, expired, n>>
      BY <2>3
         DEF Group, LeaderEnds, HelperStarts, HelperEnds, Writes, JobCancelled, alone, flow
    <3>2. Ahead' = Ahead
      BY <3>1 DEF Ahead
    <3> QED  BY <2>1, <2>3, <3>1, <3>2
  <2>4. CASE ~Thread /\ DeadlinePasses
    <3>1. Dirs \in Nat
      BY LenType DEF Dirs
    <3>2. /\ UNCHANGED <<pc, cont, why, at, n>> /\ expired' /\ ~expired
      BY <2>4 DEF DeadlinePasses, flow
    <3> HIDE DEF Dirs
    <3>3. CASE pc = "deadline"
      BY <3>1, <3>2, <3>3, <2>4 DEF Ahead, Over
    <3>4. CASE pc # "deadline"
      <4>1. Ahead' = Ahead
        BY <3>2, <3>4 DEF Ahead
      <4> QED  BY <2>1, <2>4, <3>2, <4>1
    <3> QED  BY <3>3, <3>4
  <2>5. CASE ~Thread /\ \E c \in calls : CallReads(c) \/ CallCommits(c) \/ CallFails(c)
    BY <1>1, <2>5, CallNearer
  <2>6. ~(AfterRun \/ Close \/ NextRun)
    BY <1>1 DEF AfterRun, Close, NextRun, Over
  <2> QED  BY <1>1, <2>2, <2>3, <2>4, <2>5, <2>6 DEF Next
<1>2. IInv /\ [Next]_vars =>
        [(cancelled \/ expired) /\ pc \notin Over =>
            /\ Thread => Ahead' < Ahead
            /\ Ahead' <= Ahead /\ n' = n]_vars
  BY <1>1
<1> QED  BY <1>2, AheadType, Invariance, PTL DEF Spec, RunsEndInFewSteps
=============================================================================
