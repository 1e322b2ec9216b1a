---------------------------- MODULE JobQueueProofs ----------------------------
(***************************************************************************)
(* Proofs about jobs, workers and cancellations, for any number of jobs,    *)
(* workers and restarts: the types, that a job never runs twice at once,    *)
(* that no running job is lost without a crash or a failed write, that      *)
(* finished and cancelled jobs stay so, and that a shutdown is short.       *)
(***************************************************************************)
EXTENDS JobQueue, TLAPS

(* Past the claim's UPDATE the job in hand has left the queue. *)
Claiming == {"load", "setup", "working"}

HandInv ==
    \A w \in Workers :
        /\ wpc[w] \in InHand => status[held[w]] # "absent"
        /\ wpc[w] \in Claiming => status[held[w]] # "queued"
        /\ wpc[w] \in {"setup", "working"} => seen[w] # "none"
        /\ wpc[w] = "working" => held[w] \in template

(* Version 0 is stored for jobs that were claimed. *)
TemplateInv == \A j \in template : status[j] \notin {"absent", "queued"}

(* Who has a running job in hand: once version 0 is stored, the processor that
   stored it, for the others are refused. *)
Holds(w, j) == held[w] = j /\ wpc[w] \in Claiming /\ (j \in template => wpc[w] = "working")

HeldInv == \A j \in Jobs :
    status[j] = "running" /\ j \notin lost => \E w \in Workers : Holds(w, j)

IInv == TypeOK /\ HandInv /\ TemplateInv /\ OneRunPerJob /\ HeldInv

(* The job in hand is a job. *)
LEMMA HeldIsJob ==
    ASSUME TypeOK, NEW w \in Workers, wpc[w] \in InHand
    PROVE  held[w] \in Jobs
  BY DEF TypeOK, Jobs, NoJob

LEMMA InitInv == Init => IInv
<1> SUFFICES ASSUME Init
             PROVE  IInv
  OBVIOUS
<1>1. TypeOK
  BY BootsPositive DEF Init, TypeOK, Places, InHand, JobStatus
<1>2. HandInv /\ TemplateInv /\ OneRunPerJob /\ HeldInv
  BY DEF Init, HandInv, InHand, Claiming, TemplateInv, OneRunPerJob, HeldInv
<1> QED  BY <1>1, <1>2 DEF IInv

-----------------------------------------------------------------------------
(* Clients. *)

LEMMA SubmitStep ==
    ASSUME IInv, NEW j \in Jobs, Submit(j)
    PROVE  IInv'
<1> USE DEF IInv, Submit, worker
<1>1. TypeOK'
  BY DEF TypeOK, JobStatus
<1>2. \A w \in Workers : wpc[w] \in InHand => held[w] \in Jobs /\ held[w] # j
  BY HeldIsJob DEF HandInv
<1>3. HandInv'
  BY <1>2 DEF HandInv, TypeOK, InHand, Claiming
<1>4. TemplateInv' /\ OneRunPerJob'
  BY DEF TemplateInv, OneRunPerJob, TypeOK
<1>5. HeldInv'
  BY DEF HeldInv, Holds, TypeOK
<1> QED  BY <1>1, <1>3, <1>4, <1>5

LEMMA CancelStep ==
    ASSUME IInv, NEW j \in Jobs, CancelCheck(j) \/ CancelWrite(j)
    PROVE  IInv'
<1> USE DEF IInv, CancelCheck, CancelWrite, worker
<1>1. TypeOK'
  BY DEF TypeOK, JobStatus
<1>2. \A w \in Workers : wpc[w] \in InHand => held[w] \in Jobs
  BY HeldIsJob
<1>3. HandInv'
  BY <1>2 DEF HandInv, TypeOK, InHand, Claiming
<1>4. TemplateInv' /\ OneRunPerJob'
  BY DEF TemplateInv, OneRunPerJob, TypeOK
<1>5. HeldInv'
  BY DEF HeldInv, Holds, TypeOK
<1> QED  BY <1>1, <1>3, <1>4, <1>5

-----------------------------------------------------------------------------
(* The worker's steps that leave the job row and version 0 alone. *)

LEMMA DropType ==
    ASSUME TypeOK, NEW w \in Workers, NEW p \in Places \ InHand, Drop(w, p)
    PROVE  /\ wpc' \in [Workers -> Places]
           /\ held' \in [Workers -> Jobs \cup {NoJob}]
           /\ seen' \in [Workers -> JobStatus \cup {"none"}]
           /\ \A v \in Workers : held'[v] # NoJob <=> wpc'[v] \in InHand
  BY DEF TypeOK, Drop, Goto, NoJob

(* A job that is let go was not running, or is in other hands, or is lost. *)
LEMMA DropStep ==
    ASSUME IInv, NEW w \in Workers, NEW p \in Places \ InHand, Drop(w, p),
           UNCHANGED <<status, template, checked>>,
           stopping' \in [Workers -> BOOLEAN], boots' \in 0 .. MaxBoots,
           lost \subseteq lost', lost' \subseteq Jobs,
           \A j \in Jobs : Holds(w, j) /\ status[j] = "running" => j \in lost'
    PROVE  IInv'
<1> USE DEF IInv
<1>1. TypeOK'
  BY DropType DEF TypeOK
<1>2. \A v \in Workers : v # w => wpc'[v] = wpc[v] /\ held'[v] = held[v] /\ seen'[v] = seen[v]
  BY DEF Drop, Goto, TypeOK
<1>3. wpc'[w] = p
  BY DEF Drop, Goto, TypeOK
<1>4. HandInv'
  BY <1>2, <1>3 DEF HandInv, InHand, Claiming
<1>5. TemplateInv'
  BY DEF TemplateInv
<1>6. OneRunPerJob'
  BY <1>2, <1>3 DEF OneRunPerJob, InHand
<1>7. HeldInv'
  BY <1>2 DEF HeldInv, Holds
<1> QED  BY <1>1, <1>4, <1>5, <1>6, <1>7

LEMMA IdleStep ==
    ASSUME IInv, NEW w \in Workers,
           Start(w) \/ StopRequest(w) \/ Exit(w) \/ SelectNone(w) \/ Wake(w)
    PROVE  IInv'
<1> USE DEF IInv, Start, StopRequest, Exit, SelectNone, Wake, Goto
<1>1. TypeOK'
  <2>1. boots' \in 0 .. MaxBoots
    BY BootsPositive DEF TypeOK
  <2>2. wpc' \in [Workers -> Places] /\ stopping' \in [Workers -> BOOLEAN]
    BY DEF TypeOK, Places
  <2>3. \A v \in Workers : held'[v] # NoJob <=> wpc'[v] \in InHand
    BY DEF TypeOK, InHand
  <2> QED  BY <2>1, <2>2, <2>3 DEF TypeOK
<1>2. HandInv'
  BY DEF HandInv, TypeOK, InHand, Claiming
<1>3. TemplateInv' /\ OneRunPerJob'
  BY DEF TemplateInv, OneRunPerJob, TypeOK
<1>4. \A v \in Workers : wpc[v] \in Claiming => wpc'[v] = wpc[v]
  BY DEF TypeOK, Claiming
<1>5. HeldInv'
  BY <1>4 DEF HeldInv, Holds
<1> QED  BY <1>1, <1>2, <1>3, <1>5

LEMMA SelectStep ==
    ASSUME IInv, NEW w \in Workers, Select(w)
    PROVE  IInv'
<1> USE DEF IInv
<1>0. PICK j \in Queued : held' = [held EXCEPT ![w] = j]
  BY DEF Select
<1>1. /\ j \in Jobs /\ status[j] = "queued" /\ wpc[w] = "claim"
      /\ wpc' = [wpc EXCEPT ![w] = "update"]
      /\ UNCHANGED <<status, template, checked, seen, stopping, boots, lost>>
  BY DEF Select, Goto, Queued
<1>2. TypeOK'
  BY <1>0, <1>1 DEF TypeOK, Places, InHand, Jobs, NoJob
<1>3. HandInv'
  BY <1>0, <1>1 DEF HandInv, TypeOK, InHand, Claiming
<1>4. TemplateInv' /\ OneRunPerJob'
  BY <1>0, <1>1 DEF TemplateInv, OneRunPerJob, TypeOK
<1>5. \A v \in Workers : wpc[v] \in Claiming => wpc'[v] = wpc[v] /\ held'[v] = held[v]
  BY <1>0, <1>1 DEF TypeOK, Claiming
<1>6. HeldInv'
  BY <1>1, <1>5 DEF HeldInv, Holds
<1> QED  BY <1>2, <1>3, <1>4, <1>6

(* The claim: the row leaves the queue, if it has not done so before. *)
LEMMA UpdateStep ==
    ASSUME IInv, NEW w \in Workers, Update(w)
    PROVE  IInv'
<1> USE DEF IInv
<1> DEFINE j == held[w]
<1>1. /\ j \in Jobs /\ wpc[w] = "update" /\ status[j] # "absent"
      /\ status' = [status EXCEPT ![j] = Claimed(j)]
      /\ wpc' = [wpc EXCEPT ![w] = "load"]
      /\ UNCHANGED <<template, checked, held, seen, stopping, boots, lost>>
  BY HeldIsJob DEF Update, Goto, HandInv, InHand
<1>2. Claimed(j) \in JobStatus \ {"queued"} /\ (status[j] # "queued" => Claimed(j) = status[j])
  BY <1>1 DEF Claimed, TypeOK, JobStatus
<1> HIDE DEF j
<1>3. TypeOK'
  BY <1>1, <1>2 DEF TypeOK, Places, InHand
<1>4. \A v \in Workers : wpc[v] \in InHand => held[v] \in Jobs
  BY HeldIsJob
<1>5. HandInv'
  BY <1>1, <1>2, <1>4 DEF HandInv, TypeOK, InHand, Claiming, JobStatus, j
<1>6. TemplateInv'
  BY <1>1, <1>2 DEF TemplateInv, TypeOK, JobStatus
<1>7. OneRunPerJob'
  BY <1>1 DEF OneRunPerJob, TypeOK
<1>8. ASSUME NEW k \in Jobs, status'[k] = "running", k \notin lost'
      PROVE  \E v \in Workers : Holds(v, k)'
  <2>1. CASE k = j /\ status[j] = "queued"
    <3>1. j \notin template
      BY <2>1 DEF TemplateInv
    <3> QED  BY <1>1, <2>1, <3>1 DEF Holds, TypeOK, Claiming, j
  <2>2. CASE k # j \/ status[j] # "queued"
    <3>1. status[k] = "running"
      BY <1>1, <1>2, <1>8, <2>2 DEF TypeOK
    <3>2. PICK v \in Workers : Holds(v, k)
      BY <1>1, <1>8, <3>1 DEF HeldInv
    <3>3. v # w
      BY <1>1, <3>2 DEF Holds, Claiming
    <3> QED  BY <1>1, <3>2, <3>3 DEF Holds, TypeOK
  <2> QED  BY <2>1, <2>2
<1> QED  BY <1>3, <1>5, <1>6, <1>7, <1>8 DEF HeldInv

(* The claim fails: nobody had the job in hand, and if it was applied all the
   same, the job is one that was cut off. *)
LEMMA ClaimFaultStep ==
    ASSUME IInv, NEW w \in Workers, ClaimFault(w)
    PROVE  IInv'
<1>1. "dead" \in Places \ InHand
  BY DEF Places, InHand
<1>2. \A j \in Jobs : ~Holds(w, j)
  BY DEF ClaimFault, Holds, Claiming
<1>3. Drop(w, "dead") /\ UNCHANGED <<template, checked, stopping, boots>>
  BY DEF ClaimFault
<1>4. CASE UNCHANGED <<status, lost>>
  BY <1>1, <1>2, <1>3, <1>4, DropStep DEF IInv, TypeOK
<1>5. CASE /\ wpc[w] = "update" /\ status[held[w]] = "queued"
           /\ status' = [status EXCEPT ![held[w]] = Claimed(held[w])]
           /\ CutOff(w)
  <2> USE DEF IInv
  <2> DEFINE j == held[w]
  <2>1. /\ j \in Jobs /\ status[j] = "queued" /\ status' = [status EXCEPT ![j] = "running"]
        /\ lost' = lost \cup {j}
    BY <1>5, HeldIsJob DEF Claimed, CutOff, InHand, Jobs, NoJob
  <2>2. \A v \in Workers : wpc[v] \in InHand => held[v] \in Jobs
    BY HeldIsJob
  <2> HIDE DEF j
  <2>3. /\ wpc' = [wpc EXCEPT ![w] = "dead"] /\ seen' = [seen EXCEPT ![w] = "none"]
        /\ held' = [held EXCEPT ![w] = NoJob]
    BY <1>3 DEF Drop, Goto
  <2>4. TypeOK'
    <3>1. status' \in [Jobs -> JobStatus \cup {"absent"}] /\ lost' \subseteq Jobs
      BY <2>1 DEF TypeOK, JobStatus
    <3>2. /\ wpc' \in [Workers -> Places] /\ held' \in [Workers -> Jobs \cup {NoJob}]
          /\ seen' \in [Workers -> JobStatus \cup {"none"}]
          /\ \A v \in Workers : held'[v] # NoJob <=> wpc'[v] \in InHand
      BY <1>1, <1>3, DropType
    <3> QED  BY <1>3, <3>1, <3>2 DEF TypeOK
  <2>5. \A v \in Workers : v # w => wpc'[v] = wpc[v] /\ held'[v] = held[v] /\ seen'[v] = seen[v]
    BY <2>3 DEF TypeOK
  <2>6. wpc'[w] = "dead"
    BY <2>3 DEF TypeOK
  <2>7. \A k \in Jobs : status'[k] = IF k = j THEN "running" ELSE status[k]
    BY <2>1 DEF TypeOK
  <2>8. HandInv'
    BY <1>3, <2>2, <2>5, <2>6, <2>7 DEF HandInv, InHand, Claiming
  <2>9. TemplateInv'
    BY <1>3, <2>1, <2>7 DEF TemplateInv, TypeOK
  <2>10. OneRunPerJob'
    BY <2>5, <2>6 DEF OneRunPerJob
  <2>11. HeldInv'
    <3> SUFFICES ASSUME NEW k \in Jobs, status'[k] = "running", k \notin lost'
                 PROVE  \E v \in Workers : Holds(v, k)'
      BY DEF HeldInv
    <3>1. status[k] = "running" /\ k \notin lost
      BY <2>1, <2>7
    <3>2. PICK v \in Workers : Holds(v, k)
      BY <3>1 DEF HeldInv
    <3>3. v # w
      BY <1>2, <3>2
    <3> QED  BY <1>3, <2>5, <3>2, <3>3 DEF Holds
  <2> QED  BY <2>4, <2>8, <2>9, <2>10, <2>11
<1> QED  BY <1>4, <1>5 DEF ClaimFault

LEMMA LoadStep ==
    ASSUME IInv, NEW w \in Workers, Load(w)
    PROVE  IInv'
<1> USE DEF IInv
<1> DEFINE j == held[w]
<1>0. j \in Jobs /\ wpc[w] = "load"
  BY HeldIsJob DEF Load, InHand
<1>1. CASE status[j] \in {"queued", "running"}
  <2>1. /\ seen' = [seen EXCEPT ![w] = status[j]]
        /\ wpc' = [wpc EXCEPT ![w] = "setup"]
        /\ UNCHANGED <<status, template, checked, held, stopping, boots, lost>>
    BY <1>1 DEF Load, Goto
  <2>2. TypeOK'
    BY <1>0, <1>1, <2>1 DEF TypeOK, Places, InHand, JobStatus
  <2>3. HandInv'
    BY <1>0, <1>1, <2>1 DEF HandInv, TypeOK, InHand, Claiming
  <2>4. TemplateInv' /\ OneRunPerJob'
    BY <1>0, <2>1 DEF TemplateInv, OneRunPerJob, TypeOK
  <2>5. \A v \in Workers : \A k : Holds(v, k) => Holds(v, k)'
    BY <1>0, <2>1 DEF Holds, TypeOK, Claiming
  <2>6. HeldInv'
    BY <2>1, <2>5 DEF HeldInv
  <2> QED  BY <2>2, <2>3, <2>4, <2>6
<1>2. CASE status[j] \notin {"queued", "running"}
  <2>1. Drop(w, "claim") /\ UNCHANGED <<status, template, checked, stopping, boots, lost>>
    BY <1>2 DEF Load
  <2>2. "claim" \in Places \ InHand
    BY DEF Places, InHand
  <2>3. \A k \in Jobs : Holds(w, k) => status[k] # "running"
    BY <1>2 DEF Holds
  <2> QED  BY <2>1, <2>2, <2>3, DropStep DEF TypeOK
<1> QED  BY <1>1, <1>2

(* Version 0 is stored by at most one of a job's processors. *)
LEMMA SetUpStep ==
    ASSUME IInv, NEW w \in Workers, SetUp(w)
    PROVE  IInv'
<1> USE DEF IInv
<1> DEFINE j == held[w]
<1>1. /\ j \in Jobs /\ wpc[w] = "setup" /\ j \notin template
      /\ status[j] \notin {"absent", "queued"}
      /\ template' = template \cup {j}
      /\ wpc' = [wpc EXCEPT ![w] = "working"]
      /\ UNCHANGED <<status, checked, held, seen, stopping, boots, lost>>
  BY HeldIsJob DEF SetUp, Goto, InHand, HandInv, Claiming
<1>2. TypeOK'
  BY <1>1 DEF TypeOK, Places, InHand
<1>3. HandInv'
  BY <1>1 DEF HandInv, TypeOK, InHand, Claiming
<1>4. TemplateInv'
  BY <1>1 DEF TemplateInv
<1>5. OneRunPerJob'
  BY <1>1 DEF OneRunPerJob, TypeOK, HandInv
<1>6. ASSUME NEW k \in Jobs, status'[k] = "running", k \notin lost'
      PROVE  \E v \in Workers : Holds(v, k)'
  <2>1. CASE k = j
    <3>1. Holds(w, k)'
      BY <1>1, <2>1 DEF Holds, TypeOK, Claiming
    <3> QED  BY <3>1
  <2>2. CASE k # j
    <3>1. PICK v \in Workers : Holds(v, k)
      BY <1>1, <1>6 DEF HeldInv
    <3>2. v # w
      BY <2>2, <3>1 DEF Holds
    <3> QED  BY <1>1, <2>2, <3>1, <3>2 DEF Holds, TypeOK
  <2> QED  BY <2>1, <2>2
<1> QED  BY <1>2, <1>3, <1>4, <1>5, <1>6 DEF HeldInv

(* A processor that is refused, or sees the cancellation, or is cut off. *)
LEMMA LetGoStep ==
    ASSUME IInv, NEW w \in Workers,
           SetUpRefused(w) \/ Notice(w) \/ RunAborts(w) \/ Crash(w)
    PROVE  IInv'
<1> USE DEF IInv
<1>0. "claim" \in Places \ InHand /\ "off" \in Places \ InHand
  BY DEF Places, InHand
<1>1. CASE SetUpRefused(w)
  <2>1. \A j \in Jobs : ~Holds(w, j)
    BY <1>1 DEF SetUpRefused, Holds
  <2> QED  BY <1>0, <1>1, <2>1, DropStep DEF SetUpRefused, TypeOK
<1>2. CASE Notice(w)
  <2>1. \A j \in Jobs : Holds(w, j) => status[j] # "running"
    BY <1>2 DEF Notice, Holds
  <2> QED  BY <1>0, <1>2, <2>1, DropStep DEF Notice, TypeOK
<1>3. CASE RunAborts(w) \/ Crash(w)
  <2>1. lost \subseteq lost' /\ lost' \subseteq Jobs
    BY <1>3 DEF RunAborts, Crash, CutOff, TypeOK
  <2>2. \A j \in Jobs : Holds(w, j) => j \in lost'
    BY <1>3 DEF RunAborts, Crash, CutOff, Holds, Jobs, NoJob
  <2>3. Drop(w, "claim") \/ Drop(w, "off")
    BY <1>3 DEF RunAborts, Crash
  <2>4. UNCHANGED <<status, template, checked, stopping, boots>>
    BY <1>3 DEF RunAborts, Crash
  <2> QED  BY <1>0, <2>1, <2>2, <2>3, <2>4, DropStep DEF TypeOK
<1> QED  BY <1>1, <1>2, <1>3

(* The final status is written over whatever the row holds. *)
LEMMA FinishStep ==
    ASSUME IInv, NEW w \in Workers, Finish(w)
    PROVE  IInv'
<1> USE DEF IInv
<1> DEFINE j == held[w]
<1>0. PICK s \in {"completed", "failed"} : status' = [status EXCEPT ![j] = s]
  BY DEF Finish
<1>1. /\ j \in Jobs /\ Drop(w, "claim") /\ UNCHANGED <<template, checked, stopping, boots, lost>>
      /\ "claim" \in Places \ InHand
  BY HeldIsJob DEF Finish, InHand, Places
<1>2. /\ \A v \in Workers : v # w => wpc'[v] = wpc[v] /\ held'[v] = held[v] /\ seen'[v] = seen[v]
      /\ wpc'[w] = "claim"
  BY <1>1 DEF Drop, Goto, TypeOK
<1> HIDE DEF j
<1>3. TypeOK'
  BY <1>0, <1>1, DropType DEF TypeOK, JobStatus
<1>4. \A v \in Workers : wpc[v] \in InHand => held[v] \in Jobs
  BY HeldIsJob
<1>5. HandInv'
  BY <1>0, <1>1, <1>2, <1>4 DEF HandInv, TypeOK, InHand, Claiming
<1>6. TemplateInv' /\ OneRunPerJob'
  BY <1>0, <1>1, <1>2 DEF TemplateInv, OneRunPerJob, TypeOK
<1>7. ASSUME NEW k \in Jobs, status'[k] = "running", k \notin lost'
      PROVE  \E v \in Workers : Holds(v, k)'
  <2>1. k # j /\ status[k] = "running"
    BY <1>0, <1>1, <1>7 DEF TypeOK
  <2>2. PICK v \in Workers : Holds(v, k)
    BY <1>1, <1>7, <2>1 DEF HeldInv
  <2>3. v # w
    BY <2>1, <2>2 DEF Holds, j
  <2> QED  BY <1>1, <1>2, <2>2, <2>3 DEF Holds
<1> QED  BY <1>3, <1>5, <1>6, <1>7 DEF HeldInv

LEMMA StepInv == IInv /\ [Next]_vars => IInv'
<1> SUFFICES ASSUME IInv, [Next]_vars
             PROVE  IInv'
  OBVIOUS
<1>1. ASSUME NEW j \in Jobs, Submit(j) \/ CancelCheck(j) \/ CancelWrite(j)
      PROVE  IInv'
  BY <1>1, SubmitStep, CancelStep
<1>2. ASSUME NEW w \in Workers,
             Start(w) \/ StopRequest(w) \/ Task(w) \/ ClaimFault(w) \/ RunAborts(w) \/ Crash(w)
      PROVE  IInv'
  BY <1>2, IdleStep, SelectStep, UpdateStep, ClaimFaultStep, LoadStep, SetUpStep,
     LetGoStep, FinishStep DEF Task
<1>3. CASE UNCHANGED vars
  BY <1>3 DEF vars, worker, IInv, TypeOK, HandInv, TemplateInv, OneRunPerJob, HeldInv, Holds
<1> QED  BY <1>1, <1>2, <1>3 DEF Next

LEMMA InvHolds == Spec => []IInv
  BY InitInv, StepInv, PTL DEF Spec

-----------------------------------------------------------------------------
(* Every reachable state is well-typed, and a worker has a job in hand exactly
   between its claim and the end of the run. *)
THEOREM TypeCorrect == Spec => []TypeOK
<1>1. IInv => TypeOK
  BY DEF IInv
<1> QED  BY <1>1, InvHolds, PTL

(* No two processors work on one job, whatever the claims' row counts are. *)
THEOREM JobsRunOnce == Spec => []OneRunPerJob
<1>1. IInv => OneRunPerJob
  BY DEF IInv
<1> QED  BY <1>1, InvHolds, PTL

(* A running job that nobody has in hand was cut off by a crash or a failed
   write: shutting down, cancelling and claiming twice lose none. *)
THEOREM NoJobIsLost == Spec => []RunningJobsAreHeld
<1>1. IInv => RunningJobsAreHeld
  BY DEF IInv, HeldInv, Holds, RunningJobsAreHeld
<1> QED  BY <1>1, InvHolds, PTL

LEMMA StepKeepsTerminal ==
    ASSUME IInv, [Next]_vars, NEW j \in Jobs, status[j] \in Terminal
    PROVE  status'[j] \in Terminal
<1>1. ASSUME NEW w \in Workers, Task(w)
      PROVE  status'[j] \in Terminal
  <2>1. CASE Update(w)
    BY <2>1, HeldIsJob DEF Update, Claimed, Terminal, IInv, TypeOK
  <2>2. CASE Finish(w)
    BY <2>2 DEF Finish, Terminal, IInv, TypeOK
  <2>3. CASE ~Update(w) /\ ~Finish(w)
    BY <1>1, <2>3 DEF Task, Exit, Select, SelectNone, Wake, Load, SetUp, SetUpRefused, Notice
  <2> QED  BY <2>1, <2>2, <2>3
<1>2. ASSUME NEW w \in Workers,
             Start(w) \/ StopRequest(w) \/ ClaimFault(w) \/ RunAborts(w) \/ Crash(w)
      PROVE  status'[j] \in Terminal
  <2>1. CASE Start(w) \/ StopRequest(w) \/ RunAborts(w) \/ Crash(w)
    BY <2>1 DEF Start, StopRequest, RunAborts, Crash
  <2>2. CASE ClaimFault(w)
    BY <2>2, HeldIsJob DEF ClaimFault, Terminal, IInv, TypeOK
  <2> QED  BY <1>2, <2>1, <2>2
<1>3. ASSUME NEW k \in Jobs, Submit(k) \/ CancelCheck(k) \/ CancelWrite(k)
      PROVE  status'[j] \in Terminal
  BY <1>3 DEF Submit, CancelCheck, CancelWrite, Terminal, IInv, TypeOK
<1>4. CASE UNCHANGED vars
  BY <1>4 DEF vars
<1> QED  BY <1>1, <1>2, <1>3, <1>4 DEF Next

(* A finished or cancelled job never becomes active again. *)
THEOREM NoJobRevives == Spec => NothingRevives
<1>1. IInv /\ [Next]_vars =>
        [\A j \in Jobs : status[j] \in Terminal => status'[j] \in Terminal]_vars
  BY StepKeepsTerminal
<1> QED  BY <1>1, InvHolds, PTL DEF Spec, NothingRevives

(* A step that takes a job out of "cancelled" is the end of a run that had
   loaded it. *)
LEMMA StepKeepsCancelled ==
    ASSUME IInv, [Next]_vars, NEW j \in Jobs, status[j] = "cancelled",
           \A w \in Workers : held[w] = j => seen[w] = "none"
    PROVE  status'[j] = "cancelled"
<1>1. ASSUME NEW w \in Workers, Task(w)
      PROVE  status'[j] = "cancelled"
  <2>1. CASE Update(w)
    BY <2>1, HeldIsJob DEF Update, Claimed, IInv, TypeOK
  <2>2. CASE Finish(w)
    <3>1. seen[w] # "none"
      BY <2>2 DEF Finish, IInv, HandInv
    <3>2. held[w] # j
      BY <3>1
    <3> QED  BY <2>2, <3>2 DEF Finish, IInv, TypeOK
  <2>3. CASE ~Update(w) /\ ~Finish(w)
    BY <1>1, <2>3 DEF Task, Exit, Select, SelectNone, Wake, Load, SetUp, SetUpRefused, Notice
  <2> QED  BY <2>1, <2>2, <2>3
<1>2. ASSUME NEW w \in Workers,
             Start(w) \/ StopRequest(w) \/ ClaimFault(w) \/ RunAborts(w) \/ Crash(w)
      PROVE  status'[j] = "cancelled"
  <2>1. CASE Start(w) \/ StopRequest(w) \/ RunAborts(w) \/ Crash(w)
    BY <2>1 DEF Start, StopRequest, RunAborts, Crash
  <2>2. CASE ClaimFault(w)
    BY <2>2, HeldIsJob DEF ClaimFault, IInv, TypeOK
  <2> QED  BY <1>2, <2>1, <2>2
<1>3. ASSUME NEW k \in Jobs, Submit(k) \/ CancelCheck(k) \/ CancelWrite(k)
      PROVE  status'[j] = "cancelled"
  BY <1>3 DEF Submit, CancelCheck, CancelWrite, IInv, TypeOK
<1>4. CASE UNCHANGED vars
  BY <1>4 DEF vars
<1> QED  BY <1>1, <1>2, <1>3, <1>4 DEF Next

(* A job cancelled before any processor loaded it stays cancelled. *)
THEOREM OnlyRunsOverwrite == Spec => OnlyEarlierLoadOverwrites
<1>1. IInv /\ [Next]_vars =>
        [\A j \in Jobs :
            status[j] = "cancelled" /\ (\A w \in Workers : held[w] = j => seen[w] = "none")
              => status'[j] = "cancelled"]_vars
  BY StepKeepsCancelled
<1> QED  BY <1>1, InvHolds, PTL DEF Spec, OnlyEarlierLoadOverwrites

-----------------------------------------------------------------------------
(* How many steps of its task a worker that was told to stop has left. *)
Steps ==
    [p \in Places |->
        CASE p = "update" -> 5 [] p = "load" -> 4 [] p = "setup" -> 3
          [] p \in {"working", "wait"} -> 2 [] p \in {"claim", "dead"} -> 1
          [] p = "off" -> 0]

(* A worker told to stop stays told until its process is gone; each step of its
   task brings it nearer to that, and nothing another process or a client does
   takes it further away or gives it another job. *)
StopsInFewSteps ==
    [][\A w \in Workers : stopping[w] /\ wpc[w] # "off" =>
          /\ stopping'[w]
          /\ Task(w) => Steps[wpc'[w]] < Steps[wpc[w]]
          /\ wpc'[w] = wpc[w] \/ Steps[wpc'[w]] < Steps[wpc[w]]
          /\ held'[w] \in {held[w], NoJob}]_vars

LEMMA StepsAre ==
    /\ Steps["update"] = 5 /\ Steps["load"] = 4 /\ Steps["setup"] = 3
    /\ Steps["working"] = 2 /\ Steps["wait"] = 2
    /\ Steps["claim"] = 1 /\ Steps["dead"] = 1 /\ Steps["off"] = 0
BY DEF Steps, Places

(* What a worker does, it does to itself. *)
LEMMA OthersStay ==
    ASSUME TypeOK, NEW v \in Workers, NEW w \in Workers, v # w,
           Start(v) \/ StopRequest(v) \/ Task(v) \/ ClaimFault(v) \/ RunAborts(v) \/ Crash(v)
    PROVE  wpc'[w] = wpc[w] /\ held'[w] = held[w] /\ stopping'[w] = stopping[w]
BY DEF TypeOK, Start, StopRequest, Task, Exit, Select, SelectNone, Wake, Update, Load, SetUp,
       SetUpRefused, Notice, Finish, ClaimFault, RunAborts, Crash, Drop, Goto

LEMMA StoppingStep ==
    ASSUME TypeOK, NEW w \in Workers, stopping[w], wpc[w] # "off",
           Start(w) \/ StopRequest(w) \/ Task(w) \/ ClaimFault(w) \/ RunAborts(w) \/ Crash(w)
    PROVE  /\ stopping'[w]
           /\ Steps[wpc'[w]] < Steps[wpc[w]]
           /\ held'[w] \in {held[w], NoJob}
<1>1. stopping' = stopping /\ ~Start(w) /\ ~StopRequest(w) /\ ~Select(w) /\ ~SelectNone(w)
  BY DEF Start, StopRequest, Task, Exit, Select, SelectNone, Wake, Update, Load, SetUp,
         SetUpRefused, Notice, Finish, ClaimFault, RunAborts, Crash, Drop, Goto
<1>2. CASE Exit(w) \/ Wake(w) \/ Update(w) \/ SetUp(w)
  BY <1>1, <1>2, StepsAre DEF TypeOK, Exit, Wake, Update, SetUp, Goto
<1>3. CASE Load(w) \/ SetUpRefused(w) \/ Notice(w) \/ Finish(w)
  BY <1>1, <1>3, StepsAre DEF TypeOK, Load, SetUpRefused, Notice, Finish, Drop, Goto
<1>4. CASE ClaimFault(w) \/ RunAborts(w)
  BY <1>1, <1>4, StepsAre DEF TypeOK, ClaimFault, RunAborts, Drop, Goto
<1>5. CASE Crash(w)
  <2>1. wpc[w] \in Places \ {"off"} /\ wpc'[w] = "off" /\ held'[w] = NoJob
    BY <1>5 DEF TypeOK, Crash, Drop, Goto
  <2> QED  BY <1>1, <2>1, StepsAre DEF Places
<1> QED  BY <1>1, <1>2, <1>3, <1>4, <1>5 DEF Task

(* A shutdown waits for at most five steps of the worker's task, each with a
   limit of its own: this is ShutdownEnds without the fairness. *)
THEOREM ShutdownIsShort == Spec => StopsInFewSteps
<1>1. ASSUME TypeOK, Next, NEW w \in Workers, stopping[w], wpc[w] # "off"
      PROVE  /\ stopping'[w]
             /\ Task(w) => Steps[wpc'[w]] < Steps[wpc[w]]
             /\ wpc'[w] = wpc[w] \/ Steps[wpc'[w]] < Steps[wpc[w]]
             /\ held'[w] \in {held[w], NoJob}
  <2>1. CASE \E j \in Jobs : Submit(j) \/ CancelCheck(j) \/ CancelWrite(j)
    <3>1. UNCHANGED worker
      BY <2>1 DEF Submit, CancelCheck, CancelWrite
    <3>2. ~Task(w)
      <4>1. ASSUME Task(w) PROVE wpc'[w] # wpc[w]
        <5>1. Steps[wpc'[w]] < Steps[wpc[w]]
          BY <1>1, <4>1, StoppingStep
        <5>2. Steps[wpc[w]] \in Int
          BY <1>1, StepsAre DEF TypeOK, Places
        <5> QED  BY <5>1, <5>2
      <4> QED  BY <3>1, <4>1 DEF worker
    <3> QED  BY <1>1, <3>1, <3>2 DEF worker
  <2>2. ASSUME NEW v \in Workers, v # w,
               Start(v) \/ StopRequest(v) \/ Task(v) \/ ClaimFault(v) \/ RunAborts(v) \/ Crash(v)
        PROVE  wpc'[w] = wpc[w] /\ held'[w] = held[w] /\ stopping'[w] = stopping[w]
    BY <1>1, <2>2, OthersStay
  <2>3. Task(w) => Steps[wpc'[w]] < Steps[wpc[w]]
    BY <1>1, StoppingStep
  <2> QED  BY <1>1, <2>1, <2>2, <2>3, StoppingStep DEF Next
<1>2. TypeOK /\ [Next]_vars =>
        [\A w \in Workers : stopping[w] /\ wpc[w] # "off" =>
            /\ stopping'[w]
            /\ Task(w) => Steps[wpc'[w]] < Steps[wpc[w]]
            /\ wpc'[w] = wpc[w] \/ Steps[wpc'[w]] < Steps[wpc[w]]
            /\ held'[w] \in {held[w], NoJob}]_vars
  BY <1>1
<1> QED  BY <1>2, TypeCorrect, PTL DEF Spec, StopsInFewSteps
=============================================================================
