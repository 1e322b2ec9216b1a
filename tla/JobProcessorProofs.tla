-------------------------- MODULE JobProcessorProofs --------------------------
(* Proofs about JobProcessor, for every max_iterations, patience and set of
   benchmark results, with and without failed writes. *)
EXTENDS JobProcessor, TLAPS

(***************************************************************************)
(* The inductive invariant.                                                *)
(***************************************************************************)
Before     == {"claim", "load", "ack", "begin", "setup"}
Unjudged   == {"top", "insert", "bench", "benched", "save", "judge"}
JudgedHere == {"mark", "propose", "proposed", "record", "adopt"}
Running    == Unjudged \cup JudgedHere \cup {"begin", "setup", "fail"}
Ending     == {"finish", "done", "raised", "aborted"}

(* The job row until the processor's last commit: nobody but the canceller
   ends the job, and it writes status, stop reason and time together. *)
RowInv ==
    /\ pc \notin Ending =>
        /\ job.status \in IF pc = "claim" THEN {"queued", "cancelled"}
                                          ELSE {"running", "cancelled"}
        /\ job.stop = IF job.status = "cancelled" THEN "cancelled" ELSE "none"
    /\ pc \in {"claim", "load"} => mem = NewJob /\ synced = NewJob

(* The ORM copy: only the final commits change its status, only the processor
   writes the best fields, and a cancellation it holds is in the row. *)
CopyInv ==
    /\ mem.status = synced.status
    /\ mem.bestScore = job.bestScore /\ mem.bestVersion = job.bestVersion
    /\ synced.bestScore = job.bestScore /\ synced.bestVersion = job.bestVersion
    /\ mem.status = "cancelled" => job.status = "cancelled"
    /\ pc \in Running => mem.status = "running" /\ mem.stop = "none" /\ synced.stop = "none"
    /\ pc \in {"settle", "ack"} => mem.status = "cancelled" /\ mem.stop = "cancelled"

(* One version per iteration. *)
CountInv ==
    /\ nextVersion = no + 1
    /\ candidate = IF no = 0 THEN NoVersion ELSE no
    /\ bestVersion <= no
    /\ pc \in Before => no = 0
    /\ pc \in JudgedHere => no < MaxIterations
    /\ pc \in {"benched", "save", "judge"} => result \in Outcomes

(* A row that holds the result of running version k as iteration k. *)
Complete(k) ==
    /\ iters[k].phase = "done" /\ iters[k].version = k
    /\ iters[k].score # NoScore
    /\ iters[k].accepted # "unjudged"
    /\ iters[k].optimized
    /\ versions[k].stored

(* The rows: complete before the current iteration, none after it. *)
PastInv   == \A k \in IterNos : k < no => Complete(k)
FutureInv == \A k \in IterNos : k > no => iters[k] = NoRow /\ ~versions[k].stored

(* The row of the current iteration, as far as the processor has come. *)
PresentInv ==
    /\ iters[no] # NoRow => /\ iters[no].phase # "absent"
                            /\ iters[no].version = no
                            /\ versions[no].stored
    /\ pc = "settle" => iters[no] # NoRow
    /\ pc \in Before \cup {"top", "insert"} => iters[no] = NoRow
    /\ pc \in Unjudged \cup JudgedHere => versions[no].stored
    /\ pc \in (Unjudged \ {"top", "insert"}) \cup JudgedHere => iters[no] # NoRow
    /\ pc \in Unjudged /\ no > 0 => iters[no].accepted = "unjudged"
    /\ pc \in Unjudged \ {"judge"} => iters[no].score = NoScore
    /\ pc = "judge" => iters[no].score = result.score /\ result.score # NoScore
    /\ pc \in JudgedHere => iters[no].score # NoScore /\ iters[no].accepted # "unjudged"
    /\ pc = "adopt" => iters[no].optimized

(* The best score and version of the job row, the processor and the rows. *)
BestInv ==
    /\ job.bestScore = bestScore
    /\ pc \in JudgedHere \/ no > 0 => bestScore # NoScore
    /\ pc \in Before \cup Unjudged /\ no = 0 => bestScore = NoScore
    /\ pc \in Unjudged /\ no > 0 => bestVersion < no
    /\ bestScore = NoScore => job.bestVersion = NoVersion /\ bestVersion = 0
    /\ bestScore # NoScore =>
          /\ job.bestVersion = bestVersion
          /\ iters[bestVersion].score = bestScore
          /\ iters[bestVersion].accepted = "yes"
          /\ iters[bestVersion].version = bestVersion
          /\ \A k \in IterNos : iters[k].accepted # "unjudged" => iters[k].score <= bestScore

(* Every candidate comes from the best version of its time. *)
ParentInv ==
    \A v \in IterNos : versions[v].stored /\ v > 0 =>
        /\ versions[v].createdBy = v - 1
        /\ versions[v].parent \in 0 .. v - 1
        /\ iters[versions[v].parent].accepted = "yes"
        /\ \A j \in 0 .. v - 1 : iters[j].score <= iters[versions[v].parent].score

IInv == /\ TypeOK /\ RowInv /\ CopyInv /\ CountInv
        /\ PastInv /\ FutureInv /\ PresentInv /\ BestInv /\ ParentInv

-----------------------------------------------------------------------------
USE JobLimits, ResultsType, DbFaultsType DEF IterNos, NoScore, NoVersion, NoIter

(* A commit writes a job row, and one with the copy's best fields. *)
LEMMA FlushIsRow ==
    ASSUME TypeOK, NEW m \in JobRow
    PROVE  /\ Flush(m) \in JobRow
           /\ Flush(m).status = IF m.status # synced.status THEN m.status ELSE job.status
           /\ Flush(m).stop = IF m.stop # synced.stop THEN m.stop ELSE job.stop
           /\ Flush(m).finished = IF m.finished # synced.finished
                                  THEN m.finished ELSE job.finished
           /\ Flush(m).bestScore = IF m.bestScore # synced.bestScore
                                   THEN m.bestScore ELSE job.bestScore
           /\ Flush(m).bestVersion = IF m.bestVersion # synced.bestVersion
                                     THEN m.bestVersion ELSE job.bestVersion
<1>1. Flush(m) =
         [status |-> IF m.status # synced.status THEN m.status ELSE job.status,
          stop |-> IF m.stop # synced.stop THEN m.stop ELSE job.stop,
          finished |-> IF m.finished # synced.finished THEN m.finished ELSE job.finished,
          bestScore |-> IF m.bestScore # synced.bestScore THEN m.bestScore
                        ELSE job.bestScore,
          bestVersion |-> IF m.bestVersion # synced.bestVersion THEN m.bestVersion
                          ELSE job.bestVersion]
  BY DEF Flush
<1>2. Flush(m) \in JobRow
  BY <1>1 DEF TypeOK, JobRow
<1>3. QED  BY <1>1, <1>2

(* The invariant holds of a job just picked. *)
LEMMA InitHolds == Init => IInv
<1>1. SUFFICES ASSUME Init PROVE IInv  OBVIOUS
<1>2. TypeOK
  <2>1. NewJob \in JobRow  BY DEF NewJob, JobRow, JobStatus, StopReason
  <2>2. NoRow \in IterRow  BY DEF NoRow, IterRow, Phases
  <2>3. NotStored \in VerRow  BY DEF NotStored, VerRow
  <2>4. job \in JobRow /\ mem \in JobRow /\ synced \in JobRow
    BY <1>1, <2>1 DEF Init
  <2>5. iters \in [IterNos -> IterRow] /\ versions \in [IterNos -> VerRow]
    BY <1>1, <2>2, <2>3 DEF Init
  <2>6. pc \in Places /\ no \in IterNos /\ bestVersion \in IterNos
    BY <1>1 DEF Init, Places
  <2>7. result \in [score : Nat \cup {NoScore}, allPassed : BOOLEAN]
    BY <1>1 DEF Init
  <2>8. QED  BY <1>1, <2>4, <2>5, <2>6, <2>7 DEF Init, TypeOK
<1>3. RowInv /\ CopyInv /\ CountInv
  BY <1>1 DEF Init, RowInv, CopyInv, CountInv, NewJob, Running, Unjudged, JudgedHere,
              Before, Ending
<1>4. PastInv /\ FutureInv /\ PresentInv /\ ParentInv
  BY <1>1 DEF Init, PastInv, FutureInv, PresentInv, ParentInv, NoRow, NotStored, Unjudged,
              JudgedHere, Before
<1>5. BestInv
  BY <1>1 DEF Init, BestInv, NewJob, JudgedHere, Unjudged, Before
<1>6. QED  BY <1>2, <1>3, <1>4, <1>5 DEF IInv

(* Steps that write no iteration and no version leave the history as it is. *)
LEMMA HistoryKept ==
    ASSUME PastInv, FutureInv, ParentInv, UNCHANGED <<iters, versions, no>>
    PROVE  PastInv' /\ FutureInv' /\ ParentInv'
BY DEF PastInv, FutureInv, ParentInv, Complete

(* The places a processor that only moves on can reach, and what it may change:
   an outcome, an exception or a failed write. *)
LEMMA MoveStep ==
    ASSUME IInv,
           SetUpRaises \/ BenchmarkReturns \/ BenchmarkRaises \/ ProposalReturns
              \/ ProposalRaises \/ DbFault
    PROVE  IInv'
<1>1. UNCHANGED <<rows, orm, no, bestVersion, bestScore, noImprove, nextVersion, candidate,
                  apiChecked>>
  BY DEF SetUpRaises, BenchmarkReturns, BenchmarkRaises, ProposalReturns, ProposalRaises,
         DbFault, locals
<1>2. \/ pc = "setup" /\ pc' = "fail" /\ UNCHANGED <<result, changed>>
      \/ pc = "bench" /\ pc' = "benched" /\ result' \in Outcomes /\ UNCHANGED changed
      \/ pc = "bench" /\ pc' = "fail" /\ UNCHANGED <<result, changed>>
      \/ pc = "propose" /\ pc' = "proposed" /\ changed' \in BOOLEAN /\ UNCHANGED result
      \/ pc = "propose" /\ pc' = "fail" /\ UNCHANGED <<result, changed>>
      \/ pc \in Statements /\ pc' = "aborted" /\ UNCHANGED <<result, changed>>
      \/ pc \in Reads /\ pc' = "fail" /\ UNCHANGED <<result, changed>>
  BY DEF SetUpRaises, BenchmarkReturns, BenchmarkRaises, ProposalReturns, ProposalRaises,
         DbFault, locals
<1>3. TypeOK'
  BY <1>1, <1>2 DEF IInv, TypeOK, Places, rows, orm
<1>4. RowInv' /\ CopyInv'
  BY <1>1, <1>2 DEF IInv, RowInv, CopyInv, Running, Unjudged, JudgedHere, Ending, Statements, Reads,
                    rows, orm
<1>5. CountInv'
  BY <1>1, <1>2 DEF IInv, CountInv, Before, JudgedHere, Statements, Reads
<1>6. PastInv' /\ FutureInv' /\ ParentInv'
  BY <1>1, HistoryKept DEF IInv, rows
<1>7. PresentInv'
  BY <1>1, <1>2 DEF IInv, PresentInv, Before, Unjudged, JudgedHere, Reads, rows
<1>8. BestInv'
  BY <1>1, <1>2 DEF IInv, BestInv, Before, Unjudged, JudgedHere, Reads, rows
<1>9. QED  BY <1>3, <1>4, <1>5, <1>6, <1>7, <1>8 DEF IInv

(* A cancelled copy of a cancelled row is that row. *)
LEMMA MarkIsRow ==
    ASSUME NEW m \in JobRow
    PROVE  /\ MarkCancelled(m) \in JobRow
           /\ MarkCancelled(m).status = m.status
           /\ MarkCancelled(m).stop = "cancelled"
           /\ MarkCancelled(m).bestScore = m.bestScore
           /\ MarkCancelled(m).bestVersion = m.bestVersion
BY DEF MarkCancelled, JobRow, StopReason

(* Steps that read the job row into the copy. *)
LEMMA LookStep ==
    ASSUME IInv,
           Load \/ RefreshAtTop \/ RefreshAfterBenchmark \/ RefreshAfterProposal
    PROVE  IInv'
<1>1. UNCHANGED <<job, iters, versions, no, bestVersion, bestScore, noImprove, nextVersion,
                  candidate, result, changed, apiChecked>>
  BY DEF Load, RefreshAtTop, RefreshAfterBenchmark, RefreshAfterProposal, RefreshAfter,
         Refresh, rows, locals
<1>2. synced' = job /\ mem' \in {job, MarkCancelled(job)}
  BY DEF Load, RefreshAtTop, RefreshAfterBenchmark, RefreshAfterProposal, RefreshAfter, Refresh
<1>3. \/ pc = "load" /\ mem' = job /\ job.status = "cancelled" /\ pc' = "ack"
      \/ pc = "load" /\ mem' = job /\ job.status # "cancelled" /\ pc' = "begin"
      \/ pc = "top" /\ job.status = "cancelled" /\ pc' = "finish"
      \/ pc = "top" /\ mem' = job /\ job.status # "cancelled" /\ pc' = "insert"
      \/ pc \in {"benched", "proposed"} /\ mem' = job /\ job.status = "cancelled"
            /\ pc' = "settle"
      \/ pc = "benched" /\ mem' = job /\ job.status # "cancelled" /\ pc' = "save"
      \/ pc = "proposed" /\ mem' = job /\ job.status # "cancelled" /\ pc' = "record"
  BY DEF Load, RefreshAtTop, RefreshAfterBenchmark, RefreshAfterProposal, RefreshAfter,
         Refresh, SeesCancelled, IInv, RowInv, Ending
<1>4. job \in JobRow  BY DEF IInv, TypeOK
<1>5. mem'.status = job.status /\ mem' \in JobRow
      /\ mem'.bestScore = job.bestScore /\ mem'.bestVersion = job.bestVersion
  BY <1>2, <1>4, MarkIsRow
<1>6. TypeOK'
  BY <1>1, <1>2, <1>3, <1>5 DEF IInv, TypeOK, Places
<1>7. RowInv'
  BY <1>1, <1>3 DEF IInv, RowInv, Ending
<1>8. CopyInv'
  BY <1>1, <1>2, <1>3, <1>5 DEF IInv, CopyInv, RowInv, Running, Unjudged, JudgedHere, Ending
<1>9. CountInv'
  BY <1>1, <1>3 DEF IInv, CountInv, Before, JudgedHere
<1>10. PastInv' /\ FutureInv' /\ ParentInv'
  BY <1>1, HistoryKept DEF IInv
<1>11. PresentInv'
  BY <1>1, <1>3 DEF IInv, PresentInv, Before, Unjudged, JudgedHere
<1>12. BestInv'
  BY <1>1, <1>3 DEF IInv, BestInv, Before, Unjudged, JudgedHere
<1>13. QED  BY <1>6, <1>7, <1>8, <1>9, <1>10, <1>11, <1>12 DEF IInv

(* Steps that write the job row only. *)
LEMMA JobRowStep ==
    ASSUME IInv,
           Claim \/ AcknowledgeCancelled \/ Begin \/ Finish \/ Fail
              \/ ApiCancelCheck \/ ApiCancelWrite
    PROVE  IInv'
<1>1. UNCHANGED <<iters, versions, no, bestVersion, bestScore, noImprove, nextVersion,
                  candidate, result, changed>>
  BY DEF Claim, AcknowledgeCancelled, Begin, Finish, Fail, ApiCancelCheck, ApiCancelWrite,
         rows, locals
<1>2. job \in JobRow /\ mem \in JobRow /\ synced \in JobRow
  BY DEF IInv, TypeOK
<1>3. \/ pc = "claim" /\ pc' = "load"
      \/ pc = "ack" /\ pc' = "done"
      \/ pc = "begin" /\ pc' = "setup"
      \/ pc = "finish" /\ pc' = "done"
      \/ pc = "fail" /\ pc' = "raised"
      \/ pc' = pc
  BY DEF Claim, AcknowledgeCancelled, Begin, Finish, Fail, ApiCancelCheck, ApiCancelWrite
<1>4. /\ job' \in JobRow /\ mem' \in JobRow /\ synced' \in JobRow
      /\ apiChecked' \in BOOLEAN
      /\ job'.bestScore = job.bestScore /\ job'.bestVersion = job.bestVersion
      /\ RowInv' /\ CopyInv'
  <2>1. CASE Claim
    BY <1>2, <2>1 DEF Claim, orm, IInv, TypeOK, RowInv, CopyInv, JobRow, JobStatus, Ending,
                      Running, Unjudged, JudgedHere
  <2>2. CASE AcknowledgeCancelled
    <3> DEFINE m == [mem EXCEPT !.stop = IF @ = "none" THEN "cancelled" ELSE @,
                                !.finished = TRUE]
    <3>1. /\ m \in JobRow /\ m.status = mem.status /\ m.stop = "cancelled"
          /\ m.bestScore = mem.bestScore /\ m.bestVersion = mem.bestVersion
      BY <1>2, <2>2 DEF AcknowledgeCancelled, IInv, CopyInv, JobRow, StopReason
    <3>2. job' = Flush(m) /\ mem' = m /\ synced' = m /\ pc' = "done"
      BY <2>2 DEF AcknowledgeCancelled, Commit
    <3>3. apiChecked' = apiChecked  BY <2>2 DEF AcknowledgeCancelled
    <3> HIDE DEF m
    <3>4. QED
      BY <3>1, <3>2, <3>3, FlushIsRow DEF IInv, TypeOK, CopyInv, RowInv, Ending, Running,
                                          Unjudged, JudgedHere
  <2>3. CASE Begin
    <3> DEFINE m == [mem EXCEPT !.status = "running"]
    <3>1. /\ m \in JobRow /\ m.status = "running" /\ m.stop = mem.stop
          /\ m.bestScore = mem.bestScore /\ m.bestVersion = mem.bestVersion
      BY <1>2 DEF JobRow, JobStatus
    <3>2. job' = Flush(m) /\ mem' = m /\ synced' = m /\ pc = "begin" /\ pc' = "setup"
      BY <2>3 DEF Begin, Commit
    <3>3. apiChecked' = apiChecked  BY <2>3 DEF Begin
    <3> HIDE DEF m
    <3>4. QED
      BY <3>1, <3>2, <3>3, FlushIsRow DEF IInv, TypeOK, CopyInv, RowInv, Ending, Running,
                                          Unjudged, JudgedHere
  <2>4. CASE Finish
    <3> DEFINE m == IF mem.status = "running"
                    THEN [mem EXCEPT !.status = "completed", !.finished = TRUE]
                    ELSE mem
    <3>1. /\ m \in JobRow
          /\ m.status = IF mem.status = "running" THEN "completed" ELSE mem.status
          /\ m.bestScore = mem.bestScore /\ m.bestVersion = mem.bestVersion
      BY <1>2 DEF JobRow, JobStatus
    <3>2. job' = Flush(m) /\ mem' = m /\ synced' = m /\ pc' = "done"
      BY <2>4 DEF Finish, Commit
    <3>3. apiChecked' = apiChecked  BY <2>4 DEF Finish
    <3> HIDE DEF m
    <3>4. QED
      BY <3>1, <3>2, <3>3, FlushIsRow DEF IInv, TypeOK, CopyInv, RowInv, Ending, Running,
                                          Unjudged, JudgedHere
  <2>5. CASE Fail
    <3> DEFINE m == [mem EXCEPT !.status = "failed", !.stop = "error", !.finished = TRUE]
    <3>1. /\ m \in JobRow /\ m.status = "failed"
          /\ m.bestScore = mem.bestScore /\ m.bestVersion = mem.bestVersion
      BY <1>2 DEF JobRow, JobStatus, StopReason
    <3>2. job' = Flush(m) /\ mem' = m /\ synced' = m /\ pc' = "raised"
      BY <2>5 DEF Fail, Commit
    <3>3. apiChecked' = apiChecked  BY <2>5 DEF Fail
    <3> HIDE DEF m
    <3>4. QED
      BY <3>1, <3>2, <3>3, FlushIsRow DEF IInv, TypeOK, CopyInv, RowInv, Ending, Running,
                                          Unjudged, JudgedHere
  <2>6. CASE ApiCancelCheck
    BY <1>2, <2>6 DEF ApiCancelCheck, rows, orm, IInv, CopyInv, RowInv
  <2>7. CASE ApiCancelWrite
    <3>1. /\ job' \in JobRow /\ job'.status = "cancelled" /\ job'.stop = "cancelled"
          /\ job'.bestScore = job.bestScore /\ job'.bestVersion = job.bestVersion
      BY <1>2, <2>7 DEF ApiCancelWrite, MarkCancelled, JobRow, JobStatus, StopReason
    <3>2. UNCHANGED <<mem, synced, pc>> /\ apiChecked' = FALSE
      BY <2>7 DEF ApiCancelWrite, orm
    <3>3. QED
      BY <1>2, <3>1, <3>2 DEF IInv, CopyInv, RowInv
  <2>8. QED  BY <2>1, <2>2, <2>3, <2>4, <2>5, <2>6, <2>7
<1>5. TypeOK'
  BY <1>1, <1>3, <1>4 DEF IInv, TypeOK, Places
<1>6. CountInv'
  BY <1>1, <1>3 DEF IInv, CountInv, Before, JudgedHere
<1>7. PastInv' /\ FutureInv' /\ ParentInv'
  BY <1>1, HistoryKept DEF IInv
<1>8. PresentInv'
  BY <1>1, <1>3 DEF IInv, PresentInv, Before, Unjudged, JudgedHere
<1>9. BestInv'
  BY <1>1, <1>3, <1>4 DEF IInv, BestInv, Before, Unjudged, JudgedHere
<1>10. QED  BY <1>4, <1>5, <1>6, <1>7, <1>8, <1>9 DEF IInv

(* Writing the current iteration leaves the history as it is: candidates in the
   table were derived before it. *)
LEMMA OthersKept ==
    ASSUME TypeOK, PastInv, FutureInv, ParentInv,
           \A k \in IterNos : k # no => iters'[k] = iters[k],
           UNCHANGED <<versions, no>>
    PROVE  PastInv' /\ FutureInv' /\ ParentInv'
<1>1. PastInv' /\ FutureInv'
  BY DEF PastInv, FutureInv, Complete
<1>2. ASSUME NEW v \in IterNos, versions[v].stored, v > 0
      PROVE  /\ versions[v].createdBy = v - 1
             /\ versions[v].parent \in 0 .. v - 1
             /\ iters'[versions[v].parent].accepted = "yes"
             /\ \A j \in 0 .. v - 1 : iters'[j].score <= iters'[versions[v].parent].score
  <2>1. v <= no  BY <1>2 DEF FutureInv, TypeOK
  <2>2. /\ versions[v].createdBy = v - 1
        /\ versions[v].parent \in 0 .. v - 1
        /\ iters[versions[v].parent].accepted = "yes"
        /\ \A j \in 0 .. v - 1 : iters[j].score <= iters[versions[v].parent].score
    BY <1>2 DEF ParentInv
  <2>3. \A j \in 0 .. v - 1 : iters'[j] = iters[j]
    BY <2>1 DEF TypeOK
  <2>4. QED  BY <2>2, <2>3
<1>3. QED  BY <1>1, <1>2 DEF ParentInv

(* A commit in mid-run that carries nothing but best fields. *)
LEMMA MidRunCommit ==
    ASSUME IInv, NEW m \in JobRow,
           pc \in Running, pc' \in Running,
           m.status = mem.status, m.stop = mem.stop,
           job' = Flush(m), mem' = m, synced' = m
    PROVE  /\ job' \in JobRow /\ job'.bestScore = m.bestScore
           /\ job'.bestVersion = m.bestVersion
           /\ RowInv' /\ CopyInv'
BY FlushIsRow DEF IInv, TypeOK, RowInv, CopyInv, Running, Unjudged, JudgedHere, Ending

(* Version 0 is stored. *)
LEMMA SetUpStep == ASSUME IInv, SetUp PROVE IInv'
<1>1. /\ pc = "setup" /\ pc' = "top"
      /\ versions' = [versions EXCEPT ![0].stored = TRUE]
      /\ UNCHANGED <<job, iters, mem, synced, no, bestVersion, bestScore, noImprove,
                     nextVersion, candidate, result, changed, apiChecked>>
  BY DEF SetUp, orm, locals
<1>2. no = 0  BY <1>1 DEF IInv, CountInv, Before
<1>3. TypeOK'
  BY <1>1 DEF IInv, TypeOK, VerRow, Places
<1>4. RowInv' /\ CopyInv'
  BY <1>1 DEF IInv, RowInv, CopyInv, Running, Unjudged, JudgedHere, Ending
<1>5. CountInv'
  BY <1>1 DEF IInv, CountInv, Before, JudgedHere
<1>6. /\ versions'[0].stored
      /\ \A v \in IterNos : v > 0 => versions'[v] = versions[v]
  BY <1>1 DEF IInv, TypeOK, VerRow
<1>7. PastInv' /\ FutureInv'
  BY <1>1, <1>2, <1>6 DEF IInv, PastInv, FutureInv, TypeOK
<1>8. ParentInv'
  BY <1>1, <1>2, <1>6 DEF IInv, ParentInv, FutureInv, TypeOK
<1>9. PresentInv'
  BY <1>1, <1>2, <1>6 DEF IInv, PresentInv, Before, Unjudged, JudgedHere, NoRow
<1>10. BestInv'
  BY <1>1, <1>2 DEF IInv, BestInv, Before, Unjudged, JudgedHere
<1>11. QED  BY <1>3, <1>4, <1>5, <1>7, <1>8, <1>9, <1>10 DEF IInv

(* An iteration row appears. *)
LEMMA InsertStep == ASSUME IInv, InsertIteration PROVE IInv'
<1> DEFINE r == [phase |-> "running_benchmark", version |-> RunVersion,
                 score |-> NoScore, optimized |-> FALSE,
                 accepted |-> IF no = 0 THEN "yes" ELSE "unjudged"]
<1>1. /\ pc = "insert" /\ pc' = "bench"
      /\ iters' = [iters EXCEPT ![no] = r]
      /\ UNCHANGED <<job, versions, mem, synced, no, bestVersion, bestScore, noImprove,
                     nextVersion, candidate, result, changed, apiChecked>>
  BY DEF InsertIteration, orm, locals
<1>2. RunVersion = no
  BY DEF RunVersion, IInv, CountInv
<1>3. no \in IterNos /\ r \in IterRow
  BY <1>2 DEF IterRow, Phases, IInv, TypeOK
<1>4. iters'[no] = r /\ \A k \in IterNos : k # no => iters'[k] = iters[k]
  BY <1>1, <1>3 DEF IInv, TypeOK
<1>5. TypeOK'
  BY <1>1, <1>3 DEF IInv, TypeOK, Places
<1>6. RowInv' /\ CopyInv'
  BY <1>1 DEF IInv, RowInv, CopyInv, Running, Unjudged, JudgedHere, Ending
<1>7. CountInv'
  BY <1>1 DEF IInv, CountInv, Before, JudgedHere
<1>8. PastInv' /\ FutureInv' /\ ParentInv'
  BY <1>1, <1>4, OthersKept DEF IInv
<1>9. PresentInv'
  <2>1. r # NoRow /\ r.phase # "absent" /\ r.version = no /\ r.score = NoScore
        /\ (no > 0 => r.accepted = "unjudged")
    BY <1>2, <1>3 DEF NoRow, IInv, TypeOK
  <2>2. versions[no].stored
    BY <1>1 DEF IInv, PresentInv, Unjudged
  <2>3. pc' = "bench" /\ iters'[no'] = r /\ no' = no /\ versions' = versions
    BY <1>1, <1>4
  <2> HIDE DEF r
  <2>4. QED  BY <2>1, <2>2, <2>3 DEF PresentInv, Before, Unjudged, JudgedHere
<1>10. BestInv'
  <2>1. no = 0 => bestScore = NoScore
    BY <1>1 DEF IInv, BestInv, Unjudged
  <2>2. no > 0 => bestVersion < no /\ bestScore # NoScore
    BY <1>1 DEF IInv, BestInv, Unjudged
  <2>3. no > 0 => iters'[no].accepted = "unjudged"
    BY <1>4
  <2>4. QED
    BY <1>1, <1>3, <1>4, <2>1, <2>2, <2>3
       DEF IInv, BestInv, TypeOK, Before, Unjudged, JudgedHere
<1>11. QED  BY <1>5, <1>6, <1>7, <1>8, <1>9, <1>10 DEF IInv

(* Writing the row of the current iteration. *)
LEMMA RowWritten ==
    ASSUME TypeOK, NEW r \in IterRow, iters' = [iters EXCEPT ![no] = r]
    PROVE  /\ iters' \in [IterNos -> IterRow]
           /\ iters'[no] = r
           /\ \A k \in IterNos : k # no => iters'[k] = iters[k]
BY DEF TypeOK

(* Steps that write the phase or the artifacts of the current iteration, and
   commit a copy whose status and best fields are the ones it had. *)
LEMMA TouchStep ==
    ASSUME IInv, SettleCancelled \/ MarkProposing \/ RecordProposal \/ StopUnchanged
    PROVE  IInv'
<1>1. UNCHANGED <<versions, no, bestVersion, bestScore, noImprove, nextVersion,
                  candidate, result, changed, apiChecked>>
  BY DEF SettleCancelled, MarkProposing, RecordProposal, StopUnchanged, locals
<1>2. no \in IterNos /\ iters[no] \in IterRow /\ mem \in JobRow
  BY DEF IInv, TypeOK
<1>3. PICK m \in JobRow :
        /\ job' = Flush(m) /\ mem' = m /\ synced' = m
        /\ m.status = mem.status
        /\ m.bestScore = mem.bestScore /\ m.bestVersion = mem.bestVersion
        /\ pc' # "finish" => m = mem
  <2>1. CASE SettleCancelled
    BY <1>2, <2>1, MarkIsRow DEF SettleCancelled, Commit
  <2>2. CASE MarkProposing
    BY <1>2, <2>2 DEF MarkProposing, Commit
  <2>3. CASE RecordProposal
    BY <1>2, <2>3 DEF RecordProposal, Commit
  <2>4. CASE StopUnchanged
    <3> DEFINE n == [mem EXCEPT !.stop = "no_improvement"]
    <3>1. /\ n \in JobRow /\ n.status = mem.status
          /\ n.bestScore = mem.bestScore /\ n.bestVersion = mem.bestVersion
      BY <1>2 DEF JobRow, StopReason
    <3>2. job' = Flush(n) /\ mem' = n /\ synced' = n /\ pc' = "finish"
      BY <2>4 DEF StopUnchanged, Commit
    <3> HIDE DEF n
    <3>3. QED  BY <3>1, <3>2
  <2>5. QED  BY <2>1, <2>2, <2>3, <2>4
<1>4. PICK r \in IterRow :
        /\ iters' = [iters EXCEPT ![no] = r]
        /\ r.phase # "absent"
        /\ r.version = iters[no].version /\ r.score = iters[no].score
        /\ r.accepted = iters[no].accepted
        /\ iters[no].optimized => r.optimized
        /\ pc' = "adopt" => r.optimized
  <2>1. CASE SettleCancelled
    <3>1. [iters[no] EXCEPT !.phase = "failed"] \in IterRow
      BY <1>2 DEF IterRow, Phases
    <3>2. QED  BY <1>2, <2>1, <3>1 DEF SettleCancelled, IterRow
  <2>2. CASE MarkProposing
    <3>1. [iters[no] EXCEPT !.phase = "proposing"] \in IterRow
      BY <1>2 DEF IterRow, Phases
    <3>2. QED  BY <1>2, <2>2, <3>1 DEF MarkProposing, IterRow
  <2>3. CASE RecordProposal
    <3>1. [iters[no] EXCEPT !.optimized = TRUE] \in IterRow
      BY <1>2 DEF IterRow
    <3>2. iters[no].phase # "absent"
      BY <2>3 DEF RecordProposal, IInv, PresentInv, JudgedHere
    <3>3. QED  BY <1>2, <2>3, <3>1, <3>2 DEF RecordProposal, IterRow
  <2>4. CASE StopUnchanged
    <3>1. [iters[no] EXCEPT !.phase = "done"] \in IterRow
      BY <1>2 DEF IterRow, Phases
    <3>2. QED  BY <1>2, <2>4, <3>1 DEF StopUnchanged, IterRow
  <2>5. QED  BY <2>1, <2>2, <2>3, <2>4
<1>5. \/ pc \in {"settle", "adopt"} /\ pc' = "finish"
      \/ pc = "mark" /\ pc' = "propose"
      \/ pc = "record" /\ pc' = "adopt"
  BY DEF SettleCancelled, MarkProposing, RecordProposal, StopUnchanged
<1>6. /\ iters' \in [IterNos -> IterRow]
      /\ iters'[no] = r
      /\ \A k \in IterNos : k # no => iters'[k] = iters[k]
  BY <1>4, RowWritten DEF IInv
<1>7. \A k \in IterNos : /\ iters'[k].score = iters[k].score
                         /\ iters'[k].accepted = iters[k].accepted
                         /\ iters'[k].version = iters[k].version
  BY <1>4, <1>6
<1>8. /\ job' \in JobRow /\ job'.bestScore = job.bestScore
      /\ job'.bestVersion = job.bestVersion
      /\ RowInv' /\ CopyInv'
  BY <1>3, <1>5, FlushIsRow DEF IInv, TypeOK, RowInv, CopyInv, Running, Unjudged,
                                JudgedHere, Ending
<1>9. TypeOK'
  BY <1>1, <1>3, <1>5, <1>6, <1>8 DEF IInv, TypeOK, Places
<1>10. CountInv'
  BY <1>1, <1>5 DEF IInv, CountInv, Before, JudgedHere
<1>11. PastInv' /\ FutureInv' /\ ParentInv'
  BY <1>1, <1>6, OthersKept DEF IInv
<1>12. PresentInv'
  <2>1. /\ r.version = no /\ versions[no].stored
        /\ pc # "settle" => r.score # NoScore /\ r.accepted # "unjudged"
    BY <1>4, <1>5 DEF IInv, PresentInv, JudgedHere
  <2>2. r # NoRow  BY <1>4 DEF NoRow
  <2>3. QED
    BY <1>1, <1>4, <1>5, <1>6, <2>1, <2>2 DEF PresentInv, Before, Unjudged, JudgedHere
<1>13. BestInv'
  BY <1>1, <1>5, <1>7, <1>8 DEF IInv, TypeOK, BestInv, Before, Unjudged, JudgedHere
<1>14. QED  BY <1>8, <1>9, <1>10, <1>11, <1>12, <1>13 DEF IInv

(* Task results and score are stored. *)
LEMMA SaveStep == ASSUME IInv, SaveResults PROVE IInv'
<1> DEFINE r == [iters[no] EXCEPT !.score = result.score, !.phase = "done"]
<1>1. /\ pc = "save" /\ pc' = "judge"
      /\ job' = Flush(mem) /\ mem' = mem /\ synced' = mem
      /\ UNCHANGED <<versions, no, bestVersion, bestScore, noImprove, nextVersion,
                     candidate, result, changed, apiChecked>>
  BY DEF SaveResults, Commit, locals
<1>2. no \in IterNos /\ iters[no] \in IterRow /\ mem \in JobRow
  BY DEF IInv, TypeOK
<1>3. result.score \in Nat
  BY <1>1 DEF IInv, CountInv
<1>4. /\ r \in IterRow /\ r.score = result.score /\ r.phase = "done"
      /\ r.version = iters[no].version /\ r.accepted = iters[no].accepted
  BY <1>2, <1>3 DEF IterRow, Phases
<1>5. iters' = [iters EXCEPT ![no] = r]
  BY <1>2 DEF SaveResults, IterRow
<1> HIDE DEF r
<1>6. /\ iters' \in [IterNos -> IterRow]
      /\ iters'[no] = r
      /\ \A k \in IterNos : k # no => iters'[k] = iters[k]
  BY <1>4, <1>5, RowWritten DEF IInv
<1>7. /\ job' \in JobRow /\ job'.bestScore = job.bestScore
      /\ job'.bestVersion = job.bestVersion
      /\ RowInv' /\ CopyInv'
  BY <1>1, <1>2, MidRunCommit DEF IInv, CopyInv, Running, Unjudged
<1>8. TypeOK'
  BY <1>1, <1>2, <1>6, <1>7 DEF IInv, TypeOK, Places
<1>9. CountInv'
  BY <1>1 DEF IInv, CountInv, Before, JudgedHere
<1>10. PastInv' /\ FutureInv' /\ ParentInv'
  BY <1>1, <1>6, OthersKept DEF IInv
<1>11. PresentInv'
  <2>1. /\ r.version = no /\ versions[no].stored /\ (no > 0 => r.accepted = "unjudged")
    BY <1>1, <1>4 DEF IInv, PresentInv, Unjudged
  <2>2. r # NoRow  BY <1>4 DEF NoRow
  <2>3. QED
    BY <1>1, <1>3, <1>4, <1>6, <2>1, <2>2 DEF PresentInv, Before, Unjudged, JudgedHere
<1>12. BestInv'
  <2>1. no = 0 => bestScore = NoScore
    BY <1>1 DEF IInv, BestInv, Unjudged
  <2>2. no > 0 => bestVersion < no /\ bestScore # NoScore /\ r.accepted = "unjudged"
    BY <1>1, <1>4 DEF IInv, BestInv, PresentInv, Unjudged
  <2>3. QED
    BY <1>1, <1>2, <1>6, <1>7, <2>1, <2>2
       DEF IInv, BestInv, TypeOK, Before, Unjudged, JudgedHere
<1>13. QED  BY <1>7, <1>8, <1>9, <1>10, <1>11, <1>12 DEF IInv

(* What the verdict's commit does to the job row, whatever the verdict. *)
LEMMA ConcludeCommits ==
    ASSUME IInv, pc = "judge", NEW m \in JobRow, Conclude(m),
           m.status = mem.status, m.stop = mem.stop, UNCHANGED no
    PROVE  /\ job' \in JobRow /\ mem' \in JobRow /\ synced' \in JobRow
           /\ job'.bestScore = m.bestScore /\ job'.bestVersion = m.bestVersion
           /\ RowInv' /\ CopyInv'
           /\ pc' \in {"mark", "finish"}
           /\ pc' = "mark" => no < MaxIterations
<1>1. /\ job' = Flush(m) /\ synced' = m
      /\ pc' \in {"mark", "finish"}
  BY DEF Conclude
<1>2. pc' = "mark" => mem' = m /\ no < MaxIterations
  <2>1. ASSUME pc' = "mark" PROVE Verdict(noImprove') = "none"
    BY <2>1 DEF Conclude
  <2>2. Verdict(noImprove') = "none" => no < MaxIterations
    BY DEF Verdict, IInv, TypeOK
  <2>3. Verdict(noImprove') = "none" => mem' = m
    BY DEF Conclude, JobRow
  <2>4. QED  BY <2>1, <2>2, <2>3
<1>3. Verdict(noImprove') \in StopReason
  BY DEF Verdict, StopReason
<1>4. /\ mem' \in JobRow /\ mem'.status = m.status
      /\ mem'.bestScore = m.bestScore /\ mem'.bestVersion = m.bestVersion
  BY <1>3 DEF Conclude, JobRow
<1>5. /\ job' \in JobRow
      /\ job'.bestScore = m.bestScore /\ job'.bestVersion = m.bestVersion
      /\ job'.status = job.status /\ job'.stop = job.stop
  BY <1>1, FlushIsRow DEF IInv, CopyInv, Running, Unjudged
<1>6. RowInv'
  BY <1>1, <1>5 DEF IInv, RowInv, Ending
<1>7. CopyInv'
  BY <1>1, <1>2, <1>4, <1>5 DEF IInv, CopyInv, Running, Unjudged, JudgedHere
<1>8. QED  BY <1>1, <1>2, <1>4, <1>5, <1>6, <1>7

(* The iteration is accepted: it was the first, or beats every judged one. *)
LEMMA AcceptStep == ASSUME IInv, Accept PROVE IInv'
<1> DEFINE r == [iters[no] EXCEPT !.accepted = "yes"]
<1>1. /\ pc = "judge" /\ Improved
      /\ bestScore' = result.score /\ bestVersion' = RunVersion /\ noImprove' = 0
      /\ Conclude(WithBest(mem))
      /\ UNCHANGED <<versions, no, nextVersion, candidate, result, changed, apiChecked>>
  BY DEF Accept
<1>2. no \in IterNos /\ iters[no] \in IterRow /\ mem \in JobRow
  BY DEF IInv, TypeOK
<1>3. result.score \in Nat /\ RunVersion = no
  BY <1>1 DEF IInv, CountInv, RunVersion
<1>4. /\ r \in IterRow /\ r.score = result.score /\ r.accepted = "yes"
      /\ r.version = no /\ r.phase = iters[no].phase /\ r.phase # "absent"
      /\ versions[no].stored
  BY <1>1, <1>2 DEF IterRow, IInv, PresentInv, Unjudged
<1>5. iters' = [iters EXCEPT ![no] = r]
  BY <1>2 DEF Accept, IterRow
<1> HIDE DEF r
<1>6. /\ iters' \in [IterNos -> IterRow]
      /\ iters'[no] = r
      /\ \A k \in IterNos : k # no => iters'[k] = iters[k]
  BY <1>4, <1>5, RowWritten DEF IInv
<1> DEFINE m == WithBest(mem)
<1>7. /\ m \in JobRow /\ m.status = mem.status /\ m.stop = mem.stop
      /\ m.bestScore = result.score /\ m.bestVersion = no
  BY <1>2, <1>3 DEF WithBest, JobRow
<1> HIDE DEF m
<1>8. /\ job' \in JobRow /\ mem' \in JobRow /\ synced' \in JobRow
      /\ job'.bestScore = result.score /\ job'.bestVersion = no
      /\ RowInv' /\ CopyInv'
      /\ pc' \in {"mark", "finish"}
      /\ pc' = "mark" => no < MaxIterations
  BY <1>1, <1>7, ConcludeCommits DEF m
<1>9. TypeOK'
  BY <1>1, <1>2, <1>3, <1>6, <1>8 DEF IInv, TypeOK, Places
<1>10. CountInv'
  BY <1>1, <1>2, <1>3, <1>8 DEF IInv, CountInv, Before, JudgedHere
<1>11. PastInv' /\ FutureInv' /\ ParentInv'
  BY <1>1, <1>6, OthersKept DEF IInv
<1>12. PresentInv'
  <2>1. r # NoRow  BY <1>4 DEF NoRow
  <2>2. QED
    BY <1>1, <1>3, <1>4, <1>6, <1>8, <2>1 DEF PresentInv, Before, Unjudged, JudgedHere
<1>13. BestInv'
  <2>1. ASSUME NEW k \in IterNos, iters'[k].accepted # "unjudged"
        PROVE  iters'[k].score <= result.score
    <3>1. CASE k = no
      BY <1>3, <1>4, <1>6, <3>1
    <3>2. CASE k # no /\ bestScore # NoScore
      <4>1. iters[k].score <= bestScore
        BY <1>6, <2>1, <3>2 DEF IInv, BestInv
      <4>2. iters[k].score \in Int /\ bestScore \in Int /\ bestScore < result.score
        BY <1>1, <1>3, <3>2 DEF Improved, IInv, TypeOK, IterRow
      <4>3. QED  BY <1>3, <1>6, <3>2, <4>1, <4>2
    <3>3. CASE k # no /\ bestScore = NoScore
      <4>1. no = 0  BY <1>2, <3>3 DEF IInv, BestInv
      <4>2. iters[k] = NoRow  BY <3>3, <4>1 DEF IInv, FutureInv
      <4>3. QED  BY <1>6, <2>1, <3>3, <4>2 DEF NoRow
    <3>4. QED  BY <3>1, <3>2, <3>3
  <2>2. QED
    BY <1>1, <1>2, <1>3, <1>4, <1>6, <1>8, <2>1 DEF BestInv, Before, Unjudged, JudgedHere
<1>14. QED  BY <1>8, <1>9, <1>10, <1>11, <1>12, <1>13 DEF IInv

(* The iteration is rejected: the best one stays the best. *)
LEMMA RejectStep == ASSUME IInv, Reject PROVE IInv'
<1> DEFINE r == [iters[no] EXCEPT !.accepted = "no"]
<1>1. /\ pc = "judge" /\ ~Improved /\ noImprove' = noImprove + 1
      /\ Conclude(mem)
      /\ UNCHANGED <<versions, no, bestVersion, bestScore, nextVersion, candidate,
                     result, changed, apiChecked>>
  BY DEF Reject
<1>2. no \in IterNos /\ iters[no] \in IterRow /\ mem \in JobRow
  BY DEF IInv, TypeOK
<1>3. /\ result.score \in Nat /\ bestScore \in Nat
      /\ result.score <= bestScore /\ bestVersion < no
  <2>1. result.score \in Nat  BY <1>1 DEF IInv, CountInv
  <2>2. bestScore # NoScore /\ ~(result.score > bestScore)
    BY <1>1 DEF Improved
  <2>3. no # 0  BY <1>1, <2>2 DEF IInv, BestInv, Unjudged
  <2>4. bestVersion < no  BY <1>1, <1>2, <2>3 DEF IInv, BestInv, Unjudged
  <2>5. QED  BY <2>1, <2>2, <2>4 DEF IInv, TypeOK
<1>4. /\ r \in IterRow /\ r.score = result.score /\ r.accepted = "no"
      /\ r.version = no /\ r.phase = iters[no].phase /\ r.phase # "absent"
      /\ versions[no].stored
  BY <1>1, <1>2 DEF IterRow, IInv, PresentInv, Unjudged
<1>5. iters' = [iters EXCEPT ![no] = r]
  BY <1>2 DEF Reject, IterRow
<1> HIDE DEF r
<1>6. /\ iters' \in [IterNos -> IterRow]
      /\ iters'[no] = r
      /\ \A k \in IterNos : k # no => iters'[k] = iters[k]
  BY <1>4, <1>5, RowWritten DEF IInv
<1>7. /\ job' \in JobRow /\ mem' \in JobRow /\ synced' \in JobRow
      /\ job'.bestScore = job.bestScore /\ job'.bestVersion = job.bestVersion
      /\ RowInv' /\ CopyInv'
      /\ pc' \in {"mark", "finish"}
      /\ pc' = "mark" => no < MaxIterations
  BY <1>1, <1>2, ConcludeCommits DEF IInv, CopyInv
<1>8. TypeOK'
  BY <1>1, <1>2, <1>6, <1>7 DEF IInv, TypeOK, Places
<1>9. CountInv'
  BY <1>1, <1>2, <1>7 DEF IInv, CountInv, Before, JudgedHere
<1>10. PastInv' /\ FutureInv' /\ ParentInv'
  BY <1>1, <1>6, OthersKept DEF IInv
<1>11. PresentInv'
  <2>1. r # NoRow  BY <1>4 DEF NoRow
  <2>2. QED
    BY <1>1, <1>3, <1>4, <1>6, <1>7, <2>1 DEF PresentInv, Before, Unjudged, JudgedHere
<1>12. BestInv'
  <2>1. bestVersion \in IterNos /\ bestVersion # no
    BY <1>2, <1>3 DEF IInv, TypeOK
  <2>2. iters'[bestVersion] = iters[bestVersion]
    BY <1>6, <2>1
  <2>3. \A k \in IterNos : iters'[k].accepted # "unjudged" => iters'[k].score <= bestScore
    BY <1>3, <1>4, <1>6 DEF IInv, BestInv
  <2>4. QED
    BY <1>1, <1>3, <1>7, <2>2, <2>3 DEF IInv, BestInv, Before, Unjudged, JudgedHere
<1>13. QED  BY <1>7, <1>8, <1>9, <1>10, <1>11, <1>12 DEF IInv

(* The candidate is stored and becomes the version of the next iteration. *)
LEMMA CreateStep == ASSUME IInv, CreateCandidate PROVE IInv'
<1> DEFINE r == [iters[no] EXCEPT !.phase = "done"]
<1>1. /\ pc = "adopt" /\ pc' = "top"
      /\ versions' = [versions EXCEPT ![nextVersion] = Proposal]
      /\ job' = Flush(mem) /\ mem' = mem /\ synced' = mem
      /\ candidate' = nextVersion /\ nextVersion' = nextVersion + 1 /\ no' = no + 1
      /\ UNCHANGED <<bestVersion, bestScore, noImprove, result, changed, apiChecked>>
  BY DEF CreateCandidate, Commit
<1>2. /\ no \in IterNos /\ no + 1 \in IterNos /\ nextVersion = no + 1
      /\ iters[no] \in IterRow /\ mem \in JobRow
  BY <1>1 DEF IInv, TypeOK, CountInv, JudgedHere
<1>3. /\ r \in IterRow /\ r.phase = "done"
      /\ r.version = iters[no].version /\ r.score = iters[no].score
      /\ r.accepted = iters[no].accepted /\ r.optimized = iters[no].optimized
  BY <1>2 DEF IterRow, Phases
<1>4. iters' = [iters EXCEPT ![no] = r]
  BY <1>2 DEF CreateCandidate, IterRow
<1> HIDE DEF r
<1>5. /\ iters' \in [IterNos -> IterRow]
      /\ iters'[no] = r
      /\ \A k \in IterNos : k # no => iters'[k] = iters[k]
  BY <1>3, <1>4, RowWritten DEF IInv
<1>6. /\ r.version = no /\ r.score # NoScore /\ r.accepted # "unjudged" /\ r.optimized
      /\ versions[no].stored
  BY <1>1, <1>3 DEF IInv, PresentInv, JudgedHere
<1>7. /\ Proposal \in VerRow
      /\ versions' \in [IterNos -> VerRow]
      /\ versions'[no + 1] = Proposal
      /\ \A v \in IterNos : v # no + 1 => versions'[v] = versions[v]
  BY <1>1, <1>2 DEF Proposal, VerRow, IInv, TypeOK
<1>8. /\ job' \in JobRow /\ job'.bestScore = job.bestScore
      /\ job'.bestVersion = job.bestVersion
      /\ RowInv' /\ CopyInv'
  BY <1>1, <1>2, MidRunCommit DEF IInv, CopyInv, Running, Unjudged, JudgedHere
<1>9. TypeOK'
  BY <1>1, <1>2, <1>5, <1>7, <1>8 DEF IInv, TypeOK, Places
<1>10. CountInv'
  BY <1>1, <1>2 DEF IInv, CountInv, TypeOK, Before, JudgedHere
<1>11. PastInv'
  BY <1>1, <1>2, <1>3, <1>5, <1>6, <1>7 DEF IInv, PastInv, Complete
<1>12. FutureInv'
  BY <1>1, <1>2, <1>5, <1>7 DEF IInv, FutureInv
<1>13. PresentInv'
  <2>1. iters'[no'] = NoRow /\ versions'[no'].stored
    BY <1>1, <1>2, <1>5, <1>7 DEF IInv, FutureInv, Proposal
  <2>2. QED  BY <1>1, <2>1 DEF PresentInv, NoRow, Before, Unjudged, JudgedHere
<1>14. \A k \in IterNos : /\ iters'[k].score = iters[k].score
                          /\ iters'[k].accepted = iters[k].accepted
                          /\ iters'[k].version = iters[k].version
  BY <1>3, <1>5
<1>15. bestScore # NoScore /\ bestVersion \in 0 .. no
  BY <1>1, <1>2 DEF IInv, BestInv, CountInv, TypeOK, JudgedHere
<1>16. BestInv'
  <2>1. bestVersion \in IterNos  BY DEF IInv, TypeOK
  <2>2. /\ job.bestScore = bestScore /\ job.bestVersion = bestVersion
        /\ iters[bestVersion].score = bestScore
        /\ iters[bestVersion].accepted = "yes"
        /\ iters[bestVersion].version = bestVersion
        /\ \A k \in IterNos : iters[k].accepted # "unjudged" => iters[k].score <= bestScore
    BY <1>15 DEF IInv, BestInv
  <2>3. bestVersion < no' /\ no' # 0  BY <1>1, <1>2, <1>15
  <2>4. /\ pc' = "top" /\ bestScore' = bestScore /\ bestVersion' = bestVersion
        /\ job'.bestScore = bestScore /\ job'.bestVersion = bestVersion
    BY <1>1, <1>8, <2>2
  <2>5. QED
    BY <1>14, <1>15, <2>1, <2>2, <2>3, <2>4 DEF BestInv, Before, Unjudged, JudgedHere
<1>17. ParentInv'
  <2>1. ASSUME NEW v \in IterNos, versions'[v].stored, v > 0
        PROVE  /\ versions'[v].createdBy = v - 1
               /\ versions'[v].parent \in 0 .. v - 1
               /\ iters'[versions'[v].parent].accepted = "yes"
               /\ \A j \in 0 .. v - 1 :
                     iters'[j].score <= iters'[versions'[v].parent].score
    <3>1. CASE v = no + 1
      <4>1. versions'[v].createdBy = no /\ versions'[v].parent = bestVersion
        BY <1>7, <3>1 DEF Proposal
      <4>2. iters[bestVersion].accepted = "yes" /\ iters[bestVersion].score = bestScore
        BY <1>15 DEF IInv, BestInv
      <4>3. \A j \in 0 .. no : iters[j].accepted # "unjudged"
        BY <1>2, <1>3, <1>6 DEF IInv, PastInv, Complete
      <4>4. \A j \in 0 .. no : iters[j].score <= bestScore
        BY <1>2, <1>15, <4>3 DEF IInv, BestInv
      <4>5. \A j \in 0 .. no : j \in IterNos  BY <1>2
      <4>6. QED  BY <1>2, <1>14, <1>15, <3>1, <4>1, <4>2, <4>4, <4>5
    <3>2. CASE v # no + 1
      <4>1. versions'[v] = versions[v]  BY <1>7, <3>2
      <4>2. /\ versions[v].createdBy = v - 1
            /\ versions[v].parent \in 0 .. v - 1
            /\ iters[versions[v].parent].accepted = "yes"
            /\ \A j \in 0 .. v - 1 : iters[j].score <= iters[versions[v].parent].score
        BY <2>1, <4>1 DEF IInv, ParentInv
      <4>3. \A j \in 0 .. v - 1 : j \in IterNos  BY <2>1
      <4>4. QED  BY <1>14, <4>1, <4>2, <4>3
    <3>3. QED  BY <3>1, <3>2
  <2>2. QED  BY <2>1 DEF ParentInv
<1>18. QED  BY <1>8, <1>9, <1>10, <1>11, <1>12, <1>13, <1>16, <1>17 DEF IInv

(* Every step of the system keeps the invariant. *)
LEMMA StepKeepsIInv == IInv /\ [Next]_vars => IInv'
<1>1. SUFFICES ASSUME IInv, [Next]_vars PROVE IInv'  OBVIOUS
<1>2. CASE UNCHANGED vars
  BY <1>1, <1>2 DEF vars, IInv, TypeOK, RowInv, CopyInv, CountInv, PastInv, FutureInv,
                    PresentInv, BestInv, ParentInv, Complete
<1>3. CASE \/ Load \/ RefreshAtTop \/ RefreshAfterBenchmark \/ RefreshAfterProposal
  BY <1>1, <1>3, LookStep
<1>4. CASE \/ Claim \/ AcknowledgeCancelled \/ Begin \/ Finish \/ Fail
           \/ ApiCancelCheck \/ ApiCancelWrite
  BY <1>1, <1>4, JobRowStep
<1>5. CASE SetUpRaises \/ Benchmark \/ Propose \/ DbFault
  BY <1>1, <1>5, MoveStep DEF Benchmark, Propose
<1>6. CASE SettleCancelled \/ MarkProposing \/ RecordProposal \/ StopUnchanged
  BY <1>1, <1>6, TouchStep
<1>7. CASE SetUp  BY <1>1, <1>7, SetUpStep
<1>8. CASE InsertIteration  BY <1>1, <1>8, InsertStep
<1>9. CASE SaveResults  BY <1>1, <1>9, SaveStep
<1>10. CASE Accept  BY <1>1, <1>10, AcceptStep
<1>11. CASE Reject  BY <1>1, <1>11, RejectStep
<1>12. CASE CreateCandidate  BY <1>1, <1>12, CreateStep
<1>13. QED
  BY <1>1, <1>2, <1>3, <1>4, <1>5, <1>6, <1>7, <1>8, <1>9, <1>10, <1>11, <1>12
     DEF Next, Processor

(***************************************************************************)
(* How a run ends.                                                         *)
(***************************************************************************)
(* The time of the end: nobody takes it back, a cancellation sets it, and an
   end that was written has it. *)
FinishedInv ==
    /\ synced.finished => mem.finished /\ job.finished
    /\ job.status = "cancelled" => job.finished
    /\ pc \in {"done", "raised"} => job.status \in Terminal /\ job.finished

(* The phase of the current iteration once it has been judged or given up. *)
ClosedInv ==
    /\ pc = "judge" => iters[no].phase = "done"
    /\ pc \in {"finish", "done"} /\ Present(no) =>
          \/ iters[no].phase = "done"
          \/ iters[no].phase = "failed" /\ mem.status = "cancelled"

(* The rejections in a row, before and after the current iteration is judged. *)
PatienceInv ==
    /\ pc \in Before \cup Unjudged =>
          /\ noImprove = 0 \/ noImprove < no
          /\ \A k \in IterNos : no - noImprove <= k /\ k < no => iters[k].accepted = "no"
    /\ pc \in JudgedHere =>
          /\ noImprove <= no
          /\ \A k \in IterNos : no - noImprove < k /\ k <= no => iters[k].accepted = "no"

(* What a stop reason says of the iterations. *)
BorneOut(s) ==
    /\ Present(no)
    /\ s \notin {"none", "error"}
    /\ s = "max_iterations" => no = MaxIterations /\ iters[no].accepted # "unjudged"
    /\ s = "all_tasks_passed" => result.allPassed /\ iters[no].score = result.score
    /\ s = "no_improvement" =>
          \/ /\ no >= Patience
             /\ \A k \in no - Patience + 1 .. no : iters[k].accepted = "no"
          \/ iters[no].optimized /\ ~\E v \in IterNos : versions[v].stored /\ v > no
    /\ s = "cancelled" => iters[no].optimized /\ ~changed

(* The reason the last commit will write: pending in the copy, or already in
   the row, where a cancellation may have taken its place. *)
StopInv ==
    /\ pc = "finish" => mem.status \in {"running", "cancelled"}
    /\ pc = "finish" /\ mem.status = "running" =>
          /\ mem.stop \in {"no_improvement", "all_tasks_passed", "max_iterations"}
          /\ BorneOut(mem.stop)
          /\ synced.stop \in {"none", mem.stop}
          /\ synced.stop = mem.stop => /\ job.stop \in {mem.stop, "cancelled"}
                                       /\ iters[no].optimized /\ ~changed
    /\ pc = "done" /\ job.status = "completed" => BorneOut(job.stop)

EInv == FinishedInv /\ ClosedInv /\ PatienceInv /\ StopInv

LEMMA InitEnds == Init => EInv
BY DEF Init, EInv, FinishedInv, ClosedInv, PatienceInv, StopInv, NewJob, NoRow, Present,
       Before, Unjudged, JudgedHere

(* A commit keeps the status of the copy or ends the run, and takes no end back. *)
LEMMA CommitShape ==
    ASSUME IInv,
           \/ AcknowledgeCancelled \/ Begin \/ SettleCancelled \/ SaveResults \/ Accept
           \/ Reject \/ MarkProposing \/ RecordProposal \/ StopUnchanged
           \/ CreateCandidate \/ Finish \/ Fail
    PROVE  \E m \in JobRow :
              /\ job' = Flush(m) /\ synced' = m /\ mem'.finished = m.finished
              /\ mem.finished => m.finished
              /\ m.status \in {mem.status, "running", "completed", "failed"}
              /\ pc' = "done" => pc \in {"ack", "finish"}
              /\ pc = "ack" => m.status = mem.status
              /\ pc = "finish" => m.status = IF mem.status = "running" THEN "completed"
                                             ELSE mem.status
              /\ pc = "finish" /\ mem.status = "running" => m.finished
              /\ pc' = "raised" => pc = "fail"
              /\ pc = "fail" => m.status = "failed" /\ m.finished
<1>1. mem \in JobRow  BY DEF IInv, TypeOK
<1>2. CASE \/ SaveResults \/ Reject \/ MarkProposing \/ RecordProposal \/ CreateCandidate
  BY <1>1, <1>2 DEF SaveResults, Reject, Conclude, MarkProposing, RecordProposal,
                    CreateCandidate, Commit, JobRow
<1>3. CASE Accept
  <2>1. /\ WithBest(mem) \in JobRow /\ WithBest(mem).status = mem.status
        /\ WithBest(mem).finished = mem.finished
    BY <1>1, <1>3 DEF WithBest, JobRow, RunVersion, IInv, TypeOK, CountInv
  <2>2. /\ job' = Flush(WithBest(mem)) /\ synced' = WithBest(mem)
        /\ mem'.finished = WithBest(mem).finished
        /\ pc = "judge" /\ pc' \in {"mark", "finish"}
    BY <2>1, <1>3 DEF Accept, Conclude, JobRow
  <2> QED  BY <2>1, <2>2
<1>4. CASE SettleCancelled
  <2>1. MarkCancelled(mem).finished
    BY <1>1 DEF MarkCancelled, JobRow
  <2>2. /\ job' = Flush(MarkCancelled(mem)) /\ synced' = MarkCancelled(mem)
        /\ mem' = MarkCancelled(mem) /\ pc = "settle" /\ pc' = "finish"
    BY <1>4 DEF SettleCancelled, Commit
  <2> QED  BY <1>1, <2>1, <2>2, MarkIsRow
<1>5. CASE StopUnchanged
  <2> DEFINE n == [mem EXCEPT !.stop = "no_improvement"]
  <2>1. n \in JobRow /\ n.status = mem.status /\ n.finished = mem.finished
    BY <1>1 DEF JobRow, StopReason
  <2>2. /\ job' = Flush(n) /\ synced' = n /\ mem' = n
        /\ pc = "adopt" /\ pc' = "finish"
    BY <1>5 DEF StopUnchanged, Commit
  <2> HIDE DEF n
  <2> QED  BY <2>1, <2>2
<1>6. CASE AcknowledgeCancelled
  <2> DEFINE n == [mem EXCEPT !.stop = IF @ = "none" THEN "cancelled" ELSE @,
                              !.finished = TRUE]
  <2>1. n \in JobRow /\ n.status = mem.status /\ n.finished
    BY <1>1 DEF JobRow, StopReason
  <2>2. /\ job' = Flush(n) /\ synced' = n /\ mem' = n
        /\ pc = "ack" /\ pc' = "done"
    BY <1>6 DEF AcknowledgeCancelled, Commit
  <2> HIDE DEF n
  <2> QED  BY <2>1, <2>2
<1>7. CASE Begin
  <2> DEFINE n == [mem EXCEPT !.status = "running"]
  <2>1. n \in JobRow /\ n.status = "running" /\ n.finished = mem.finished
    BY <1>1 DEF JobRow, JobStatus
  <2>2. /\ job' = Flush(n) /\ synced' = n /\ mem' = n
        /\ pc = "begin" /\ pc' = "setup"
    BY <1>7 DEF Begin, Commit
  <2> HIDE DEF n
  <2> QED  BY <2>1, <2>2
<1>8. CASE Finish
  <2> DEFINE n == IF mem.status = "running"
                  THEN [mem EXCEPT !.status = "completed", !.finished = TRUE]
                  ELSE mem
  <2>1. /\ n \in JobRow
        /\ n.status = IF mem.status = "running" THEN "completed" ELSE mem.status
        /\ mem.status = "running" => n.finished
        /\ mem.finished => n.finished
    BY <1>1 DEF JobRow, JobStatus
  <2>2. /\ job' = Flush(n) /\ synced' = n /\ mem' = n
        /\ pc = "finish" /\ pc' = "done"
    BY <1>8 DEF Finish, Commit
  <2> HIDE DEF n
  <2> QED  BY <2>1, <2>2
<1>9. CASE Fail
  <2> DEFINE n == [mem EXCEPT !.status = "failed", !.stop = "error", !.finished = TRUE]
  <2>1. n \in JobRow /\ n.status = "failed" /\ n.finished
    BY <1>1 DEF JobRow, JobStatus, StopReason
  <2>2. /\ job' = Flush(n) /\ synced' = n /\ mem' = n
        /\ pc = "fail" /\ pc' = "raised"
    BY <1>9 DEF Fail, Commit
  <2> HIDE DEF n
  <2> QED  BY <2>1, <2>2
<1> QED  BY <1>2, <1>3, <1>4, <1>5, <1>6, <1>7, <1>8, <1>9

(* The other steps write no job row, or only the status of it. *)
LEMMA OtherShape ==
    ASSUME IInv, [Next]_vars,
           ~(\/ AcknowledgeCancelled \/ Begin \/ SettleCancelled \/ SaveResults \/ Accept
             \/ Reject \/ MarkProposing \/ RecordProposal \/ StopUnchanged
             \/ CreateCandidate \/ Finish \/ Fail)
    PROVE  /\ pc' \in {"done", "raised"} => pc' = pc
           /\ \/ UNCHANGED <<job, mem, synced>>
              \/ UNCHANGED job /\ synced' = job /\ mem' \in {job, MarkCancelled(job)}
              \/ Claim /\ UNCHANGED <<mem, synced>>
              \/ ApiCancelWrite /\ UNCHANGED <<mem, synced, pc>>
<1>1. CASE Load \/ RefreshAtTop \/ RefreshAfterBenchmark \/ RefreshAfterProposal
  BY <1>1 DEF Load, RefreshAtTop, RefreshAfterBenchmark, RefreshAfterProposal, RefreshAfter,
              Refresh, rows, SeesCancelled, IInv, RowInv, Ending
<1>2. CASE Claim \/ ApiCancelWrite
  BY <1>2 DEF Claim, ApiCancelWrite, orm
<1>3. CASE SetUp \/ SetUpRaises \/ InsertIteration \/ Benchmark \/ Propose \/ DbFault
           \/ ApiCancelCheck \/ UNCHANGED vars
  BY <1>3 DEF SetUp, SetUpRaises, InsertIteration, Benchmark, BenchmarkReturns,
              BenchmarkRaises, Propose, ProposalReturns, ProposalRaises, DbFault,
              ApiCancelCheck, orm, rows, vars
<1> QED  BY <1>1, <1>2, <1>3 DEF Next, Processor

LEMMA FinishedStep ==
    ASSUME IInv, EInv, [Next]_vars
    PROVE  FinishedInv'
<1> USE DEF IInv, EInv
<1>1. job \in JobRow /\ mem \in JobRow /\ synced \in JobRow
  BY DEF TypeOK
<1>2. CASE \/ AcknowledgeCancelled \/ Begin \/ SettleCancelled \/ SaveResults \/ Accept
           \/ Reject \/ MarkProposing \/ RecordProposal \/ StopUnchanged
           \/ CreateCandidate \/ Finish \/ Fail
  <2>1. PICK m \in JobRow :
              /\ job' = Flush(m) /\ synced' = m /\ mem'.finished = m.finished
              /\ mem.finished => m.finished
              /\ m.status \in {mem.status, "running", "completed", "failed"}
              /\ pc' = "done" => pc \in {"ack", "finish"}
              /\ pc = "ack" => m.status = mem.status
              /\ pc = "finish" => m.status = IF mem.status = "running" THEN "completed"
                                             ELSE mem.status
              /\ pc = "finish" /\ mem.status = "running" => m.finished
              /\ pc' = "raised" => pc = "fail"
              /\ pc = "fail" => m.status = "failed" /\ m.finished
    BY <1>2, CommitShape
  <2>2. /\ job'.status = IF m.status # synced.status THEN m.status ELSE job.status
        /\ job'.finished = IF m.finished # synced.finished THEN m.finished ELSE job.finished
    BY <2>1, FlushIsRow
  <2>3. m.finished \/ job.finished => job'.finished
    BY <1>1, <2>1, <2>2 DEF FinishedInv, JobRow
  <2>4. job'.status = "cancelled" => job'.finished
    BY <2>1, <2>2, <2>3 DEF FinishedInv, CopyInv
  <2>5. pc' = "done" => job'.status \in Terminal /\ job'.finished
    BY <2>1, <2>2, <2>3, <2>4 DEF CopyInv, StopInv, Terminal
  <2>6. pc' = "raised" => job'.status \in Terminal /\ job'.finished
    BY <2>1, <2>2, <2>3 DEF CopyInv, Running, Terminal
  <2> QED  BY <2>1, <2>3, <2>4, <2>5, <2>6 DEF FinishedInv
<1>3. CASE ~(\/ AcknowledgeCancelled \/ Begin \/ SettleCancelled \/ SaveResults \/ Accept
             \/ Reject \/ MarkProposing \/ RecordProposal \/ StopUnchanged
             \/ CreateCandidate \/ Finish \/ Fail)
  <2>1. /\ pc' \in {"done", "raised"} => pc' = pc
        /\ \/ UNCHANGED <<job, mem, synced>>
           \/ UNCHANGED job /\ synced' = job /\ mem' \in {job, MarkCancelled(job)}
           \/ Claim /\ UNCHANGED <<mem, synced>>
           \/ ApiCancelWrite /\ UNCHANGED <<mem, synced, pc>>
    BY <1>3, OtherShape
  <2>2. MarkCancelled(job).finished
    BY <1>1 DEF MarkCancelled, JobRow
  <2>3. CASE UNCHANGED <<job, mem, synced>>
    BY <2>1, <2>3 DEF FinishedInv
  <2>4. CASE UNCHANGED job /\ synced' = job /\ mem' \in {job, MarkCancelled(job)}
    BY <2>1, <2>2, <2>4 DEF FinishedInv
  <2>5. CASE Claim /\ UNCHANGED <<mem, synced>>
    BY <1>1, <2>1, <2>5 DEF FinishedInv, Claim, JobRow
  <2>6. CASE ApiCancelWrite /\ UNCHANGED <<mem, synced, pc>>
    <3>1. job'.status = "cancelled" /\ job'.finished
      BY <1>1, <2>6 DEF ApiCancelWrite, MarkCancelled, JobRow
    <3> QED  BY <2>6, <3>1 DEF FinishedInv, Terminal
  <2> QED  BY <2>1, <2>3, <2>4, <2>5, <2>6
<1> QED  BY <1>2, <1>3

(* The verdicts of other iterations stay, and a new row is not yet judged. *)
LEMMA VerdictsKept ==
    ASSUME IInv,
           \/ SettleCancelled \/ SaveResults \/ MarkProposing \/ RecordProposal
           \/ StopUnchanged \/ CreateCandidate
    PROVE  \A k \in IterNos : iters'[k].accepted = iters[k].accepted
<1>1. iters \in [IterNos -> IterRow] /\ no \in IterNos
  BY DEF IInv, TypeOK
<1>2. CASE SaveResults
  BY <1>1, <1>2 DEF SaveResults, IterRow
<1>3. CASE SettleCancelled \/ MarkProposing \/ StopUnchanged \/ CreateCandidate
  BY <1>1, <1>3 DEF SettleCancelled, MarkProposing, StopUnchanged, CreateCandidate, IterRow
<1>4. CASE RecordProposal
  BY <1>1, <1>4 DEF RecordProposal, IterRow
<1> QED  BY <1>2, <1>3, <1>4

(* A verdict writes the current row only. *)
LEMMA VerdictWritten ==
    ASSUME IInv, Accept \/ Reject
    PROVE  /\ iters'[no].accepted = IF Accept THEN "yes" ELSE "no"
           /\ iters'[no].phase = iters[no].phase /\ iters'[no].score = iters[no].score
           /\ \A k \in IterNos : k # no => iters'[k] = iters[k]
<1>1. iters \in [IterNos -> IterRow] /\ no \in IterNos
  BY DEF IInv, TypeOK
<1>2. CASE Accept
  BY <1>1, <1>2 DEF Accept, IterRow
<1>3. CASE Reject
  BY <1>1, <1>3 DEF Accept, Reject, IterRow
<1> QED  BY <1>2, <1>3

(* The steps that write no iteration, and where they lead. *)
LEMMA NoIterationWritten ==
    ASSUME IInv, [Next]_vars,
           ~(\/ InsertIteration \/ SettleCancelled \/ SaveResults \/ Accept \/ Reject
             \/ MarkProposing \/ RecordProposal \/ StopUnchanged \/ CreateCandidate)
    PROVE  /\ UNCHANGED <<iters, no, noImprove>>
           /\ \/ pc' = pc /\ UNCHANGED mem
              \/ pc \in Before \cup Unjudged /\ pc' \in (Before \cup Unjudged) \ {"judge"}
              \/ pc \in JudgedHere /\ pc' \in JudgedHere
              \/ pc \in Before /\ pc' = "done"
              \/ pc = "top" /\ pc' = "finish"
              \/ pc = "finish" /\ pc' = "done"
                    /\ mem' = IF mem.status = "running"
                              THEN [mem EXCEPT !.status = "completed", !.finished = TRUE]
                              ELSE mem
              \/ pc' \in {"settle", "fail", "raised", "aborted"}
<1>1. CASE Claim \/ Load \/ AcknowledgeCancelled \/ Begin \/ SetUp \/ SetUpRaises
  BY <1>1 DEF Claim, Load, AcknowledgeCancelled, Begin, SetUp, SetUpRaises, Before, Unjudged,
              JudgedHere, rows, orm, locals
<1>2. CASE RefreshAtTop \/ Benchmark \/ RefreshAfterBenchmark \/ Propose
           \/ RefreshAfterProposal
  BY <1>2 DEF RefreshAtTop, Benchmark, BenchmarkReturns, BenchmarkRaises, RefreshAfter,
              RefreshAfterBenchmark, Propose, ProposalReturns, ProposalRaises,
              RefreshAfterProposal, Refresh, Before, Unjudged, JudgedHere, rows, orm, locals
<1>3. CASE Finish \/ Fail \/ DbFault \/ ApiCancelCheck \/ ApiCancelWrite \/ UNCHANGED vars
  BY <1>3 DEF Finish, Fail, DbFault, ApiCancelCheck, ApiCancelWrite, Commit, rows, orm,
              locals, vars
<1> QED  BY <1>1, <1>2, <1>3 DEF Next, Processor

LEMMA PatienceStep ==
    ASSUME IInv, EInv, [Next]_vars
    PROVE  PatienceInv'
<1> USE DEF IInv, EInv
<1>1. /\ iters \in [IterNos -> IterRow] /\ no \in IterNos /\ noImprove \in Nat
  BY DEF TypeOK
<1>2. CASE Accept
  BY <1>1, <1>2 DEF Accept, Conclude, PatienceInv, Before, Unjudged, JudgedHere
<1>3. CASE Reject
  <2>1. pc = "judge" /\ pc' \in {"mark", "finish"} /\ no' = no /\ noImprove' = noImprove + 1
    BY <1>3 DEF Reject, Conclude
  <2>2. no > 0
    BY <1>1, <1>3, <2>1 DEF Reject, Improved, BestInv, Unjudged
  <2>3. iters'[no].accepted = "no" /\ \A k \in IterNos : k # no => iters'[k] = iters[k]
    BY <1>3, VerdictWritten DEF Accept, Reject
  <2>4. /\ noImprove = 0 \/ noImprove < no
        /\ \A k \in IterNos : no - noImprove <= k /\ k < no => iters[k].accepted = "no"
    BY <2>1 DEF PatienceInv, Unjudged
  <2>5. \A k \in IterNos :
          no' - noImprove' < k /\ k <= no' => iters'[k].accepted = "no"
    BY <1>1, <2>1, <2>3, <2>4
  <2>6. noImprove' <= no'
    BY <1>1, <2>1, <2>2, <2>4
  <2> QED  BY <2>1, <2>5, <2>6 DEF PatienceInv, Before, Unjudged, JudgedHere
<1>4. CASE InsertIteration
  <2>1. /\ pc = "insert" /\ pc' = "bench" /\ UNCHANGED <<no, noImprove>>
        /\ \A k \in IterNos : k # no => iters'[k] = iters[k]
    BY <1>1, <1>4 DEF InsertIteration, locals
  <2> QED  BY <1>1, <2>1 DEF PatienceInv, Before, Unjudged, JudgedHere
<1>5. CASE SettleCancelled \/ SaveResults \/ MarkProposing \/ RecordProposal \/ StopUnchanged
  <2>1. \A k \in IterNos : iters'[k].accepted = iters[k].accepted
    BY <1>5, VerdictsKept
  <2>2. UNCHANGED <<no, noImprove>>
    BY <1>5 DEF SettleCancelled, SaveResults, MarkProposing, RecordProposal, StopUnchanged,
                locals
  <2>3. \/ pc' = "finish"
        \/ pc = "save" /\ pc' = "judge"
        \/ pc \in JudgedHere /\ pc' \in JudgedHere
    BY <1>5 DEF SettleCancelled, SaveResults, MarkProposing, RecordProposal, StopUnchanged,
                JudgedHere
  <2> QED  BY <2>1, <2>2, <2>3 DEF PatienceInv, Before, Unjudged, JudgedHere
<1>6. CASE CreateCandidate
  <2>1. \A k \in IterNos : iters'[k].accepted = iters[k].accepted
    BY <1>6, VerdictsKept
  <2>2. /\ pc = "adopt" /\ pc' = "top" /\ no' = no + 1 /\ noImprove' = noImprove
    BY <1>6 DEF CreateCandidate
  <2>3. /\ noImprove <= no
        /\ \A k \in IterNos : no - noImprove < k /\ k <= no => iters[k].accepted = "no"
    BY <2>2 DEF PatienceInv, JudgedHere
  <2>4. \A k \in IterNos : no' - noImprove' <= k /\ k < no' => iters'[k].accepted = "no"
    BY <1>1, <2>1, <2>2, <2>3
  <2> QED  BY <1>1, <2>2, <2>3, <2>4 DEF PatienceInv, Before, Unjudged, JudgedHere
<1>7. CASE ~(\/ InsertIteration \/ SettleCancelled \/ SaveResults \/ Accept \/ Reject
             \/ MarkProposing \/ RecordProposal \/ StopUnchanged \/ CreateCandidate)
  <2>1. /\ UNCHANGED <<iters, no, noImprove>>
        /\ \/ pc' = pc
           \/ pc \in Before \cup Unjudged /\ pc' \in (Before \cup Unjudged) \ {"judge"}
           \/ pc \in JudgedHere /\ pc' \in JudgedHere
           \/ pc' \in {"done", "finish", "settle", "fail", "raised", "aborted"}
    BY <1>7, NoIterationWritten
  <2> QED  BY <2>1 DEF PatienceInv, Before, Unjudged, JudgedHere
<1> QED  BY <1>2, <1>3, <1>4, <1>5, <1>6, <1>7

LEMMA ClosedStep ==
    ASSUME IInv, EInv, [Next]_vars
    PROVE  ClosedInv'
<1> USE DEF IInv, EInv
<1>1. /\ iters \in [IterNos -> IterRow] /\ no \in IterNos /\ mem \in JobRow
  BY DEF TypeOK
<1>2. CASE Accept \/ Reject
  <2>1. /\ pc = "judge" /\ pc' \in {"mark", "finish"} /\ no' = no
        /\ iters'[no].phase = iters[no].phase
    BY <1>2, VerdictWritten DEF Accept, Reject, Conclude
  <2> QED  BY <2>1 DEF ClosedInv, Present
<1>3. CASE SettleCancelled
  <2>1. mem'.status = "cancelled" /\ pc' = "finish" /\ no' = no
        /\ iters'[no].phase = "failed"
    BY <1>1, <1>3, MarkIsRow DEF SettleCancelled, Commit, CopyInv, IterRow, locals
  <2> QED  BY <2>1 DEF ClosedInv
<1>4. CASE SaveResults
  BY <1>1, <1>4 DEF SaveResults, ClosedInv, IterRow, locals
<1>5. CASE StopUnchanged
  BY <1>1, <1>5 DEF StopUnchanged, ClosedInv, IterRow, locals
<1>6. CASE InsertIteration \/ MarkProposing \/ RecordProposal \/ CreateCandidate
  BY <1>6 DEF InsertIteration, MarkProposing, RecordProposal, CreateCandidate, ClosedInv
<1>7. CASE ~(\/ InsertIteration \/ SettleCancelled \/ SaveResults \/ Accept \/ Reject
             \/ MarkProposing \/ RecordProposal \/ StopUnchanged \/ CreateCandidate)
  <2>1. UNCHANGED <<iters, no>>
    BY <1>7, NoIterationWritten
  <2>2. CASE pc' = pc /\ UNCHANGED mem
    BY <2>1, <2>2 DEF ClosedInv, Present
  <2>3. CASE \/ pc \in Before /\ pc' = "done"
             \/ pc = "top" /\ pc' = "finish"
    <3>1. iters[no] = NoRow
      BY <2>3 DEF PresentInv
    <3> QED  BY <2>1, <2>3, <3>1 DEF ClosedInv, Present, NoRow
  <2>4. CASE /\ pc = "finish" /\ pc' = "done"
             /\ mem' = IF mem.status = "running"
                       THEN [mem EXCEPT !.status = "completed", !.finished = TRUE]
                       ELSE mem
    <3>1. mem.status = "cancelled" => mem'.status = "cancelled"
      BY <2>4
    <3> QED  BY <2>1, <2>4, <3>1 DEF ClosedInv, Present
  <2>5. CASE pc' \notin {"judge", "finish", "done"}
    BY <2>5 DEF ClosedInv
  <2>6. \/ pc' = pc /\ UNCHANGED mem
        \/ pc \in Before /\ pc' = "done"
        \/ pc = "top" /\ pc' = "finish"
        \/ /\ pc = "finish" /\ pc' = "done"
           /\ mem' = IF mem.status = "running"
                     THEN [mem EXCEPT !.status = "completed", !.finished = TRUE]
                     ELSE mem
        \/ pc' \notin {"judge", "finish", "done"}
    BY <1>7, NoIterationWritten DEF Before, Unjudged, JudgedHere
  <2> QED  BY <2>2, <2>3, <2>4, <2>5, <2>6
<1> QED  BY <1>2, <1>3, <1>4, <1>5, <1>6, <1>7

(* A verdict that ends the loop is borne out, and pending in the copy. *)
LEMMA VerdictStops ==
    ASSUME IInv, EInv, PatienceInv', Accept \/ Reject, pc' = "finish"
    PROVE  /\ mem'.stop \in {"no_improvement", "all_tasks_passed", "max_iterations"}
           /\ BorneOut(mem.stop)'
           /\ synced'.stop = "none" /\ mem'.status = "running"
<1> USE DEF IInv, EInv
<1>1. /\ no \in IterNos /\ noImprove \in Nat /\ mem \in JobRow
      /\ pc = "judge" /\ mem.stop = "none" /\ mem.status = "running"
      /\ no' = no /\ result' = result
      /\ iters[no].phase # "absent" /\ iters[no].score = result.score
  BY DEF TypeOK, Accept, Reject, CopyInv, Running, PresentInv, Unjudged
<1>2. PICK m \in JobRow : Conclude(m) /\ m.stop = "none" /\ m.status = "running"
  <2>1. /\ WithBest(mem) \in JobRow /\ WithBest(mem).status = mem.status
        /\ WithBest(mem).stop = mem.stop
    BY <1>1 DEF WithBest, JobRow, RunVersion, CountInv
  <2> QED  BY <1>1, <2>1 DEF Accept, Reject
<1> DEFINE reason == Verdict(noImprove')
<1>3. /\ synced' = m /\ reason # "none" /\ mem' = [m EXCEPT !.stop = reason]
  BY <1>2 DEF Conclude
<1>4. mem'.stop = reason /\ mem'.status = "running"
  BY <1>2, <1>3 DEF JobRow
<1>5. /\ iters'[no].accepted = IF Accept THEN "yes" ELSE "no"
      /\ iters'[no].phase = iters[no].phase /\ iters'[no].score = iters[no].score
      /\ \A k \in IterNos : k # no => iters'[k] = iters[k]
  BY VerdictWritten
<1>6. reason \in {"no_improvement", "all_tasks_passed", "max_iterations"}
  BY <1>3 DEF Verdict
<1>7. reason = "max_iterations" => no = MaxIterations
  BY <1>1 DEF Verdict
<1>8. reason = "all_tasks_passed" => result.allPassed
  BY <1>1 DEF Verdict
<1>9. ASSUME reason = "no_improvement"
      PROVE  /\ no >= Patience
             /\ \A k \in no - Patience + 1 .. no : iters'[k].accepted = "no"
  <2>1. noImprove' >= Patience
    BY <1>9 DEF Verdict
  <2>2. /\ noImprove' = noImprove + 1 /\ iters'[no].accepted = "no"
        /\ noImprove = 0 \/ noImprove < no
        /\ \A k \in IterNos : no - noImprove <= k /\ k < no => iters[k].accepted = "no"
    BY <1>1, <1>5, <2>1 DEF Accept, Reject, PatienceInv, Unjudged
  <2>3. no > 0
    BY <1>1, <1>9 DEF Verdict
  <2>4. \A k \in no - Patience + 1 .. no : k \in IterNos /\ no - noImprove <= k
    BY <1>1, <2>1, <2>2, <2>3
  <2>5. \A k \in no - Patience + 1 .. no : iters'[k].accepted = "no"
    BY <1>1, <1>5, <2>2, <2>4
  <2>6. no >= Patience
    BY <1>1, <2>1, <2>2, <2>3
  <2> QED  BY <2>5, <2>6
<1> HIDE DEF reason
<1>10. BorneOut(mem.stop)'
  BY <1>1, <1>4, <1>5, <1>6, <1>7, <1>8, <1>9 DEF BorneOut, Present
<1> QED  BY <1>2, <1>3, <1>4, <1>6, <1>10

LEMMA StopStep ==
    ASSUME IInv, EInv, PatienceInv', [Next]_vars
    PROVE  StopInv'
<1> USE DEF IInv, EInv
<1>1. /\ job \in JobRow /\ mem \in JobRow /\ synced \in JobRow
      /\ iters \in [IterNos -> IterRow] /\ no \in IterNos
  BY DEF TypeOK
<1>2. CASE Accept \/ Reject
  <2>1. pc' = "mark" \/ pc' = "finish"
    BY <1>2 DEF Accept, Reject, Conclude
  <2>2. CASE pc' = "mark"
    BY <2>2 DEF StopInv
  <2>3. CASE pc' = "finish"
    <3>1. /\ mem'.stop \in {"no_improvement", "all_tasks_passed", "max_iterations"}
          /\ BorneOut(mem.stop)'
          /\ synced'.stop = "none" /\ mem'.status = "running"
      BY <1>2, <2>3, VerdictStops
    <3> QED  BY <2>3, <3>1 DEF StopInv
  <2> QED  BY <2>1, <2>2, <2>3
<1>3. CASE StopUnchanged
  <2> DEFINE m == [mem EXCEPT !.stop = "no_improvement"]
  <2>1. /\ m \in JobRow /\ m.stop = "no_improvement" /\ m.status = mem.status
    BY <1>1 DEF JobRow, StopReason
  <2>2. /\ job' = Flush(m) /\ mem' = m /\ synced' = m
        /\ pc = "adopt" /\ pc' = "finish" /\ ~changed
        /\ UNCHANGED <<versions, no, result, changed>>
    BY <1>3 DEF StopUnchanged, Commit, locals
  <2> HIDE DEF m
  <2>3. mem.status = "running" /\ synced.stop = "none"
    BY <2>2 DEF CopyInv, Running, JudgedHere
  <2>4. job'.stop = "no_improvement"
    BY <2>1, <2>2, <2>3, FlushIsRow
  <2>5. iters'[no].optimized /\ iters'[no].phase = "done"
    BY <1>1, <1>3, <2>2 DEF StopUnchanged, PresentInv, IterRow
  <2>6. ~\E v \in IterNos : versions[v].stored /\ v > no
    BY <1>1 DEF FutureInv
  <2>7. BorneOut(mem.stop)'
    BY <2>1, <2>2, <2>5, <2>6 DEF BorneOut, Present
  <2> QED  BY <2>1, <2>2, <2>3, <2>4, <2>5, <2>7 DEF StopInv
<1>4. CASE SettleCancelled
  <2>1. mem'.status = "cancelled" /\ pc' = "finish"
    BY <1>1, <1>4, MarkIsRow DEF SettleCancelled, Commit, CopyInv
  <2> QED  BY <2>1 DEF StopInv
<1>5. CASE RefreshAtTop
  <2>1. pc' = "insert" \/ (pc' = "finish" /\ mem'.status = "cancelled")
    BY <1>1, <1>5, MarkIsRow DEF RefreshAtTop, SeesCancelled
  <2> QED  BY <2>1 DEF StopInv
<1>6. CASE AcknowledgeCancelled
  <2> DEFINE m == [mem EXCEPT !.stop = IF @ = "none" THEN "cancelled" ELSE @,
                              !.finished = TRUE]
  <2>1. m \in JobRow /\ m.status = mem.status
    BY <1>1 DEF JobRow, StopReason
  <2>2. job' = Flush(m) /\ pc = "ack" /\ pc' = "done"
    BY <1>6 DEF AcknowledgeCancelled, Commit
  <2> HIDE DEF m
  <2>3. job'.status = "cancelled"
    BY <2>1, <2>2, FlushIsRow DEF CopyInv
  <2> QED  BY <2>2, <2>3 DEF StopInv
<1>7. CASE Finish
  <2> DEFINE m == IF mem.status = "running"
                  THEN [mem EXCEPT !.status = "completed", !.finished = TRUE]
                  ELSE mem
  <2>1. m \in JobRow /\ m.stop = mem.stop
        /\ m.status = IF mem.status = "running" THEN "completed" ELSE mem.status
    BY <1>1 DEF JobRow, JobStatus
  <2>2. /\ job' = Flush(m) /\ pc = "finish" /\ pc' = "done"
        /\ UNCHANGED <<iters, versions, no, result, changed>>
    BY <1>7 DEF Finish, Commit, locals
  <2> HIDE DEF m
  <2>3. /\ job'.status = IF m.status # synced.status THEN m.status ELSE job.status
        /\ job'.stop = IF m.stop # synced.stop THEN m.stop ELSE job.stop
    BY <2>1, <2>2, FlushIsRow
  <2>4. CASE mem.status = "running"
    <3>1. /\ BorneOut(mem.stop) /\ synced.stop \in {"none", mem.stop}
          /\ synced.stop = mem.stop => /\ job.stop \in {mem.stop, "cancelled"}
                                       /\ iters[no].optimized /\ ~changed
      BY <2>2, <2>4 DEF StopInv
    <3>2. job'.stop = mem.stop \/ (job'.stop = "cancelled" /\ iters[no].optimized /\ ~changed)
      BY <2>1, <2>3, <3>1
    <3>3. BorneOut(job'.stop)
      BY <3>1, <3>2 DEF BorneOut
    <3>4. BorneOut(job.stop)'
      BY <2>2, <3>3 DEF BorneOut, Present
    <3> QED  BY <2>2, <3>4 DEF StopInv
  <2>5. CASE mem.status # "running"
    <3>1. job'.status = "cancelled"
      BY <2>1, <2>2, <2>3, <2>5 DEF StopInv, CopyInv
    <3> QED  BY <2>2, <3>1 DEF StopInv
  <2> QED  BY <2>4, <2>5
<1>8. CASE ApiCancelWrite
  <2>1. job'.status = "cancelled" /\ job'.stop = "cancelled"
    BY <1>1, <1>8 DEF ApiCancelWrite, MarkCancelled, JobRow
  <2>2. UNCHANGED <<pc, mem, synced, iters, versions, no, result, changed>>
    BY <1>8 DEF ApiCancelWrite, orm, locals
  <2>3. BorneOut(mem.stop) => BorneOut(mem.stop)'
    BY <2>2 DEF BorneOut, Present
  <2> QED  BY <2>1, <2>2, <2>3 DEF StopInv
<1>9. CASE ApiCancelCheck \/ UNCHANGED vars
  <2>1. UNCHANGED <<job, mem, synced, pc, iters, versions, no, result, changed>>
    BY <1>9 DEF ApiCancelCheck, rows, orm, locals, vars
  <2>2. /\ BorneOut(mem.stop) => BorneOut(mem.stop)'
        /\ BorneOut(job.stop) => BorneOut(job.stop)'
    BY <2>1 DEF BorneOut, Present
  <2> QED  BY <2>1, <2>2 DEF StopInv
<1>10. CASE Load
  <2>1. pc' \in {"ack", "begin"}
    BY <1>10 DEF Load, RowInv, Ending
  <2> QED  BY <2>1 DEF StopInv
<1>11. CASE \/ Claim \/ Begin \/ SetUp \/ SetUpRaises \/ InsertIteration \/ Benchmark
            \/ RefreshAfterBenchmark \/ SaveResults \/ MarkProposing \/ Propose
            \/ RefreshAfterProposal \/ RecordProposal \/ CreateCandidate \/ Fail \/ DbFault
  BY <1>11 DEF Claim, Begin, SetUp, SetUpRaises, InsertIteration, Benchmark,
               BenchmarkReturns, BenchmarkRaises, RefreshAfterBenchmark, RefreshAfter,
               SaveResults, MarkProposing, Propose, ProposalReturns, ProposalRaises,
               RefreshAfterProposal, RecordProposal, CreateCandidate, Fail, DbFault, StopInv
<1> QED
  BY <1>2, <1>3, <1>4, <1>5, <1>6, <1>7, <1>8, <1>9, <1>10, <1>11 DEF Next, Processor

LEMMA StepKeepsEnds == IInv /\ EInv /\ [Next]_vars => EInv'
BY FinishedStep, ClosedStep, PatienceStep, StopStep DEF EInv

(***************************************************************************)
(* Theorems.                                                               *)
(***************************************************************************)
(* The strengthened invariant holds of every run: what the job row, the ORM
   copy, the locals and the stored rows say of each other. *)
THEOREM Invariance == Spec => []IInv
<1>1. Init => IInv  BY InitHolds
<1>2. IInv /\ [Next]_vars => IInv'  BY StepKeepsIInv
<1>3. QED  BY <1>1, <1>2, PTL DEF Spec

(* What the processor leaves behind, on top of that invariant. *)
THEOREM EndsInvariance == Spec => []EInv
<1>1. Init => EInv  BY InitEnds
<1>2. IInv /\ EInv /\ [Next]_vars => EInv'  BY StepKeepsEnds
<1>3. QED  BY <1>1, <1>2, Invariance, PTL DEF Spec

(* Every variable keeps its type: no counter or version number leaves the
   range that max_iterations allows. *)
THEOREM TypeCorrect == Spec => []TypeOK
<1>1. IInv => TypeOK  BY DEF IInv
<1>2. QED  BY <1>1, Invariance, PTL

(* The asserts of the loop never fail, for any limits and any results. *)
THEOREM AssertsNeverFail == Spec => []AssertsHold
<1>1. IInv => AssertsHold
  BY DEF IInv, TypeOK, CountInv, PresentInv, PastInv, Complete, AssertsHold, RunVersion,
         Unjudged, JudgedHere
<1>2. QED  BY <1>1, Invariance, PTL

(* The job row's best score and best version belong together and are the best
   of all judged iterations, between any two commits. *)
THEOREM RowTellsTheBest == Spec => []JobRowTellsTheBest
<1>1. IInv => JobRowTellsTheBest
  <2>1. SUFFICES ASSUME IInv, job.bestScore # NoScore PROVE JobRowTellsTheBest
    BY DEF JobRowTellsTheBest
  <2>2. /\ bestVersion \in IterNos /\ job.bestVersion = bestVersion
        /\ iters[bestVersion].score = job.bestScore
        /\ iters[bestVersion].accepted = "yes"
        /\ iters[bestVersion].version = bestVersion
        /\ \A k \in IterNos : iters[k].accepted # "unjudged" => iters[k].score <= job.bestScore
    BY <2>1 DEF IInv, TypeOK, BestInv
  <2>3. bestVersion \in Judged  BY <2>1, <2>2 DEF Judged
  <2>4. QED  BY <2>2, <2>3 DEF JobRowTellsTheBest, Judged
<1>2. QED  BY <1>1, Invariance, PTL

(* No candidate is ever derived from a rejected version: its parent was the
   best of all iterations judged when it was proposed. *)
THEOREM CandidatesAreOfTheBest == Spec => []CandidatesBuildOnBest
<1>1. IInv => CandidatesBuildOnBest
  <2>1. SUFFICES ASSUME IInv, NEW v \in IterNos, versions[v].stored, v > 0
                 PROVE  \E k \in 0 .. versions[v].createdBy :
                            /\ iters[k].version = versions[v].parent
                            /\ iters[k].accepted = "yes"
                            /\ \A j \in 0 .. versions[v].createdBy :
                                  iters[j].score <= iters[k].score
    BY DEF CandidatesBuildOnBest
  <2> DEFINE k == versions[v].parent
  <2>2. /\ versions[v].createdBy = v - 1 /\ k \in 0 .. v - 1
        /\ iters[k].accepted = "yes"
        /\ \A j \in 0 .. v - 1 : iters[j].score <= iters[k].score
    BY <2>1 DEF IInv, ParentInv
  <2>3. v <= no  BY <2>1 DEF IInv, TypeOK, FutureInv
  <2>4. k \in IterNos /\ k < no  BY <2>1, <2>2, <2>3 DEF IInv, TypeOK
  <2>5. iters[k].version = k  BY <2>1, <2>4 DEF IInv, PastInv, Complete
  <2>6. QED  BY <2>2, <2>5
<1>2. QED  BY <1>1, Invariance, PTL

(* Every iteration row names a stored version, proposed and recorded by the
   iteration before it. *)
THEOREM RunsAreReconstructible == Spec => []HistoryIsReconstructible
<1>1. IInv => HistoryIsReconstructible
  <2>1. SUFFICES ASSUME IInv, NEW k \in IterNos, Present(k)
                 PROVE  /\ iters[k].version # NoVersion
                        /\ versions[iters[k].version].stored
                        /\ k > 0 => /\ versions[iters[k].version].createdBy = k - 1
                                    /\ iters[k - 1].optimized
    BY DEF HistoryIsReconstructible
  <2>2. k <= no
    BY <2>1 DEF IInv, TypeOK, FutureInv, Present, NoRow
  <2>3. iters[k].version = k /\ versions[k].stored
    BY <2>1, <2>2 DEF IInv, TypeOK, PastInv, Complete, PresentInv, Present, NoRow
  <2>4. k > 0 => versions[k].createdBy = k - 1
    BY <2>1, <2>3 DEF IInv, ParentInv
  <2>5. k > 0 => iters[k - 1].optimized
    BY <2>1, <2>2 DEF IInv, TypeOK, PastInv, Complete
  <2>6. QED  BY <2>3, <2>4, <2>5
<1>2. QED  BY <1>1, Invariance, PTL

(* Whatever ends the processor, only its newest iteration can be half done. *)
THEOREM EarlierIterationsAreClosed == Spec => []OnlyNewestIterationIsOpen
<1>1. IInv => OnlyNewestIterationIsOpen
  <2>1. SUFFICES ASSUME IInv, NEW k \in IterNos, k + 1 \in IterNos, Present(k + 1)
                 PROVE  Complete(k)
    BY DEF OnlyNewestIterationIsOpen, Complete
  <2>2. k < no
    BY <2>1 DEF IInv, TypeOK, FutureInv, Present, NoRow
  <2>3. QED  BY <2>1, <2>2 DEF IInv, PastInv
<1>2. QED  BY <1>1, Invariance, PTL

(* A cancellation the processor has seen is final: no later commit of it takes
   the row out of "cancelled". *)
THEOREM SeenIsFinal == Spec => SeenCancellationIsFinal
<1>1. IInv /\ [Next]_vars => [mem.status = "cancelled" => job'.status = "cancelled"]_vars
  <2>1. SUFFICES ASSUME IInv, Next, mem.status = "cancelled"
                 PROVE  job'.status = "cancelled"
    OBVIOUS
  <2>2. /\ job \in JobRow /\ mem \in JobRow /\ synced.status = "cancelled"
        /\ job.status = "cancelled" /\ pc \notin Running /\ pc \notin {"claim", "load"}
    BY <2>1 DEF IInv, TypeOK, CopyInv, RowInv, NewJob, Running
  <2>3. CASE ApiCancelCheck \/ ApiCancelWrite
    BY <2>2, <2>3 DEF ApiCancelCheck, ApiCancelWrite, MarkCancelled, rows, JobRow, JobStatus
  <2>4. CASE UNCHANGED job  BY <2>2, <2>4
  <2>5. ASSUME NEW m \in JobRow, m.status = mem.status, job' = Flush(m)
        PROVE  job'.status = "cancelled"
    BY <2>1, <2>2, <2>5, FlushIsRow DEF IInv
  <2>6. CASE AcknowledgeCancelled
    <3> DEFINE n == [mem EXCEPT !.stop = IF @ = "none" THEN "cancelled" ELSE @,
                                !.finished = TRUE]
    <3>1. n \in JobRow /\ n.status = mem.status
      BY <2>2, <2>6 DEF JobRow, StopReason
    <3>2. job' = Flush(n)  BY <2>6 DEF AcknowledgeCancelled, Commit
    <3> HIDE DEF n
    <3>3. QED  BY <2>5, <3>1, <3>2
  <2>7. CASE SettleCancelled
    BY <2>2, <2>5, <2>7, MarkIsRow DEF SettleCancelled, Commit
  <2>8. CASE Finish
    BY <2>1, <2>2, <2>5, <2>8 DEF Finish, Commit
  <2>9. \/ ApiCancelCheck \/ ApiCancelWrite \/ AcknowledgeCancelled \/ SettleCancelled
        \/ Finish \/ UNCHANGED job
    BY <2>1, <2>2
       DEF Next, Processor, Running, Unjudged, JudgedHere, Claim, Load, Begin, SetUp,
           SetUpRaises, RefreshAtTop, InsertIteration, Benchmark, BenchmarkReturns,
           BenchmarkRaises, RefreshAfterBenchmark, RefreshAfter, Refresh, SaveResults,
           Accept, Reject, MarkProposing, Propose, ProposalReturns, ProposalRaises,
           RefreshAfterProposal, RecordProposal, StopUnchanged, CreateCandidate, Fail,
           DbFault, rows
  <2>10. QED  BY <2>3, <2>4, <2>6, <2>7, <2>8, <2>9
<1>2. QED  BY <1>1, Invariance, PTL DEF Spec, SeenCancellationIsFinal

(* Once the processor has let go of a job, normally or by its failure handler,
   the job has ended and has the time of its end. Only after a normal end is no
   iteration row in flight, and is one failed only if the job was seen to be
   cancelled: the handler leaves the iteration of a raised run as it was, and of a
   run cut off by a failed statement ("aborted") nothing is claimed. *)
THEOREM NothingStaysInFlight == Spec => []NothingLeftInFlight
<1>1. IInv /\ EInv => NothingLeftInFlight
  <2>1. SUFFICES ASSUME IInv, EInv, pc = "done", NEW k \in IterNos, Present(k)
                 PROVE  Settled(k) /\ (iters[k].phase = "failed" => mem.status = "cancelled")
    BY DEF NothingLeftInFlight, EInv, FinishedInv
  <2>2. CASE k < no
    BY <2>1, <2>2 DEF IInv, PastInv, Complete, Settled
  <2>3. CASE k = no
    BY <2>1, <2>3 DEF EInv, ClosedInv, Settled
  <2>4. CASE k > no
    BY <2>1, <2>4 DEF IInv, FutureInv, Present, NoRow
  <2> QED  BY <2>1, <2>2, <2>3, <2>4 DEF IInv, TypeOK
<1>2. QED  BY <1>1, Invariance, EndsInvariance, PTL

(* The stop reason of a completed job is what its iterations say, for every
   limit, patience and result, and whenever a cancellation comes. *)
THEOREM StopReasonsAreTrue == Spec => []StopReasonIsBorneOut
<1>1. EInv => StopReasonIsBorneOut
  BY DEF EInv, StopInv, BorneOut, StopReasonIsBorneOut
<1>2. QED  BY <1>1, EndsInvariance, PTL

-----------------------------------------------------------------------------
(* A commit that keeps the status of the copy keeps that of the row. *)
LEMMA StatusStays ==
    ASSUME IInv, NEW m \in JobRow, m.status = mem.status, job' = Flush(m)
    PROVE  job'.status = job.status
  BY FlushIsRow DEF IInv, CopyInv

(* What a cancellation that comes before iteration n leaves to happen: n may
   still be inserted and run, but it is not scored, and nothing comes after it. *)
Spared(n) == iters[n].score = NoScore /\ (n = MaxIterations \/ ~Present(n + 1))

Closing == {"ack", "settle", "finish", "fail", "done", "raised", "aborted"}

CutShort(n) ==
    /\ Spared(n)
    /\ \/ pc \in Closing
       \/ /\ job.status = "cancelled" /\ no <= n
          /\ no = n => pc \notin {"save", "judge"} \cup JudgedHere

LEMMA CancelCutsShort ==
    ASSUME IInv, NEW n \in IterNos, job.status = "cancelled", ~Present(n)
    PROVE  CutShort(n)
<1>1. no \in IterNos /\ no <= n /\ iters[n] = NoRow
  <2>1. no \in IterNos
    BY DEF IInv, TypeOK
  <2>2. ~(n < no)
    BY DEF IInv, PastInv, Complete, Present
  <2>3. n = no => iters[n] = NoRow
    BY DEF IInv, PresentInv, Present
  <2>4. n > no => iters[n] = NoRow
    BY DEF IInv, FutureInv
  <2> QED  BY <2>1, <2>2, <2>3, <2>4
<1>2. n = MaxIterations \/ ~Present(n + 1)
  BY <1>1 DEF IInv, FutureInv, Present, NoRow
<1>3. no = n => pc \notin {"save", "judge"} \cup JudgedHere
  BY <1>1 DEF IInv, PresentInv, Unjudged
<1> QED  BY <1>1, <1>2, <1>3 DEF CutShort, Spared, NoRow

(* The rows of n and of the iteration after it, in a step of a run cut short. *)
LEMMA SparedStays ==
    ASSUME IInv, Next, NEW n \in IterNos, CutShort(n)
    PROVE  Spared(n)'
<1>1. no \in IterNos /\ iters \in [IterNos -> IterRow]
  BY DEF IInv, TypeOK
<1>2. CASE InsertIteration
  <2> DEFINE row == [phase |-> "running_benchmark", version |-> RunVersion,
                     score |-> NoScore, optimized |-> FALSE,
                     accepted |-> IF no = 0 THEN "yes" ELSE "unjudged"]
  <2>1. iters' = [iters EXCEPT ![no] = row] /\ row.score = NoScore
    BY <1>2 DEF InsertIteration
  <2>2. no <= n
    BY <1>2 DEF InsertIteration, CutShort, Closing
  <2> HIDE DEF row
  <2> QED  BY <1>1, <2>1, <2>2 DEF CutShort, Spared, Present
<1>3. CASE SettleCancelled
  <2>1. iters' = [iters EXCEPT ![no] = [iters[no] EXCEPT !.phase = "failed"]]
    BY <1>1, <1>3 DEF SettleCancelled
  <2>2. Present(no)
    BY <1>3 DEF SettleCancelled, IInv, PresentInv, Present
  <2>3. \A k \in IterNos : /\ iters'[k].score = iters[k].score
                           /\ k # no => iters'[k] = iters[k]
    BY <1>1, <2>1 DEF IterRow
  <2> QED  BY <1>1, <2>2, <2>3 DEF CutShort, Spared, Present
<1>4. CASE SaveResults \/ Accept \/ Reject \/ MarkProposing \/ RecordProposal
           \/ StopUnchanged \/ CreateCandidate
  <2>1. pc \in {"save", "judge"} \cup JudgedHere
    BY <1>4
       DEF SaveResults, Accept, Reject, MarkProposing, RecordProposal, StopUnchanged,
           CreateCandidate, JudgedHere
  <2>2. no < n
    BY <1>1, <2>1 DEF CutShort, Closing, JudgedHere
  <2>3. \A k \in IterNos : k # no => iters'[k] = iters[k]
    BY <1>1, <1>4
       DEF SaveResults, Accept, Reject, MarkProposing, RecordProposal, StopUnchanged,
           CreateCandidate
  <2> QED  BY <1>1, <2>2, <2>3 DEF CutShort, Spared, Present
<1>5. CASE UNCHANGED iters
  BY <1>5 DEF CutShort, Spared, Present
<1> QED
  BY <1>2, <1>3, <1>4, <1>5
     DEF Next, Processor, Claim, Load, AcknowledgeCancelled, Begin, SetUp, SetUpRaises,
         RefreshAtTop, Benchmark, BenchmarkReturns, BenchmarkRaises, RefreshAfterBenchmark,
         RefreshAfterProposal, RefreshAfter, Propose, ProposalReturns, ProposalRaises,
         Finish, Fail, DbFault, ApiCancelCheck, ApiCancelWrite, rows

LEMMA CutShortStep ==
    ASSUME IInv, NEW n \in IterNos, CutShort(n), [Next]_vars
    PROVE  CutShort(n)'
<1>1. CASE UNCHANGED vars
  BY <1>1 DEF vars, CutShort, Spared, Present
<1> SUFFICES ASSUME Next PROVE CutShort(n)'
  BY <1>1
<1>2. Spared(n)'
  BY SparedStays
<1>3. CASE pc \in Closing
  <2>1. pc' \in Closing
    BY <1>3
       DEF Closing, Next, Processor, Claim, Load, AcknowledgeCancelled, Begin, SetUp, SetUpRaises,
           RefreshAtTop, InsertIteration, Benchmark, BenchmarkReturns, BenchmarkRaises,
           RefreshAfterBenchmark, RefreshAfterProposal, RefreshAfter, SettleCancelled,
           SaveResults, Accept, Reject, MarkProposing, Propose, ProposalReturns,
           ProposalRaises, RecordProposal, StopUnchanged, CreateCandidate, Finish, Fail,
           DbFault, ApiCancelCheck, ApiCancelWrite
  <2> QED  BY <1>2, <2>1 DEF CutShort
<1>4. CASE pc \notin Closing
  <2>1. /\ job.status = "cancelled" /\ no \in IterNos /\ no <= n
        /\ no = n => pc \notin {"save", "judge"} \cup JudgedHere
        /\ mem \in JobRow /\ job \in JobRow
    BY <1>4 DEF CutShort, IInv, TypeOK
  <2>2. CASE ApiCancelCheck \/ ApiCancelWrite
    BY <1>2, <2>1, <2>2, MarkIsRow
       DEF ApiCancelCheck, ApiCancelWrite, rows, locals, CutShort, JobRow
  <2>3. CASE DbFault \/ Load \/ RefreshAtTop \/ RefreshAfterBenchmark \/ RefreshAfterProposal
             \/ SetUpRaises \/ BenchmarkRaises \/ ProposalRaises \/ StopUnchanged
    BY <1>2, <2>1, <2>3
       DEF DbFault, Load, RefreshAtTop, RefreshAfterBenchmark, RefreshAfterProposal,
           RefreshAfter, SeesCancelled, SetUpRaises, BenchmarkRaises, ProposalRaises,
           StopUnchanged, CutShort, Closing
  <2>4. CASE Claim \/ SetUp \/ InsertIteration \/ BenchmarkReturns \/ ProposalReturns
    <3>1. job' = job /\ no' = no /\ (no = n => pc' \notin {"save", "judge"} \cup JudgedHere)
      BY <2>1, <2>4
         DEF Claim, SetUp, InsertIteration, BenchmarkReturns, ProposalReturns, JudgedHere,
             rows, locals
    <3> QED  BY <1>2, <2>1, <3>1 DEF CutShort
  <2>5. CASE Begin
    <3>1. PICK m \in JobRow : m.status = mem.status /\ job' = Flush(m)
      BY <2>1, <2>5 DEF Begin, Commit, JobRow, IInv, CopyInv, Running
    <3>2. job'.status = "cancelled"
      BY <2>1, <3>1, StatusStays
    <3> QED  BY <1>2, <2>1, <2>5, <3>2 DEF Begin, locals, CutShort, JudgedHere
  <2>6. CASE SaveResults \/ Accept \/ Reject \/ MarkProposing \/ RecordProposal
             \/ CreateCandidate
    <3>1. pc \in {"save", "judge"} \cup JudgedHere
      BY <2>6
         DEF SaveResults, Accept, Reject, MarkProposing, RecordProposal, CreateCandidate,
             JudgedHere
    <3>2. no < n
      BY <2>1, <3>1
    <3>3. PICK m \in JobRow : m.status = mem.status /\ job' = Flush(m)
      BY <2>1, <2>6
         DEF SaveResults, Accept, Reject, MarkProposing, RecordProposal, CreateCandidate,
             Commit, Conclude, WithBest, RunVersion, IInv, TypeOK, CountInv, JobRow
    <3>4. job'.status = "cancelled"
      BY <2>1, <3>3, StatusStays
    <3>5. no' <= n /\ (no' = n => pc' = "top")
      BY <2>1, <2>6, <3>2
         DEF SaveResults, Accept, Reject, MarkProposing, RecordProposal, CreateCandidate, locals
    <3> QED  BY <1>2, <3>4, <3>5 DEF CutShort, JudgedHere
  <2>7. ~(AcknowledgeCancelled \/ SettleCancelled \/ Finish \/ Fail)
    BY <1>4 DEF AcknowledgeCancelled, SettleCancelled, Finish, Fail, Closing
  <2> QED
    BY <2>2, <2>3, <2>4, <2>5, <2>6, <2>7 DEF Next, Processor, Benchmark, Propose
<1> QED  BY <1>3, <1>4

(* However a cancellation falls between the steps of a run, at most one more
   iteration is inserted, and it is never scored. *)
THEOREM CancelIsCheap == Spec => CancelCostsOneIteration
<1>1. ASSUME NEW n \in IterNos
      PROVE  Spec => [](job.status = "cancelled" /\ ~Present(n) =>
                         [](job.status = "cancelled" =>
                               /\ iters[n].score = NoScore
                               /\ n = MaxIterations \/ ~Present(n + 1)))
  <2>1. IInv /\ job.status = "cancelled" /\ ~Present(n) => CutShort(n)
    BY CancelCutsShort
  <2>2. IInv /\ CutShort(n) /\ [Next]_vars => CutShort(n)'
    BY CutShortStep
  <2>3. CutShort(n) => (job.status = "cancelled" =>
                           /\ iters[n].score = NoScore
                           /\ n = MaxIterations \/ ~Present(n + 1))
    BY DEF CutShort, Spared
  <2> QED  BY <2>1, <2>2, <2>3, Invariance, PTL DEF Spec
<1> QED  BY <1>1 DEF CancelCostsOneIteration

-----------------------------------------------------------------------------
(* How much is left of a run: the iterations that may follow, and the places of
   the current one that are still ahead. *)
Ahead ==
    [p \in Places |->
        CASE p = "claim"    -> 19 [] p = "load"     -> 18 [] p = "begin"  -> 17
          [] p = "setup"    -> 16 [] p = "top"      -> 15 [] p = "insert" -> 14
          [] p = "bench"    -> 13 [] p = "benched"  -> 12 [] p = "save"   -> 11
          [] p = "judge"    -> 10 [] p = "mark"     -> 9  [] p = "propose" -> 8
          [] p = "proposed" -> 7  [] p = "record"   -> 6  [] p = "adopt"  -> 5
          [] p = "settle"   -> 4  [] p = "finish"   -> 3  [] p = "fail"   -> 2
          [] p = "ack"      -> 1  [] OTHER          -> 0]

Left == 20 * (MaxIterations - no) + Ahead[pc]

(* Every step of the processor and every failed statement leaves less, and the
   cancel endpoint takes and gives nothing. *)
RunsGetShorter ==
    [][/\ Processor \/ DbFault => Left' < Left
       /\ ApiCancelCheck \/ ApiCancelWrite => Left' = Left]_vars

LEMMA AheadIs ==
    /\ Ahead["claim"] = 19 /\ Ahead["load"] = 18 /\ Ahead["begin"] = 17
    /\ Ahead["setup"] = 16 /\ Ahead["top"] = 15 /\ Ahead["insert"] = 14
    /\ Ahead["bench"] = 13 /\ Ahead["benched"] = 12 /\ Ahead["save"] = 11
    /\ Ahead["judge"] = 10 /\ Ahead["mark"] = 9 /\ Ahead["propose"] = 8
    /\ Ahead["proposed"] = 7 /\ Ahead["record"] = 6 /\ Ahead["adopt"] = 5
    /\ Ahead["settle"] = 4 /\ Ahead["finish"] = 3 /\ Ahead["fail"] = 2
    /\ Ahead["ack"] = 1 /\ \A p \in Over : Ahead[p] = 0
    /\ \A p \in Places : Ahead[p] \in 0 .. 19
  BY DEF Ahead, Places, Over

(* Within an iteration the places only follow each other. *)
LEMMA PlacesFollow ==
    ASSUME Processor \/ DbFault, ~CreateCandidate, pc \in Places
    PROVE  no' = no /\ apiChecked' = apiChecked /\ Ahead[pc'] < Ahead[pc]
<1>1. CASE Claim \/ Load \/ AcknowledgeCancelled \/ Begin \/ SetUp \/ SetUpRaises
  BY <1>1, AheadIs
     DEF Claim, Load, AcknowledgeCancelled, Begin, SetUp, SetUpRaises, Over, locals
<1>2. CASE RefreshAtTop \/ InsertIteration \/ Benchmark \/ RefreshAfterBenchmark
  BY <1>2, AheadIs
     DEF RefreshAtTop, InsertIteration, Benchmark, BenchmarkReturns, BenchmarkRaises,
         RefreshAfterBenchmark, RefreshAfter, locals
<1>3. CASE SettleCancelled \/ SaveResults \/ Accept \/ Reject \/ MarkProposing
  BY <1>3, AheadIs
     DEF SettleCancelled, SaveResults, Accept, Reject, Conclude, MarkProposing, locals
<1>4. CASE Propose \/ RefreshAfterProposal \/ RecordProposal \/ StopUnchanged
  BY <1>4, AheadIs
     DEF Propose, ProposalReturns, ProposalRaises, RefreshAfterProposal, RefreshAfter,
         RecordProposal, StopUnchanged, locals
<1>5. CASE Finish \/ Fail \/ DbFault
  BY <1>5, AheadIs DEF Finish, Fail, DbFault, Statements, Reads, Over, locals
<1> QED  BY <1>1, <1>2, <1>3, <1>4, <1>5 DEF Processor

LEMMA StepIsShorter ==
    ASSUME IInv, Next
    PROVE  /\ Processor \/ DbFault => Left' < Left
           /\ ApiCancelCheck \/ ApiCancelWrite => Left' = Left
<1>1. no \in Nat /\ MaxIterations \in Nat /\ pc \in Places
  BY DEF IInv, TypeOK
<1>2. ASSUME Processor \/ DbFault PROVE Left' < Left /\ apiChecked' = apiChecked
  <2>1. CASE CreateCandidate
    <3>1. pc = "adopt" /\ pc' = "top" /\ no' = no + 1 /\ apiChecked' = apiChecked
      BY <2>1 DEF CreateCandidate
    <3>2. 20 * (MaxIterations - (no + 1)) + 15 < 20 * (MaxIterations - no) + 5
      BY <1>1
    <3>3. Left = 20 * (MaxIterations - no) + 5 /\ Left' = 20 * (MaxIterations - (no + 1)) + 15
      BY <3>1, AheadIs DEF Left
    <3> QED  BY <3>1, <3>2, <3>3
  <2>2. CASE ~CreateCandidate
    <3> DEFINE more == 20 * (MaxIterations - no)
               rank == Ahead[pc]
               next == Ahead[pc']
    <3>1. next < rank /\ Left = more + rank /\ Left' = more + next /\ apiChecked' = apiChecked
      BY <1>1, <1>2, <2>2, PlacesFollow DEF Left
    <3>2. more \in Int /\ rank \in Int
      BY <1>1, AheadIs
    <3>3. next \in Int
      <4>1. pc' \in Places
        BY StepKeepsIInv DEF IInv, TypeOK
      <4> QED  BY <4>1, AheadIs
    <3> HIDE DEF more, rank, next
    <3> QED  BY <3>1, <3>2, <3>3
  <2> QED  BY <2>1, <2>2
<1>3. ASSUME ApiCancelCheck \/ ApiCancelWrite
      PROVE  Left' = Left /\ apiChecked' # apiChecked
  BY <1>3 DEF ApiCancelCheck, ApiCancelWrite, locals, Left
<1> QED  BY <1>2, <1>3

(* A run makes at most 20 * (MaxIterations + 1) steps of its own, whatever it
   meets: it is never delayed by the cancel endpoint, retries nothing and returns
   to no place of an iteration. That it takes these steps is fairness's part. *)
THEOREM RunsAreBounded == Spec => [](Left \in 0 .. 20 * MaxIterations + 19) /\ RunsGetShorter
<1>1. IInv => Left \in 0 .. 20 * MaxIterations + 19
  <2> DEFINE more == MaxIterations - no
             rank == Ahead[pc]
  <2>1. ASSUME IInv PROVE Left = 20 * more + rank /\ more \in 0 .. MaxIterations /\ rank \in 0 .. 19
    <3>1. no \in 0 .. MaxIterations /\ pc \in Places
      BY <2>1 DEF IInv, TypeOK
    <3> QED  BY <3>1, AheadIs DEF Left
  <2> HIDE DEF more, rank
  <2> QED  BY <2>1
<1>2. IInv /\ [Next]_vars =>
        [/\ Processor \/ DbFault => Left' < Left
         /\ ApiCancelCheck \/ ApiCancelWrite => Left' = Left]_vars
  BY StepIsShorter
<1> QED  BY <1>1, <1>2, Invariance, PTL DEF Spec, RunsGetShorter
=============================================================================
