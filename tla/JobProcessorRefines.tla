-------------------------- MODULE JobProcessorRefines --------------------------
(* JobProcessor implements HillClimb: under the mapping HC, a judged iteration
   is one step of the hill climb, a change of the pending stop reason ends it,
   and everything else the processor and the cancel endpoint do is a stutter.
   It also does to a job nothing but what JobQueue lets a worker and a client
   do: under the mapping JQ, a run is claimed, loaded and set up, works, and
   notices the cancellation, finishes or aborts. So what is proved of the hill
   climb and of the queue is carried over to every run (HCP, JQP). *)
EXTENDS JobProcessorProofs

ScoreMap == [k \in IterNos |-> IF k \in Judged THEN iters[k].score ELSE NoScore]
Taken    == {k \in Judged : iters[k].accepted = "yes"}

USE JobLimits, ResultsType, DbFaultsType DEF IterNos, NoScore, NoVersion, NoIter

(* The judged history is untouched by a write that leaves the verdicts alone,
   and the scores of the iterations that have one. *)
LEMMA HistoryStays ==
    ASSUME job'.bestScore = job.bestScore,
           job.bestScore # NoScore =>
              \A k \in IterNos :
                  /\ iters'[k].accepted = iters[k].accepted
                  /\ iters[k].accepted # "unjudged" => iters'[k].score = iters[k].score
    PROVE  ScoreMap' = ScoreMap /\ Taken' = Taken
<1>1. Judged' = Judged  BY DEF Judged
<1>2. \A k \in Judged : iters'[k].accepted = iters[k].accepted
                        /\ iters'[k].score = iters[k].score
  BY DEF Judged
<1>3. ScoreMap' = ScoreMap  BY <1>1, <1>2 DEF ScoreMap
<1>4. Taken' = Taken  BY <1>1, <1>2 DEF Taken
<1>5. QED  BY <1>3, <1>4

(* The iteration rows after a step that is no verdict. *)
LEMMA VerdictsStay ==
    ASSUME IInv, Next, ~Accept, ~Reject, job.bestScore # NoScore, NEW k \in IterNos
    PROVE  /\ iters'[k].accepted = iters[k].accepted
           /\ iters[k].accepted # "unjudged" => iters'[k].score = iters[k].score
<1>1. no \in IterNos /\ iters \in [IterNos -> IterRow]  BY DEF IInv, TypeOK
<1>2. CASE UNCHANGED iters  BY <1>2
<1>3. CASE SettleCancelled \/ MarkProposing \/ RecordProposal \/ StopUnchanged
           \/ CreateCandidate
  <2>1. \/ iters' = [iters EXCEPT ![no] = [iters[no] EXCEPT !.phase = "failed"]]
        \/ iters' = [iters EXCEPT ![no] = [iters[no] EXCEPT !.phase = "proposing"]]
        \/ iters' = [iters EXCEPT ![no] = [iters[no] EXCEPT !.optimized = TRUE]]
        \/ iters' = [iters EXCEPT ![no] = [iters[no] EXCEPT !.phase = "done"]]
    BY <1>1, <1>3 DEF SettleCancelled, MarkProposing, RecordProposal, StopUnchanged,
                      CreateCandidate, IterRow
  <2>2. QED  BY <1>1, <2>1 DEF IterRow
<1>4. CASE InsertIteration
  <2>1. no > 0 /\ iters[no].accepted = "unjudged"
    BY <1>4 DEF InsertIteration, IInv, TypeOK, BestInv, PresentInv, Before, Unjudged
  <2>2. /\ iters'[no].accepted = "unjudged"
        /\ k # no => iters'[k] = iters[k]
    BY <1>1, <1>4, <2>1 DEF InsertIteration
  <2>3. QED  BY <2>1, <2>2
<1>5. CASE SaveResults
  <2> DEFINE r == [iters[no] EXCEPT !.score = result.score, !.phase = "done"]
  <2>1. iters[no].accepted = "unjudged"
    BY <1>5 DEF SaveResults, IInv, TypeOK, BestInv, PresentInv, Before, Unjudged
  <2>2. iters' = [iters EXCEPT ![no] = r] /\ r.accepted = iters[no].accepted
    BY <1>1, <1>5 DEF SaveResults, IterRow
  <2> HIDE DEF r
  <2>3. QED  BY <1>1, <2>1, <2>2
<1>6. QED
  BY <1>2, <1>3, <1>4, <1>5
     DEF Next, Processor, Claim, Load, AcknowledgeCancelled, Begin, SetUp, SetUpRaises,
         RefreshAtTop, Benchmark, BenchmarkReturns, BenchmarkRaises,
         RefreshAfterBenchmark, RefreshAfterProposal, RefreshAfter, Propose,
         ProposalReturns, ProposalRaises, Finish, Fail, DbFault, ApiCancelCheck,
         ApiCancelWrite, rows

(* The pending stop reason after a step that is no verdict: it changes once,
   from none. *)
LEMMA StopIsSetOnce ==
    ASSUME IInv, Next, ~Accept, ~Reject
    PROVE  \/ mem'.stop = mem.stop
           \/ /\ mem.stop = "none"
              /\ mem'.stop \in {"no_improvement", "cancelled", "error"}
              /\ mem'.stop = "no_improvement" => job.bestVersion # NoVersion
<1>1. mem \in JobRow /\ job \in JobRow  BY DEF IInv, TypeOK
<1>2. CASE UNCHANGED mem  BY <1>2
<1>3. CASE Load \/ RefreshAtTop \/ RefreshAfterBenchmark \/ RefreshAfterProposal
  <2>1. mem.stop = "none" /\ job.stop \in {"none", "cancelled"}
    BY <1>3 DEF Load, RefreshAtTop, RefreshAfterBenchmark, RefreshAfterProposal, RefreshAfter,
                IInv, CopyInv, RowInv, Running, Unjudged, JudgedHere, Ending, NewJob
  <2>2. mem' = job \/ mem' = MarkCancelled(job)
    BY <1>3 DEF Load, RefreshAtTop, RefreshAfterBenchmark, RefreshAfterProposal,
                RefreshAfter, Refresh
  <2>3. QED  BY <1>1, <2>1, <2>2, MarkIsRow
<1>4. CASE AcknowledgeCancelled \/ SettleCancelled
  <2>1. mem.stop = "cancelled"
    BY <1>4 DEF AcknowledgeCancelled, SettleCancelled, IInv, CopyInv
  <2>2. mem'.stop = "cancelled"
    BY <1>1, <1>4, <2>1, MarkIsRow DEF AcknowledgeCancelled, SettleCancelled, Commit, JobRow
  <2>3. QED  BY <2>1, <2>2
<1>5. CASE Begin
  BY <1>1, <1>5 DEF Begin, Commit, JobRow
<1>6. CASE Finish
  BY <1>1, <1>6 DEF Finish, Commit, JobRow
<1>7. CASE Fail
  BY <1>1, <1>7 DEF Fail, Commit, JobRow, IInv, CopyInv, Running
<1>8. CASE StopUnchanged
  <2>1. mem.stop = "none" /\ mem'.stop = "no_improvement"
    BY <1>1, <1>8 DEF StopUnchanged, Commit, JobRow, IInv, CopyInv, Running, JudgedHere
  <2>2. job.bestVersion # NoVersion
    BY <1>8 DEF StopUnchanged, IInv, TypeOK, BestInv, JudgedHere
  <2>3. QED  BY <2>1, <2>2
<1>9. QED
  BY <1>2, <1>3, <1>4, <1>5, <1>6, <1>7, <1>8
     DEF Next, Processor, Claim, SetUp, SetUpRaises, InsertIteration, Benchmark,
         BenchmarkReturns, BenchmarkRaises, SaveResults, MarkProposing, Propose,
         ProposalReturns, ProposalRaises, RecordProposal, CreateCandidate, DbFault,
         ApiCancelCheck, ApiCancelWrite, Commit, orm

(* A step that is no verdict leaves the hill climb where it is or halts it. *)
LEMMA OtherStepsHaltOrStutter ==
    ASSUME IInv, Next, ~Accept, ~Reject
    PROVE  [HC!Next]_(HC!vars)
<1>1. IInv'  BY StepKeepsIInv
<1>2. UNCHANGED <<bestScore, bestVersion, noImprove>>
  BY DEF Next, Processor, Claim, Load, AcknowledgeCancelled, Begin, SetUp, SetUpRaises,
         RefreshAtTop, InsertIteration, Benchmark, BenchmarkReturns, BenchmarkRaises,
         RefreshAfterBenchmark, RefreshAfterProposal, RefreshAfter, SettleCancelled,
         SaveResults, MarkProposing, Propose, ProposalReturns, ProposalRaises,
         RecordProposal, StopUnchanged, CreateCandidate, Finish, Fail, DbFault,
         ApiCancelCheck, ApiCancelWrite, locals
<1>3. job'.bestScore = job.bestScore /\ job'.bestVersion = job.bestVersion
  BY <1>1, <1>2 DEF IInv, BestInv
<1>4. ScoreMap' = ScoreMap /\ Taken' = Taken
  BY <1>3, VerdictsStay, HistoryStays
<1>5. CASE mem'.stop = mem.stop
  BY <1>2, <1>3, <1>4, <1>5 DEF HC!vars, ScoreMap, Taken
<1>6. CASE /\ mem.stop = "none"
           /\ mem'.stop \in {"no_improvement", "cancelled", "error"}
           /\ mem'.stop = "no_improvement" => job.bestVersion # NoVersion
  <2>1. HC!Halt(mem'.stop)
    BY <1>2, <1>3, <1>4, <1>6 DEF HC!Halt, HC!NoIter, ScoreMap, Taken
  <2>2. QED  BY <1>6, <2>1 DEF HC!Next
<1>7. QED  BY <1>5, <1>6, StopIsSetOnce

(* The iteration being judged is the first one the hill climb has no score of. *)
LEMMA JudgesTheNext ==
    ASSUME IInv, pc = "judge"
    PROVE  /\ ScoreMap[no] = NoScore
           /\ \A j \in 0 .. no - 1 : ScoreMap[j] # NoScore
           /\ mem.stop = "none"
           /\ job.bestVersion = NoVersion <=> bestScore = NoScore
           /\ bestScore # NoScore => ScoreMap[job.bestVersion] = bestScore
<1>1. no \in IterNos  BY DEF IInv, TypeOK
<1>2. ScoreMap[no] = NoScore
  BY <1>1 DEF ScoreMap, Judged, IInv, TypeOK, BestInv, PresentInv, Before, Unjudged
<1>3. ASSUME NEW j \in 0 .. no - 1 PROVE ScoreMap[j] # NoScore
  <2>1. j \in IterNos /\ j < no  BY <1>1
  <2>2. Complete(j)  BY <2>1 DEF IInv, PastInv
  <2>3. job.bestScore # NoScore  BY <1>1, <2>1 DEF IInv, BestInv
  <2>4. QED  BY <2>1, <2>2, <2>3 DEF ScoreMap, Judged, Complete
<1>4. mem.stop = "none"  BY DEF IInv, CopyInv, Running, Unjudged
<1>5. job.bestVersion = NoVersion <=> bestScore = NoScore
  BY DEF IInv, TypeOK, BestInv
<1>6. bestScore # NoScore => ScoreMap[job.bestVersion] = bestScore
  BY DEF IInv, TypeOK, BestInv, ScoreMap, Judged
<1>7. QED  BY <1>2, <1>3, <1>4, <1>5, <1>6

(* What a verdict v on the current iteration makes of the judged history. *)
LEMMA HistoryGrows ==
    ASSUME IInv, pc = "judge", NEW v \in {"yes", "no"},
           iters' = [iters EXCEPT ![no] = [iters[no] EXCEPT !.accepted = v]],
           job'.bestScore # NoScore
    PROVE  /\ ScoreMap' = [ScoreMap EXCEPT ![no] = result.score]
           /\ Taken' = IF v = "yes" THEN Taken \cup {no} ELSE Taken
<1> DEFINE r == [iters[no] EXCEPT !.accepted = v]
<1>1. no \in IterNos /\ iters[no] \in IterRow /\ iters \in [IterNos -> IterRow]
  BY DEF IInv, TypeOK
<1>2. iters' = [iters EXCEPT ![no] = r]  OBVIOUS
<1>3. r.accepted = v /\ r.score = result.score
  BY <1>1 DEF IterRow, IInv, PresentInv
<1> HIDE DEF r
<1>4. iters'[no] = r /\ \A k \in IterNos : k # no => iters'[k] = iters[k]
  BY <1>1, <1>2
<1>5. no \notin Judged /\ \A k \in Judged : k # no
  BY DEF Judged, IInv, TypeOK, BestInv, PresentInv, Before, Unjudged
<1>6. \A k \in IterNos : k # no /\ iters[k].accepted # "unjudged" => k \in Judged
  <2>1. ASSUME NEW k \in IterNos, k # no, iters[k].accepted # "unjudged"
        PROVE  k \in Judged
    <3>1. k < no  BY <1>1, <2>1 DEF IInv, FutureInv, NoRow
    <3>2. bestScore # NoScore  BY <1>1, <3>1 DEF IInv, BestInv
    <3>3. QED  BY <2>1, <3>2 DEF Judged, IInv, BestInv
  <2>2. QED  BY <2>1
<1>7. Judged' = Judged \cup {no}
  <2>1. ASSUME NEW k \in Judged' PROVE k \in Judged \cup {no}
    BY <1>4, <1>6, <2>1 DEF Judged
  <2>2. ASSUME NEW k \in Judged \cup {no} PROVE k \in Judged'
    <3>1. k \in IterNos  BY <1>1 DEF Judged
    <3>2. iters'[k].accepted # "unjudged"  BY <1>3, <1>4, <3>1, <2>2 DEF Judged
    <3>3. QED  BY <3>1, <3>2 DEF Judged
  <2>3. QED  BY <2>1, <2>2
<1>8. ScoreMap' = [ScoreMap EXCEPT ![no] = result.score]
  BY <1>1, <1>3, <1>4, <1>5, <1>7 DEF ScoreMap, Judged
<1>9. Taken' = IF v = "yes" THEN Taken \cup {no} ELSE Taken
  BY <1>1, <1>3, <1>4, <1>5, <1>7 DEF Taken, Judged
<1>10. QED  BY <1>8, <1>9

(* A verdict is one step of the hill climb. *)
LEMMA VerdictIsJudge ==
    ASSUME IInv, Accept \/ Reject
    PROVE  HC!Next
<1>1. pc = "judge" /\ no \in IterNos /\ result \in Outcomes /\ result.score \in Nat
      /\ iters[no] \in IterRow /\ mem \in JobRow
  BY DEF Accept, Reject, IInv, TypeOK, CountInv
<1>2. Next  BY DEF Next, Processor
<1>3. IInv'  BY <1>2, StepKeepsIInv
<1>4. HC!Improves(result.score) <=> Improved
  BY <1>1, JudgesTheNext DEF HC!Improves, HC!NoIter, Improved, ScoreMap
<1>5. HC!Verdict(no, noImprove', result) = Verdict(noImprove')
  BY DEF HC!Verdict, Verdict
<1>6. mem'.stop = Verdict(noImprove')
  <2>1. PICK m \in JobRow : m.stop = "none" /\ Conclude(m)
    BY <1>1, JudgesTheNext DEF Accept, Reject, WithBest, RunVersion, IInv, CountInv, JobRow
  <2>2. QED  BY <2>1 DEF Conclude, JobRow
<1>7. HC!IsNext(no) /\ mem.stop = "none"
  BY <1>1, JudgesTheNext DEF HC!IsNext, HC!NoScore, ScoreMap
<1>8. ASSUME HC!Judge(no, result) PROVE HC!Next
  <2>1. no \in HC!IterNos  BY <1>1 DEF HC!IterNos
  <2>2. \E k \in HC!IterNos, o \in Outcomes : HC!Judge(k, o)
    BY <1>1, <1>8, <2>1
       DEF HC!Judge, HC!Accept, HC!Reject, HC!IsNext, HC!Improves, HC!Verdict
  <2>3. QED  BY <2>2 DEF HC!Next
<1>9. CASE Accept
  <2>1. /\ Improved /\ bestScore' = result.score /\ bestVersion' = no /\ noImprove' = 0
    BY <1>1, <1>9 DEF Accept, RunVersion, IInv, CountInv
  <2>2. job'.bestScore # NoScore /\ job'.bestVersion = no
    BY <1>1, <1>3, <2>1 DEF IInv, BestInv
  <2>3. iters' = [iters EXCEPT ![no] = [iters[no] EXCEPT !.accepted = "yes"]]
    BY <1>1, <1>9 DEF Accept, IterRow
  <2>4. ScoreMap' = [ScoreMap EXCEPT ![no] = result.score] /\ Taken' = Taken \cup {no}
    BY <1>1, <2>2, <2>3, HistoryGrows
  <2>5. HC!Accept(no, result)
    BY <1>4, <2>1, <2>2, <2>4 DEF HC!Accept, Taken
  <2>6. HC!Judge(no, result)
    BY <1>5, <1>6, <1>7, <2>4, <2>5 DEF HC!Judge, ScoreMap
  <2>7. QED  BY <1>8, <2>6
<1>10. CASE Reject
  <2>1. /\ ~Improved /\ noImprove' = noImprove + 1
        /\ bestScore' = bestScore /\ bestVersion' = bestVersion
    BY <1>10 DEF Reject
  <2>2. job'.bestScore # NoScore /\ job'.bestVersion = job.bestVersion
    BY <1>1, <1>3, <2>1 DEF IInv, BestInv, Improved
  <2>3. iters' = [iters EXCEPT ![no] = [iters[no] EXCEPT !.accepted = "no"]]
    BY <1>1, <1>10 DEF Reject, IterRow
  <2>4. ScoreMap' = [ScoreMap EXCEPT ![no] = result.score] /\ Taken' = Taken
    BY <1>1, <2>2, <2>3, HistoryGrows
  <2>5. HC!Reject(no, result)
    BY <1>4, <2>1, <2>2, <2>4 DEF HC!Reject, Taken
  <2>6. HC!Judge(no, result)
    BY <1>5, <1>6, <1>7, <2>4, <2>5 DEF HC!Judge, ScoreMap
  <2>7. QED  BY <1>8, <2>6
<1>11. QED  BY <1>9, <1>10

(* The processor implements the hill climb, for every limit, every sequence of
   results and every schedule of cancellations, exceptions and failed writes. *)
THEOREM Refinement == Spec => ImplementsHillClimb
<1>1. Init => HC!Init
  <2>1. ASSUME Init PROVE HC!Init
    <3>1. job.bestScore = NoScore /\ job.bestVersion = NoVersion /\ mem.stop = "none"
          /\ noImprove = 0
      BY <2>1 DEF Init, NewJob
    <3>2. Judged = {}  BY <3>1 DEF Judged
    <3>3. QED  BY <3>1, <3>2 DEF HC!Init, HC!IterNos, HC!NoScore, HC!NoIter
  <2>2. QED  BY <2>1
<1>2. IInv /\ [Next]_vars => [HC!Next]_(HC!vars)
  <2>1. SUFFICES ASSUME IInv, [Next]_vars PROVE [HC!Next]_(HC!vars)  OBVIOUS
  <2>2. CASE UNCHANGED vars
    BY <2>2 DEF vars, HC!vars, Judged
  <2>3. CASE Accept \/ Reject  BY <2>1, <2>3, VerdictIsJudge
  <2>4. CASE Next /\ ~Accept /\ ~Reject  BY <2>1, <2>4, OtherStepsHaltOrStutter
  <2>5. QED  BY <2>1, <2>2, <2>3, <2>4
<1>3. QED  BY <1>1, <1>2, Invariance, PTL DEF Spec, ImplementsHillClimb, HC!Spec

-----------------------------------------------------------------------------
(* What is proved of the hill climb, of the rows of a run. *)
HCP == INSTANCE HillClimbProofs WITH
          score    <- ScoreMap,
          accepted <- Taken,
          best     <- job.bestVersion,
          misses   <- noImprove,
          stop     <- mem.stop

(* HC and HCP reach the same definitions, through HillClimb and its proofs. *)
LEMMA SameClimb ==
    /\ HC!Init => HCP!Init
    /\ [HC!Next]_(HC!vars) => [HCP!Next]_(HCP!vars)
<1> USE DEF ScoreMap, Taken, HC!IterNos, HCP!IterNos, HC!NoScore, HCP!NoScore,
            HC!NoIter, HCP!NoIter
<1>1. HC!Init => HCP!Init
  BY DEF HC!Init, HCP!Init
<1>2. [HC!Next]_(HC!vars) => [HCP!Next]_(HCP!vars)
  BY DEF HC!Next, HCP!Next, HC!vars, HCP!vars, HC!Judge, HCP!Judge, HC!Halt, HCP!Halt,
         HC!IsNext, HCP!IsNext, HC!Accept, HCP!Accept, HC!Reject, HCP!Reject,
         HC!Improves, HCP!Improves, HC!Verdict, HCP!Verdict
<1> QED  BY <1>1, <1>2

(* So do the promises. *)
LEMMA SamePromises ==
    /\ HCP!AcceptedAreRecords => HC!AcceptedAreRecords
    /\ HCP!BestIsFirstMaximum => HC!BestIsFirstMaximum
    /\ HCP!MissesCountSinceBest => HC!MissesCountSinceBest
<1> USE DEF ScoreMap, Taken, HC!Judged, HCP!Judged, HC!IterNos, HCP!IterNos,
            HC!NoScore, HCP!NoScore, HC!NoIter, HCP!NoIter
<1>1. HCP!AcceptedAreRecords => HC!AcceptedAreRecords
  BY DEF HC!AcceptedAreRecords, HCP!AcceptedAreRecords
<1>2. HCP!BestIsFirstMaximum => HC!BestIsFirstMaximum
  BY DEF HC!BestIsFirstMaximum, HCP!BestIsFirstMaximum
<1>3. HCP!MissesCountSinceBest => HC!MissesCountSinceBest
  BY DEF HC!MissesCountSinceBest, HCP!MissesCountSinceBest
<1> QED  BY <1>1, <1>2, <1>3

(* The promises of the hill climb hold of the rows of every run, whenever it is
   cancelled, fails or loses its session: the accepted iterations are the strict
   records, the job's best version is the first maximum, and no_improve counts
   the iterations since. *)
THEOREM RunsClimb ==
    Spec => [](HC!AcceptedAreRecords /\ HC!BestIsFirstMaximum /\ HC!MissesCountSinceBest)
<1>1. HCP!Spec => [](HCP!AcceptedAreRecords /\ HCP!BestIsFirstMaximum
                     /\ HCP!MissesCountSinceBest)
  BY JobLimits, ResultsType, HCP!AcceptanceIsStrictImprovement, HCP!BestIsRight,
     HCP!MissesAreRight, PTL
<1> QED
  BY <1>1, SameClimb, SamePromises, Refinement, PTL DEF ImplementsHillClimb, HC!Spec, HCP!Spec

-----------------------------------------------------------------------------
(* The queue's view of a run. *)

(* Version 0 is stored by the step that ends the set-up, and the loop ends with
   a copy that is running or cancelled. *)
QueueInv ==
    /\ pc \in Before => ~versions[0].stored
    /\ pc \notin Before \cup Over \cup {"fail"} => versions[0].stored
    /\ pc = "finish" => mem.status \in {"running", "cancelled"}

Lost == IF pc = "aborted" /\ mem.status # "cancelled" THEN {1} ELSE {}

LEMMA QueueInvInit == Init => QueueInv
  BY DEF Init, QueueInv, NotStored, Before, Over

(* No step removes a version, and none but SetUp stores version 0. *)
LEMMA VersionZero ==
    ASSUME IInv, Next
    PROVE  /\ ~SetUp => versions'[0].stored = versions[0].stored
           /\ SetUp => versions'[0].stored
<1>1. versions \in [IterNos -> VerRow] /\ 0 \in IterNos
  BY DEF IInv, TypeOK
<1>2. CASE SetUp
  <2>1. versions' = [versions EXCEPT ![0] = [versions[0] EXCEPT !.stored = TRUE]]
    BY <1>1, <1>2 DEF SetUp
  <2>2. versions'[0] = [versions[0] EXCEPT !.stored = TRUE] /\ versions[0] \in VerRow
    BY <1>1, <2>1
  <2> QED  BY <1>2, <2>2 DEF VerRow
<1>3. CASE CreateCandidate
  <2>1. nextVersion # 0 /\ versions' = [versions EXCEPT ![nextVersion] = Proposal]
    BY <1>3 DEF CreateCandidate, IInv, TypeOK, CountInv
  <2>2. versions'[0] = versions[0]
    BY <1>1, <2>1
  <2> QED  BY <1>3, <2>2 DEF SetUp, CreateCandidate
<1>4. CASE ~SetUp /\ ~CreateCandidate
  <2>1. UNCHANGED versions
    BY <1>4
       DEF Next, Processor, Claim, Load, AcknowledgeCancelled, Begin, SetUpRaises,
           RefreshAtTop, InsertIteration, Benchmark, BenchmarkReturns, BenchmarkRaises,
           RefreshAfterBenchmark, RefreshAfterProposal, RefreshAfter, SettleCancelled,
           SaveResults, Accept, Reject, MarkProposing, Propose, ProposalReturns,
           ProposalRaises, RecordProposal, StopUnchanged, Finish, Fail, DbFault,
           ApiCancelCheck, ApiCancelWrite, rows
  <2> QED  BY <1>4, <2>1
<1> QED  BY <1>2, <1>3, <1>4

LEMMA QueueInvStep ==
    ASSUME IInv, QueueInv, Next
    PROVE  QueueInv'
<1>1. IInv'
  BY StepKeepsIInv
<1>2. pc' \in Before => pc \in Before /\ ~SetUp
  BY DEF Next, Processor, Claim, Load, AcknowledgeCancelled, Begin, SetUp, SetUpRaises,
         RefreshAtTop, InsertIteration, Benchmark, BenchmarkReturns, BenchmarkRaises,
         RefreshAfterBenchmark, RefreshAfterProposal, RefreshAfter, SettleCancelled,
         SaveResults, Accept, Reject, Conclude, MarkProposing, Propose, ProposalReturns,
         ProposalRaises, RecordProposal, StopUnchanged, CreateCandidate, Finish, Fail,
         DbFault, ApiCancelCheck, ApiCancelWrite, Before, Over
<1>3. pc' \notin Before \cup Over \cup {"fail"} =>
        SetUp \/ pc \notin Before \cup Over \cup {"fail"}
  BY DEF Next, Processor, Claim, Load, AcknowledgeCancelled, Begin, SetUp, SetUpRaises,
         RefreshAtTop, InsertIteration, Benchmark, BenchmarkReturns, BenchmarkRaises,
         RefreshAfterBenchmark, RefreshAfterProposal, RefreshAfter, SettleCancelled,
         SaveResults, Accept, Reject, Conclude, MarkProposing, Propose, ProposalReturns,
         ProposalRaises, RecordProposal, StopUnchanged, CreateCandidate, Finish, Fail,
         DbFault, ApiCancelCheck, ApiCancelWrite, Before, Over
<1>4. pc' = "finish" => mem'.status \in {"running", "cancelled"}
  <2>1. mem \in JobRow /\ job \in JobRow
    BY DEF IInv, TypeOK
  <2>2. CASE RefreshAtTop
    BY <2>1, <2>2, MarkIsRow DEF RefreshAtTop, SeesCancelled
  <2>3. CASE SettleCancelled
    BY <2>1, <2>3, MarkIsRow DEF SettleCancelled, Commit, IInv, CopyInv
  <2>4. CASE Accept \/ Reject
    <3>1. mem.status = "running"
      BY <2>4 DEF Accept, Reject, IInv, CopyInv, Running, Unjudged
    <3>2. PICK m \in JobRow : m.status = "running" /\ Conclude(m)
      BY <2>1, <2>4, <3>1
         DEF Accept, Reject, WithBest, RunVersion, IInv, TypeOK, CountInv, JobRow
    <3> QED  BY <3>2 DEF Conclude, JobRow
  <2>5. CASE StopUnchanged
    BY <2>1, <2>5 DEF StopUnchanged, Commit, JobRow, IInv, CopyInv, Running, JudgedHere
  <2>6. CASE ~RefreshAtTop /\ ~SettleCancelled /\ ~Accept /\ ~Reject /\ ~StopUnchanged
    <3>1. pc' = "finish" => pc = "finish" /\ UNCHANGED mem
      BY <2>6
         DEF Next, Processor, Claim, Load, AcknowledgeCancelled, Begin, SetUp, SetUpRaises,
             InsertIteration, Benchmark, BenchmarkReturns, BenchmarkRaises,
             RefreshAfterBenchmark, RefreshAfterProposal, RefreshAfter, SaveResults,
             MarkProposing, Propose, ProposalReturns, ProposalRaises, RecordProposal,
             CreateCandidate, Finish, Fail, DbFault, ApiCancelCheck, ApiCancelWrite, orm
    <3> QED  BY <3>1 DEF QueueInv
  <2> QED  BY <2>2, <2>3, <2>4, <2>5, <2>6
<1> QED  BY <1>2, <1>3, <1>4, VersionZero DEF QueueInv

(* What a step does for the queue. *)
LEMMA NothingInTheQueue ==
    ASSUME job'.status = job.status, Stage' = Stage, Lost' = Lost,
           versions'[0].stored = versions[0].stored, apiChecked' = apiChecked
    PROVE  UNCHANGED JQ!vars
  BY DEF JQ!vars, Lost

LEMMA ClaimInTheQueue ==
    ASSUME Stage = "update", Stage' = "load", Lost' = Lost,
           job'.status = IF job.status = "queued" THEN "running" ELSE job.status,
           versions'[0].stored = versions[0].stored, apiChecked' = apiChecked
    PROVE  JQ!Next
<1>1. "worker" \in Worker
  BY DEF Worker
<1>2. JQ!Update("worker")
  BY <1>1 DEF JQ!Update, JQ!Goto, JQ!Claimed, Lost, Worker
<1> QED  BY <1>1, <1>2 DEF JQ!Next, JQ!Task

LEMMA LoadInTheQueue ==
    ASSUME Stage = "load", Lost' = Lost, job'.status = job.status,
           versions'[0].stored = versions[0].stored, apiChecked' = apiChecked,
           \/ job.status = "running" /\ Stage' = "setup"
           \/ job.status = "cancelled" /\ Stage' = "claim"
    PROVE  JQ!Next
<1>1. "worker" \in Worker
  BY DEF Worker
<1>2. JQ!Load("worker")
  BY <1>1 DEF JQ!Load, JQ!Goto, JQ!Drop, JQ!NoJob, Lost, Worker
<1> QED  BY <1>1, <1>2 DEF JQ!Next, JQ!Task

LEMMA SetUpInTheQueue ==
    ASSUME Stage = "setup", Stage' = "working", Lost' = Lost, job'.status = job.status,
           ~versions[0].stored, versions'[0].stored, apiChecked' = apiChecked
    PROVE  JQ!Next
<1>1. "worker" \in Worker
  BY DEF Worker
<1>2. JQ!SetUp("worker")
  BY <1>1 DEF JQ!SetUp, JQ!Goto, Lost, Worker
<1> QED  BY <1>1, <1>2 DEF JQ!Next, JQ!Task

LEMMA NoticeInTheQueue ==
    ASSUME Stage = "working", Stage' = "claim", Lost' = Lost,
           job.status = "cancelled", job'.status = job.status,
           versions'[0].stored = versions[0].stored, apiChecked' = apiChecked
    PROVE  JQ!Next
<1>1. "worker" \in Worker
  BY DEF Worker
<1>2. JQ!Notice("worker")
  BY <1>1 DEF JQ!Notice, JQ!Goto, JQ!Drop, JQ!NoJob, Lost, Worker
<1> QED  BY <1>1, <1>2 DEF JQ!Next, JQ!Task

LEMMA FinishInTheQueue ==
    ASSUME Stage \in {"setup", "working"}, Stage' = "claim", Lost' = Lost,
           job'.status \in IF Stage = "setup" THEN {"failed"} ELSE {"completed", "failed"},
           versions'[0].stored = versions[0].stored, apiChecked' = apiChecked
    PROVE  JQ!Next
<1>1. "worker" \in Worker
  BY DEF Worker
<1>2. JQ!Finish("worker")
  BY <1>1 DEF JQ!Finish, JQ!Goto, JQ!Drop, JQ!NoJob, Lost, Worker
<1> QED  BY <1>1, <1>2 DEF JQ!Next, JQ!Task

LEMMA AbortInTheQueue ==
    ASSUME DbFaults, Stage \in {"load", "setup", "working"}, Stage' = "claim",
           Lost = {}, Lost' = {1}, job'.status = job.status,
           versions'[0].stored = versions[0].stored, apiChecked' = apiChecked
    PROVE  JQ!Next
<1>1. "worker" \in Worker
  BY DEF Worker
<1>2. JQ!RunAborts("worker")
  <2>1. Lost' = Lost \cup {1}
    OBVIOUS
  <2>2. JQ!CutOff("worker")
    BY <1>1, <2>1 DEF JQ!CutOff, JQ!NoJob, Lost
  <2>3. JQ!Drop("worker", "claim")
    BY <1>1 DEF JQ!Goto, JQ!Drop, JQ!NoJob, Worker
  <2> QED  BY <1>1, <2>2, <2>3 DEF JQ!RunAborts
<1> QED  BY <1>1, <1>2 DEF JQ!Next

LEMMA CancelInTheQueue ==
    ASSUME Stage' = Stage, Lost' = Lost, versions'[0].stored = versions[0].stored,
           \/ /\ ~apiChecked /\ apiChecked'
              /\ job.status \in {"queued", "running"} /\ job'.status = job.status
           \/ apiChecked /\ ~apiChecked' /\ job'.status = "cancelled"
    PROVE  JQ!Next
<1>1. 1 \in JQ!Jobs
  BY DEF JQ!Jobs
<1>2. JQ!CancelCheck(1) \/ JQ!CancelWrite(1)
  BY DEF JQ!CancelCheck, JQ!CancelWrite, JQ!worker, Lost
<1> QED  BY <1>1, <1>2 DEF JQ!Next

(* Where the worker is, before a step and after it. *)
InLoop == Unjudged \cup JudgedHere

LEMMA StageIs ==
    ASSUME IInv, QueueInv
    PROVE  /\ pc \in {"begin", "setup"} => Stage = "setup"
           /\ pc \in InLoop => Stage = "working"
           /\ pc = "fail" => Stage \in {"setup", "working"}
           /\ pc = "finish" => Stage = IF mem.status = "running" THEN "working" ELSE "claim"
           /\ pc \in Over \cup {"ack", "settle"} => Stage = "claim"
  BY DEF IInv, CopyInv, QueueInv, Stage, InLoop, Unjudged, JudgedHere, Running, Before, Over

LEMMA NextStageIs ==
    ASSUME IInv', QueueInv'
    PROVE  /\ pc' \in {"begin", "setup"} => Stage' = "setup"
           /\ pc' \in InLoop => Stage' = "working"
           /\ pc' = "fail" => Stage' \in {"setup", "working"}
           /\ pc' = "finish" => Stage' = IF mem'.status = "running" THEN "working" ELSE "claim"
           /\ pc' \in Over \cup {"ack", "settle"} => Stage' = "claim"
  BY DEF IInv, CopyInv, QueueInv, Stage, InLoop, Unjudged, JudgedHere, Running, Before, Over

(* The steps of a run up to the loop. *)
LEMMA EarlyStep ==
    ASSUME IInv, QueueInv, IInv', QueueInv', Next,
           Claim \/ Load \/ AcknowledgeCancelled \/ Begin \/ SetUp \/ SetUpRaises
    PROVE  [JQ!Next]_(JQ!vars)
<1>0. /\ mem \in JobRow /\ job \in JobRow /\ apiChecked' = apiChecked
      /\ ~SetUp => versions'[0].stored = versions[0].stored
      /\ SetUp => versions'[0].stored
  BY VersionZero
     DEF IInv, TypeOK, Claim, Load, AcknowledgeCancelled, Begin, SetUp, SetUpRaises
<1>1. Lost' = Lost
  BY DEF Lost, Claim, Load, AcknowledgeCancelled, Begin, SetUp, SetUpRaises
<1>2. CASE Claim
  <2>1. job'.status = IF job.status = "queued" THEN "running" ELSE job.status
    BY <1>0, <1>2 DEF Claim, JobRow
  <2>2. Stage = "update" /\ Stage' = "load" /\ ~SetUp
    BY <1>2 DEF Claim, SetUp, Stage
  <2> QED  BY <1>0, <1>1, <2>1, <2>2, ClaimInTheQueue
<1>3. CASE Load
  <2>1. job' = job /\ Stage = "load" /\ ~SetUp
    BY <1>3 DEF Load, Refresh, SetUp, Stage
  <2>2. \/ job.status = "running" /\ pc' = "begin"
        \/ job.status = "cancelled" /\ pc' = "ack"
    BY <1>3 DEF Load, IInv, RowInv, Ending
  <2>3. \/ job.status = "running" /\ Stage' = "setup"
        \/ job.status = "cancelled" /\ Stage' = "claim"
    BY <2>2, NextStageIs
  <2> QED  BY <1>0, <1>1, <2>1, <2>3, LoadInTheQueue
<1>4. CASE AcknowledgeCancelled
  <2>1. PICK m \in JobRow : m.status = mem.status /\ job' = Flush(m)
    BY <1>0, <1>4 DEF AcknowledgeCancelled, Commit, JobRow, StopReason
  <2>2. job'.status = job.status
    BY <2>1, StatusStays
  <2>3. Stage = "claim" /\ Stage' = "claim" /\ ~SetUp
    BY <1>4, StageIs, NextStageIs DEF AcknowledgeCancelled, SetUp, Over
  <2> QED  BY <1>0, <1>1, <2>2, <2>3, NothingInTheQueue
<1>5. CASE Begin
  <2>1. PICK m \in JobRow : m.status = mem.status /\ job' = Flush(m)
    BY <1>0, <1>5 DEF Begin, Commit, JobRow, IInv, CopyInv, Running
  <2>2. job'.status = job.status
    BY <2>1, StatusStays
  <2>3. Stage = "setup" /\ Stage' = "setup" /\ ~SetUp
    BY <1>5, StageIs, NextStageIs DEF Begin, SetUp
  <2> QED  BY <1>0, <1>1, <2>2, <2>3, NothingInTheQueue
<1>6. CASE SetUp
  <2>1. job' = job /\ ~versions[0].stored
    BY <1>6 DEF SetUp, QueueInv, Before
  <2>2. Stage = "setup" /\ Stage' = "working"
    BY <1>6, StageIs, NextStageIs DEF SetUp, InLoop, Unjudged
  <2> QED  BY <1>0, <1>1, <1>6, <2>1, <2>2, SetUpInTheQueue
<1>7. CASE SetUpRaises
  <2>1. job' = job /\ ~SetUp /\ Stage = "setup" /\ Stage' = "setup"
    BY <1>7, StageIs
       DEF SetUpRaises, SetUp, rows, orm, Stage, Over, IInv, CopyInv, Running, QueueInv, Before
  <2> QED  BY <1>0, <1>1, <2>1, NothingInTheQueue
<1> QED  BY <1>2, <1>3, <1>4, <1>5, <1>6, <1>7

(* The steps of the loop that commit the copy, or touch no row of the job. *)
LEMMA LoopStep ==
    ASSUME IInv, QueueInv, IInv', QueueInv', Next,
           \/ InsertIteration \/ Benchmark \/ SaveResults \/ Accept \/ Reject
           \/ MarkProposing \/ Propose \/ RecordProposal \/ StopUnchanged \/ CreateCandidate
    PROVE  UNCHANGED JQ!vars
<1>1. pc \in InLoop /\ pc' \in InLoop \cup {"fail", "finish"} /\ apiChecked' = apiChecked
      /\ ~SetUp
  BY DEF InsertIteration, Benchmark, BenchmarkReturns, BenchmarkRaises, SaveResults, Accept,
         Reject, Conclude, MarkProposing, Propose, ProposalReturns, ProposalRaises, RecordProposal,
         StopUnchanged, CreateCandidate, SetUp, InLoop, Unjudged, JudgedHere
<1>2. mem \in JobRow /\ mem.status = "running"
  BY <1>1 DEF IInv, TypeOK, CopyInv, Running, InLoop
<1>3. job'.status = job.status /\ mem'.status = "running"
  <2>1. CASE Accept \/ Reject
    <3>1. PICK m \in JobRow : m.status = "running" /\ Conclude(m)
      BY <1>2, <2>1
         DEF Accept, Reject, WithBest, RunVersion, IInv, TypeOK, CountInv, JobRow
    <3> QED  BY <1>2, <3>1, StatusStays DEF Conclude, JobRow
  <2>2. CASE SaveResults \/ MarkProposing \/ RecordProposal \/ CreateCandidate
    <3>1. Commit(mem)
      BY <2>2 DEF SaveResults, MarkProposing, RecordProposal, CreateCandidate
    <3> QED  BY <1>2, <3>1, StatusStays DEF Commit
  <2>3. CASE StopUnchanged
    <3>1. PICK m \in JobRow : m.status = "running" /\ Commit(m)
      BY <1>2, <2>3 DEF StopUnchanged, JobRow, StopReason
    <3> QED  BY <1>2, <3>1, StatusStays DEF Commit
  <2>4. CASE InsertIteration \/ Benchmark \/ Propose
    BY <1>2, <2>4
       DEF InsertIteration, Benchmark, BenchmarkReturns, BenchmarkRaises, Propose,
           ProposalReturns, ProposalRaises, rows, orm
  <2> QED  BY <2>1, <2>2, <2>3, <2>4
<1>4. versions'[0].stored = versions[0].stored
  BY <1>1, VersionZero
<1>5. Stage = "working"
  BY <1>1, StageIs
<1>6. Stage' = "working"
  <2>1. versions[0].stored
    BY <1>1 DEF QueueInv, InLoop, Unjudged, JudgedHere, Before, Over
  <2> QED  BY <1>1, <1>3, <1>4, <2>1 DEF Stage, InLoop, Unjudged, JudgedHere, Over
<1>7. Lost' = Lost
  BY <1>1 DEF Lost, InLoop, Unjudged, JudgedHere
<1> QED  BY <1>1, <1>3, <1>4, <1>5, <1>6, <1>7, NothingInTheQueue

(* The three refreshes: the run goes on, or notices the cancellation. *)
LEMMA RefreshStep ==
    ASSUME IInv, QueueInv, IInv', QueueInv', Next,
           RefreshAtTop \/ RefreshAfterBenchmark \/ RefreshAfterProposal
    PROVE  [JQ!Next]_(JQ!vars)
<1>1. /\ pc \in InLoop /\ apiChecked' = apiChecked /\ ~SetUp /\ job' = job
      /\ mem' = job \/ mem' = MarkCancelled(job)
      /\ job.status = "cancelled" => pc' \in {"finish", "settle"}
      /\ job.status # "cancelled" => pc' \in InLoop
  BY DEF RefreshAtTop, RefreshAfterBenchmark, RefreshAfterProposal, RefreshAfter, Refresh,
         SeesCancelled, SetUp, rows, InLoop, Unjudged, JudgedHere
<1>2. mem'.status = job.status
  BY <1>1, MarkIsRow DEF IInv, TypeOK
<1>3. versions'[0].stored = versions[0].stored /\ Stage = "working"
  BY <1>1, VersionZero, StageIs
<1>4. Lost' = Lost
  BY <1>1 DEF Lost, InLoop, Unjudged, JudgedHere
<1>5. CASE job.status = "cancelled"
  <2>1. Stage' = "claim"
    BY <1>1, <1>2, <1>5, NextStageIs
  <2> QED  BY <1>1, <1>3, <1>4, <1>5, <2>1, NoticeInTheQueue
<1>6. CASE job.status # "cancelled"
  <2>1. Stage' = "working"
    BY <1>1, <1>6, NextStageIs
  <2> QED  BY <1>1, <1>3, <1>4, <2>1, NothingInTheQueue
<1> QED  BY <1>5, <1>6

(* The end of a run. *)
LEMMA EndStep ==
    ASSUME IInv, QueueInv, IInv', QueueInv', Next, SettleCancelled \/ Finish \/ Fail
    PROVE  [JQ!Next]_(JQ!vars)
<1>1. /\ pc \in {"settle", "finish", "fail"} /\ pc' \in {"finish", "done", "raised"}
      /\ apiChecked' = apiChecked /\ ~SetUp /\ Lost' = Lost
  BY DEF SettleCancelled, Finish, Fail, SetUp, Lost
<1>2. versions'[0].stored = versions[0].stored
  BY <1>1, VersionZero
<1>3. mem \in JobRow /\ synced.status = mem.status
  BY DEF IInv, TypeOK, CopyInv
<1>4. CASE SettleCancelled
  <2>1. MarkCancelled(mem) \in JobRow /\ MarkCancelled(mem).status = "cancelled"
        /\ mem.status = "cancelled"
    BY <1>3, <1>4, MarkIsRow DEF SettleCancelled, IInv, CopyInv
  <2>2. job'.status = job.status /\ mem'.status = "cancelled"
    BY <1>4, <2>1, StatusStays DEF SettleCancelled, Commit
  <2>3. Stage = "claim" /\ Stage' = "claim"
    BY <1>4, <2>2, StageIs, NextStageIs DEF SettleCancelled
  <2> QED  BY <1>1, <1>2, <2>2, <2>3, NothingInTheQueue
<1>5. CASE Finish /\ mem.status # "running"
  <2>1. Commit(mem)
    BY <1>5 DEF Finish
  <2>2. job'.status = job.status
    BY <1>3, <2>1, StatusStays DEF Commit
  <2>3. Stage = "claim" /\ Stage' = "claim"
    BY <1>5, StageIs, NextStageIs DEF Finish, Over
  <2> QED  BY <1>1, <1>2, <2>2, <2>3, NothingInTheQueue
<1>6. CASE Finish /\ mem.status = "running"
  <2>1. PICK m \in JobRow : m.status = "completed" /\ Commit(m)
    BY <1>3, <1>6 DEF Finish, JobRow, JobStatus
  <2>2. job'.status = "completed"
    BY <1>3, <1>6, <2>1, FlushIsRow DEF Commit, IInv
  <2>3. Stage = "working" /\ Stage' = "claim"
    BY <1>6, StageIs, NextStageIs DEF Finish, Over
  <2> QED  BY <1>1, <1>2, <2>2, <2>3, FinishInTheQueue
<1>7. CASE Fail
  <2>1. PICK m \in JobRow : m.status = "failed" /\ Commit(m)
    BY <1>3, <1>7 DEF Fail, JobRow, JobStatus, StopReason
  <2>2. job'.status = "failed"
    BY <1>3, <1>7, <2>1, FlushIsRow DEF Fail, Commit, IInv, CopyInv, Running
  <2>3. Stage \in {"setup", "working"} /\ Stage' = "claim"
    BY <1>7, StageIs, NextStageIs DEF Fail, Over
  <2> QED  BY <1>1, <1>2, <2>2, <2>3, FinishInTheQueue
<1> QED  BY <1>4, <1>5, <1>6, <1>7

(* A failed statement: the run is cut off, unless it has seen the cancellation;
   or it raises like any other, which the queue does not see. *)
LEMMA FaultStep ==
    ASSUME IInv, QueueInv, IInv', QueueInv', Next, DbFault
    PROVE  [JQ!Next]_(JQ!vars)
<1>1. /\ DbFaults /\ ~SetUp
      /\ job' = job /\ mem' = mem /\ apiChecked' = apiChecked
  BY DEF DbFault, SetUp, rows, orm, Statements, Reads
<1>2. versions'[0].stored = versions[0].stored
  BY <1>1, VersionZero
<1>3. pc \in Statements /\ Lost = {}
  BY DEF DbFault, Lost, Statements, Reads
<1>4. CASE pc' = "aborted" /\ mem.status = "cancelled"
  <2>1. Lost' = Lost /\ Stage = "claim"
    BY <1>1, <1>3, <1>4 DEF Lost, Stage, Statements, IInv, RowInv, NewJob
  <2>2. Stage' = "claim"
    BY <1>4, NextStageIs DEF Over
  <2> QED  BY <1>1, <1>2, <2>1, <2>2, NothingInTheQueue
<1>5. CASE pc' = "aborted" /\ mem.status # "cancelled"
  <2>1. Lost' = {1}
    BY <1>1, <1>5 DEF Lost
  <2>2. Stage \in {"load", "setup", "working"}
    BY <1>3, <1>5 DEF Stage, Statements, Over, IInv, CopyInv
  <2>3. Stage' = "claim"
    BY <1>5, NextStageIs DEF Over
  <2> QED  BY <1>1, <1>2, <1>3, <2>1, <2>2, <2>3, AbortInTheQueue
<1>6. CASE pc \in Reads /\ pc' = "fail"
  <2>1. Lost' = Lost
    BY <1>3, <1>6 DEF Lost
  <2>2. Stage = IF mem.status = "cancelled" THEN "claim"
                ELSE IF versions[0].stored THEN "working" ELSE "setup"
    BY <1>6 DEF Stage, Reads, Over
  <2>3. Stage' = IF mem'.status = "cancelled" THEN "claim"
                 ELSE IF versions'[0].stored THEN "working" ELSE "setup"
    BY <1>6 DEF Stage, Over
  <2> QED  BY <1>1, <1>2, <2>1, <2>2, <2>3, NothingInTheQueue
<1> QED  BY <1>4, <1>5, <1>6 DEF DbFault

(* The cancel endpoint. *)
LEMMA ApiStep ==
    ASSUME IInv, QueueInv, Next, ApiCancelCheck \/ ApiCancelWrite
    PROVE  JQ!Next
<1>1. ~SetUp /\ Stage' = Stage /\ Lost' = Lost /\ versions' = versions
  BY DEF ApiCancelCheck, ApiCancelWrite, SetUp, Stage, Lost, rows, orm
<1>2. CASE ApiCancelCheck
  <2>1. ~apiChecked /\ apiChecked' /\ job' = job
    BY <1>2 DEF ApiCancelCheck, rows
  <2>2. job.status \in {"queued", "running"}
    BY <1>2 DEF ApiCancelCheck, Terminal, IInv, TypeOK, JobRow, JobStatus
  <2> QED  BY <1>1, <2>1, <2>2, CancelInTheQueue
<1>3. CASE ApiCancelWrite
  <2>1. MarkCancelled(job) \in JobRow
    BY MarkIsRow DEF IInv, TypeOK
  <2>2. apiChecked /\ ~apiChecked' /\ job'.status = "cancelled"
    BY <1>3, <2>1 DEF ApiCancelWrite, JobRow
  <2> QED  BY <1>1, <2>2, CancelInTheQueue
<1> QED  BY <1>2, <1>3

(* Every step of the processor and of the cancel endpoint, under every schedule
   of cancellations, exceptions and failed writes, is a step of one worker and
   one client of the job queue, or none that the queue sees. *)
THEOREM QueueRefinement == Spec => FollowsTheQueue
<1>1. Init => QueueInv
  BY QueueInvInit
<1>2. IInv /\ QueueInv /\ [Next]_vars => QueueInv'
  <2>1. CASE UNCHANGED vars
    BY <2>1 DEF vars, QueueInv
  <2> QED  BY <2>1, QueueInvStep
<1>3. IInv /\ IInv' /\ QueueInv /\ QueueInv' /\ [Next]_vars => [JQ!Next]_(JQ!vars)
  <2>1. CASE UNCHANGED vars
    BY <2>1 DEF vars, JQ!vars, Stage
  <2> QED
    BY <2>1, EarlyStep, LoopStep, RefreshStep, EndStep, FaultStep, ApiStep DEF Next, Processor
<1> QED  BY <1>1, <1>2, <1>3, Invariance, PTL DEF Spec, FollowsTheQueue

(* What is proved of the queue, of this worker and its one job. *)
JQP == INSTANCE JobQueueProofs WITH
          NumJobs  <- 1, Workers <- Worker, MaxBoots <- 1, Stops <- FALSE, Crashes <- FALSE,
          status   <- [j \in {1} |-> job.status],
          template <- IF versions[0].stored THEN {1} ELSE {},
          checked  <- IF apiChecked THEN {1} ELSE {},
          wpc      <- [w \in Worker |-> Stage],
          held     <- [w \in Worker |-> IF Stage = "claim" THEN 0 ELSE 1],
          seen     <- [w \in Worker |-> IF Stage \in {"setup", "working"} THEN "running"
                                                                       ELSE "none"],
          stopping <- [w \in Worker |-> FALSE],
          boots    <- 1,
          lost     <- Lost

(* A run starts with a job that a worker has just selected. *)
LEMMA RunsStartInTheQueue == Init => JQP!IInv
<1> SUFFICES ASSUME Init
             PROVE  JQP!IInv
  OBVIOUS
<1>1. /\ Stage = "update" /\ job.status = "queued" /\ ~versions[0].stored
      /\ ~apiChecked /\ Lost = {}
  BY DEF Init, NewJob, NotStored, Stage, Lost
<1>2. JQP!TypeOK
  BY <1>1 DEF JQP!TypeOK, JQP!Jobs, JQP!NoJob, JQP!JobStatus, JQP!Places, JQP!InHand, Worker
<1>3. JQP!HandInv
  BY <1>1 DEF JQP!HandInv, JQP!InHand, JQP!Claiming, Worker
<1>4. JQP!TemplateInv /\ JQP!OneRunPerJob /\ JQP!HeldInv
  BY <1>1 DEF JQP!TemplateInv, JQP!OneRunPerJob, JQP!HeldInv, JQP!Jobs, Worker
<1> QED  BY <1>2, <1>3, <1>4 DEF JQP!IInv

(* JQ and JQP reach the same definitions, through JobQueue and its proofs. *)
LEMMA SameQueue == [JQ!Next]_(JQ!vars) => [JQP!Next]_(JQP!vars)
  BY DEF Lost,
         JQ!Next, JQP!Next, JQ!vars, JQP!vars, JQ!worker, JQP!worker,
         JQ!Submit, JQP!Submit, JQ!CancelCheck, JQP!CancelCheck,
         JQ!CancelWrite, JQP!CancelWrite, JQ!Goto, JQP!Goto, JQ!Drop, JQP!Drop,
         JQ!Start, JQP!Start, JQ!StopRequest, JQP!StopRequest, JQ!Exit, JQP!Exit,
         JQ!Select, JQP!Select, JQ!SelectNone, JQP!SelectNone, JQ!Wake, JQP!Wake,
         JQ!Update, JQP!Update, JQ!Claimed, JQP!Claimed, JQ!ClaimFault, JQP!ClaimFault,
         JQ!Load, JQP!Load, JQ!SetUp, JQP!SetUp, JQ!SetUpRefused, JQP!SetUpRefused,
         JQ!Notice, JQP!Notice, JQ!Finish, JQP!Finish, JQ!CutOff, JQP!CutOff,
         JQ!RunAborts, JQP!RunAborts, JQ!Crash, JQP!Crash, JQ!Task, JQP!Task,
         JQ!Queued, JQP!Queued, JQ!Jobs, JQP!Jobs, JQ!NoJob, JQP!NoJob

(* The inductive invariant of the queue holds of every run: a job that is in
   the hands of a run and set up has its template stored, and one that is
   running is in the hands of a run or was cut off. *)
THEOREM RunsKeepTheQueue == Spec => []JQP!IInv
<1>1. JQP!IInv /\ [JQP!Next]_(JQP!vars) => JQP!IInv'
  BY DbFaultsType, JQP!StepInv
<1> QED
  BY <1>1, RunsStartInTheQueue, SameQueue, QueueRefinement, PTL DEF Spec, FollowsTheQueue
=============================================================================
