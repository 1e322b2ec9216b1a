-------------------------- MODULE ProgressViewProofs --------------------------
(***************************************************************************)
(* Proofs about what a read request shows, for any tasks, any number of     *)
(* iterations and any way its statements fall between the processor's        *)
(* commits: no task is shown as completed that was not run, but for the     *)
(* three cases the property names, and no effect without its cause.         *)
(***************************************************************************)
EXTENDS ProgressView, TLAPS

(* The tasks before the i-th. *)
Before(i) == {Tasks[j] : j \in 1 .. i - 1}

(* An iteration with a result for every task. *)
Full(k) == DOMAIN rows[k].results = TaskIds

JobType == [executor : {"simulated", "harbor"},
            status : {"running", "completed", "failed", "cancelled"},
            best : Versions \cup {NoVersion}]

Running == {"ask", "task", "harbor", "ran"}
Judging == {"judge", "judged", "propose", "unchanged"}

WriterType ==
    /\ job \in JobType
    /\ rows \in Seq(Row) /\ Last <= MaxIterations + 1
    /\ proposed \in Versions
    /\ wpc \in {"begin", "over"} \cup Running \cup Judging
    /\ at \in 1 .. Len(Tasks) + 1
    /\ done \in Results
    /\ ran \in Seq(SUBSET TaskIds) /\ Len(ran) = Last
    /\ emptied \subseteq 1 .. Last

(* Where the processor is, what it has counted and stored. *)
CountInv ==
    /\ wpc \in Running \cup Judging => Last > 0
    /\ proposed >= Last - 1
    /\ wpc = "begin" => proposed = Last
    /\ wpc \in Running \cup Judging => proposed = Last - 1
    /\ wpc = "propose" => Last <= MaxIterations

(* Only tasks that were run have a score. *)
Earned(results, k) ==
    \A t \in DOMAIN results : results[t] # "infra_error" => t \in ran[k]

RunInv ==
    /\ wpc \in Running => rows[Last].results = NoResult /\ Earned(done, Last)
    /\ wpc \in {"ask", "task"} => DOMAIN done = Before(at) /\ ran[Last] = Before(at)
    /\ wpc = "task" => at <= Len(Tasks)
    /\ wpc = "ran" => DOMAIN done = TaskIds \/ job.status = "cancelled"
    /\ wpc # "over" => job.status \in {"running", "cancelled"}

(* Which iterations have their results. *)
FullInv ==
    /\ \A k \in 1 .. Last : k < Last => Full(k)
    /\ wpc \in Judging => Full(Last)
    /\ wpc = "begin" /\ Last > 0 => Full(Last)
    /\ job.status = "completed" => Last > 0 /\ Full(Last)
    /\ job.best # NoVersion => job.best + 1 \in 1 .. Last /\ Full(job.best + 1)

(* The lists of an iteration, its results and what was run. What the lists say
   counts while there are no results. *)
Listed(row, k) ==
    row.phase # "failed" /\ k \notin emptied =>
        TaskIds \ (row.pending \cup row.running) \subseteq ran[k]

Lists(row, k) ==
    /\ row.pending \subseteq TaskIds /\ row.running \subseteq TaskIds
    /\ Listed(row, k) \/ Full(k)
    /\ Distinct => row.running \cap row.pending = {}

ListInv ==
    \A k \in 1 .. Last :
        /\ Lists(rows[k], k)
        /\ Earned(rows[k].results, k)
        /\ rows[k].results # NoResult => Full(k)

WriterInv == WriterType /\ CountInv /\ RunInv /\ FullInv /\ ListInv

-----------------------------------------------------------------------------
(* The reader. *)

GotAll == {"outcomes", "proposed", "newest", "latest"}
GotOutcomes == {"proposed", "newest", "latest", "its proposal", "respond"}

GotType ==
    /\ rpc \in {"job", "iterations", "detail", "over"} \cup GotAll \cup GotOutcomes
    /\ got = [job |-> got.job, rows |-> got.rows, outcomes |-> got.outcomes,
              proposed |-> got.proposed, newest |-> got.newest]
    /\ got.job \in JobType
    /\ got.proposed \in Nat

(* What was loaded of the job still holds: iterations stay full, and a completed
   job has come to rest. *)
GotJobInv ==
    /\ got.job.status = "completed" => job.status = "completed"
    /\ got.job.best # NoVersion =>
         /\ got.job.best + 1 \in 1 .. Last /\ Full(got.job.best + 1)
         /\ rpc \in GotAll => got.job.best + 1 \in DOMAIN got.rows

GotRowsInv ==
    /\ DOMAIN got.rows \subseteq 1 .. Last
    /\ \A k \in DOMAIN got.rows : Lists(got.rows[k], k)

GotOutcomesInv ==
    rpc \in GotOutcomes =>
        /\ DOMAIN got.outcomes = DOMAIN got.rows
        /\ \A k \in DOMAIN got.rows :
             /\ Earned(got.outcomes[k], k)
             /\ got.outcomes[k] = NoResult => Listed(got.rows[k], k)
             /\ got.outcomes[k] # NoResult => DOMAIN got.outcomes[k] = TaskIds
             /\ k + 1 \in DOMAIN got.rows => DOMAIN got.outcomes[k] = TaskIds
        /\ rpc \in GotAll /\ got.job.best # NoVersion =>
             DOMAIN got.outcomes[got.job.best + 1] = TaskIds

GotProposedInv ==
    rpc \in {"newest", "latest", "respond"} =>
        \A k \in DOMAIN got.rows : got.proposed >= k - 1

GotNewestInv == rpc = "latest" /\ got.job.status = "completed" => got.newest = Last

ReaderInv ==
    GotType /\ GotJobInv /\ GotRowsInv /\ GotOutcomesInv /\ GotProposedInv /\ GotNewestInv

(* The response. *)
ShownType ==
    \A k \in DOMAIN shown.iterations :
        /\ Shown(k).completed \cup Shown(k).running \cup Shown(k).pending = TaskIds
        /\ Distinct => Shown(k).running \cap Shown(k).pending = {}

ShownInv ==
    /\ DOMAIN shown.iterations \subseteq 1 .. Last
    /\ ShownType /\ CompletedTasksWereRun /\ EffectsComeWithCauses

IInv == WriterInv /\ ReaderInv /\ ShownInv

-----------------------------------------------------------------------------
(* Sets of tasks. *)

LEMMA TasksFacts ==
    /\ TaskIds = Before(Len(Tasks) + 1)
    /\ Before(1) = {}
    /\ \A i \in 1 .. Len(Tasks) :
         /\ Tasks[i] \in TaskIds
         /\ Before(i + 1) = Before(i) \cup {Tasks[i]}
         /\ From(i) = From(i + 1) \cup {Tasks[i]}
    /\ \A i \in 1 .. Len(Tasks) + 1 :
         /\ From(i) \subseteq TaskIds /\ Before(i) \subseteq TaskIds
         /\ TaskIds \ From(i) \subseteq Before(i)
<1>0. Len(Tasks) \in Nat /\ DOMAIN Tasks = 1 .. Len(Tasks)
  BY TasksAreNamed
<1>1. TaskIds = Before(Len(Tasks) + 1) /\ Before(1) = {}
  BY <1>0 DEF TaskIds, Before
<1>2. ASSUME NEW i \in 1 .. Len(Tasks)
      PROVE  /\ Tasks[i] \in TaskIds
             /\ Before(i + 1) = Before(i) \cup {Tasks[i]}
             /\ From(i) = From(i + 1) \cup {Tasks[i]}
  <2>1. Tasks[i] \in TaskIds
    BY <1>0 DEF TaskIds
  <2>2. 1 .. (i + 1) - 1 = (1 .. i - 1) \cup {i}
    BY <1>0
  <2>3. i .. Len(Tasks) = ((i + 1) .. Len(Tasks)) \cup {i}
    BY <1>0
  <2>4. Before(i + 1) = Before(i) \cup {Tasks[i]}
    BY <2>2 DEF Before
  <2>5. From(i) = From(i + 1) \cup {Tasks[i]}
    BY <2>3 DEF From
  <2> QED  BY <2>1, <2>4, <2>5
<1>3. ASSUME NEW i \in 1 .. Len(Tasks) + 1
      PROVE  /\ From(i) \subseteq TaskIds /\ Before(i) \subseteq TaskIds
             /\ TaskIds \ From(i) \subseteq Before(i)
  BY <1>0 DEF From, Before, TaskIds
<1> QED  BY <1>1, <1>2, <1>3

LEMMA DistinctFacts ==
    ASSUME Distinct, NEW i \in 1 .. Len(Tasks)
    PROVE  Tasks[i] \notin From(i + 1)
  BY TasksAreNamed DEF Distinct, From

LEMMA ResultFacts ==
    /\ NoResult \in Results /\ DOMAIN NoResult = {}
    /\ TaskIds # {}
    /\ \A S \in SUBSET TaskIds : \A f : f \in [S -> Outcome] => f \in Results
    /\ \A f \in Results : DOMAIN f \subseteq TaskIds
<1>1. NoResult \in [{} -> Outcome] /\ DOMAIN NoResult = {}
  BY DEF NoResult, Outcome
<1>2. \A S \in SUBSET TaskIds : \A f : f \in [S -> Outcome] => f \in Results
  BY DEF Results
<1>3. \A f \in Results : DOMAIN f \subseteq TaskIds
  BY DEF Results
<1>4. TaskIds # {}
  BY TasksAreNamed DEF TaskIds
<1> QED  BY <1>1, <1>2, <1>3, <1>4

-----------------------------------------------------------------------------
(* Changes of the newest row. *)

LEMMA RowFacts ==
    ASSUME WriterType, Last > 0
    PROVE  /\ Last \in Nat /\ Last \in 1 .. Last /\ rows[Last] \in Row
           /\ \A k \in 1 .. Last : rows[k] \in Row
           /\ \A k \in 1 .. Last : ran[k] \in SUBSET TaskIds
  BY DEF WriterType, Last

LEMMA LastRow ==
    ASSUME WriterType, Last > 0, NEW row \in Row, rows' = [rows EXCEPT ![Last] = row]
    PROVE  /\ rows' \in Seq(Row) /\ Len(rows') = Last
           /\ rows'[Last] = row
           /\ \A k \in 1 .. Last : k # Last => rows'[k] = rows[k]
  BY RowFacts DEF WriterType, Last

LEMMA SetListsIs ==
    ASSUME WriterType, Last > 0, NEW p \in SUBSET TaskIds, NEW r \in SUBSET TaskIds,
           SetLists(p, r)
    PROVE  \E row \in Row :
              /\ rows' = [rows EXCEPT ![Last] = row]
              /\ row.pending = p /\ row.running = r
              /\ row.phase = rows[Last].phase /\ row.results = rows[Last].results
<1> DEFINE row == [rows[Last] EXCEPT !.pending = p, !.running = r]
<1>1. rows[Last] \in Row
  BY RowFacts
<1>2. /\ row \in Row /\ row.pending = p /\ row.running = r
      /\ row.phase = rows[Last].phase /\ row.results = rows[Last].results
  BY <1>1 DEF Row
<1>3. rows' = [rows EXCEPT ![Last] = row]
  <2>1. rows \in Seq(Row) /\ Last \in 1 .. Last
    BY RowFacts DEF WriterType
  <2> QED  BY <2>1, Zenon DEF SetLists
<1> HIDE DEF row
<1> QED  BY <1>2, <1>3

LEMMA SetPhaseIs ==
    ASSUME WriterType, Last > 0,
           NEW ph \in {"running_benchmark", "done", "proposing", "failed"},
           rows' = [rows EXCEPT ![Last].phase = ph]
    PROVE  \E row \in Row :
              /\ rows' = [rows EXCEPT ![Last] = row]
              /\ row.phase = ph /\ row.results = rows[Last].results
              /\ row.pending = rows[Last].pending /\ row.running = rows[Last].running
<1> DEFINE row == [rows[Last] EXCEPT !.phase = ph]
<1>1. rows[Last] \in Row
  BY RowFacts
<1>2. /\ row \in Row /\ row.phase = ph /\ row.results = rows[Last].results
      /\ row.pending = rows[Last].pending /\ row.running = rows[Last].running
  BY <1>1 DEF Row
<1>3. rows' = [rows EXCEPT ![Last] = row]
  OBVIOUS
<1> HIDE DEF row
<1> QED  BY <1>2, <1>3

LEMMA SetDoneIs ==
    ASSUME WriterType, Last > 0, NEW ph \in {"done", "failed"}, NEW res \in Results,
           rows' = [rows EXCEPT ![Last].phase = ph, ![Last].pending = {},
                                ![Last].running = {}, ![Last].results = res]
    PROVE  \E row \in Row :
              /\ rows' = [rows EXCEPT ![Last] = row]
              /\ row.phase = ph /\ row.results = res
              /\ row.pending = {} /\ row.running = {}
<1> DEFINE row == [rows[Last] EXCEPT !.phase = ph, !.pending = {}, !.running = {},
                                     !.results = res]
<1>1. rows[Last] \in Row
  BY RowFacts
<1>2. /\ row \in Row /\ row.phase = ph /\ row.results = res
      /\ row.pending = {} /\ row.running = {}
  BY <1>1 DEF Row
<1>3. rows' = [rows EXCEPT ![Last] = row]
  <2>1. Last \in DOMAIN rows
    BY RowFacts DEF WriterType, Last
  <2> QED  BY <2>1, Zenon
<1> HIDE DEF row
<1> QED  BY <1>2, <1>3

-----------------------------------------------------------------------------
(* The writers' steps. What readers rely on only grows. *)

Grows ==
    /\ Last <= Last'
    /\ \A k \in 1 .. Last : ran[k] \subseteq ran'[k]
    /\ emptied \subseteq emptied'
    /\ \A k \in 1 .. Last : Full(k) => Full(k)'
    /\ proposed <= proposed'
    /\ job.status = "completed" => job'.status = "completed" /\ Last' = Last

(* A step that stores no row and runs no task. *)
LEMMA MoveStep ==
    ASSUME WriterInv, UNCHANGED <<rows, ran, emptied>>
    PROVE  /\ ListInv' /\ Last' = Last
           /\ \A k \in 1 .. Last : ran[k] \subseteq ran'[k]
           /\ \A k : Full(k)' <=> Full(k)
           /\ rows' \in Seq(Row) /\ Last' <= MaxIterations + 1
           /\ ran' \in Seq(SUBSET TaskIds) /\ Len(ran') = Last'
           /\ emptied' \subseteq 1 .. Last' /\ emptied' = emptied
  BY DEF WriterInv, WriterType, ListInv, Lists, Listed, Earned, Last, Full

(* A step that writes the newest row. *)
LEMMA RowStep ==
    ASSUME WriterInv, Last > 0, NEW row \in Row, rows' = [rows EXCEPT ![Last] = row],
           ran' \in Seq(SUBSET TaskIds), Len(ran') = Last,
           \A k \in 1 .. Last : k # Last => ran'[k] = ran[k],
           ran[Last] \subseteq ran'[Last],
           emptied \subseteq emptied', emptied' \subseteq emptied \cup {Last},
           row.phase # "failed" /\ Last \notin emptied' /\ row.results = NoResult =>
               TaskIds \ (row.pending \cup row.running) \subseteq ran'[Last],
           Distinct => row.running \cap row.pending = {},
           \A t \in DOMAIN row.results :
               row.results[t] # "infra_error" => t \in ran'[Last],
           Full(Last) => DOMAIN row.results = TaskIds,
           row.results # NoResult => DOMAIN row.results = TaskIds
    PROVE  /\ ListInv' /\ Last' = Last
           /\ \A k \in 1 .. Last : ran[k] \subseteq ran'[k]
           /\ \A k \in 1 .. Last : Full(k) => Full(k)'
           /\ Full(Last)' <=> DOMAIN row.results = TaskIds
           /\ rows'[Last] = row
           /\ rows' \in Seq(Row) /\ Last' <= MaxIterations + 1 /\ Len(ran') = Last'
           /\ emptied' \subseteq 1 .. Last'
<1>0. WriterType /\ ListInv
  BY DEF WriterInv
<1>1. /\ rows' \in Seq(Row) /\ Len(rows') = Last /\ rows'[Last] = row
      /\ \A k \in 1 .. Last : k # Last => rows'[k] = rows[k]
  BY <1>0, LastRow
<1>2. Last' = Last /\ Last' <= MaxIterations + 1
  BY <1>0, <1>1 DEF Last, WriterType
<1>3. \A k \in 1 .. Last : ran[k] \subseteq ran'[k]
  OBVIOUS
<1>4. \A k \in 1 .. Last : Full(k) => Full(k)'
  BY <1>1, <1>2 DEF Full
<1>5. Full(Last)' <=> DOMAIN row.results = TaskIds
  BY <1>1, <1>2 DEF Full
<1>6. row.pending \subseteq TaskIds /\ row.running \subseteq TaskIds
  BY DEF Row
<1>7. ASSUME NEW k \in 1 .. Last
      PROVE  (/\ Lists(rows[k], k)
              /\ Earned(rows[k].results, k)
              /\ rows[k].results # NoResult => Full(k))'
  <2>1. CASE k = Last
    BY <1>1, <1>6, <2>1 DEF Lists, Listed, Earned, Full
  <2>2. CASE k # Last
    BY <1>0, <1>1, <2>2 DEF ListInv, Lists, Listed, Earned, Full
  <2> QED  BY <2>1, <2>2
<1>8. ListInv'
  BY <1>2, <1>7 DEF ListInv, Lists, Listed, Full, Earned
<1>9. emptied' \subseteq 1 .. Last'
  BY <1>0, <1>2, RowFacts DEF WriterType
<1> QED  BY <1>1, <1>2, <1>3, <1>4, <1>5, <1>8, <1>9

LEMMA BeginStep ==
    ASSUME WriterInv, Begin
    PROVE  WriterInv' /\ Grows
<1>0. /\ WriterType /\ CountInv /\ RunInv /\ FullInv /\ ListInv
      /\ Last \in Nat /\ Last = Len(rows) /\ wpc = "begin" /\ job' = job
      /\ proposed' = proposed /\ proposed \in Nat
  BY DEF WriterInv, WriterType, Begin, Last, Versions
<1>1. CASE job.status = "cancelled"
  <2>1. wpc' = "over" /\ UNCHANGED <<rows, at, done, ran, emptied>>
    BY <1>1 DEF Begin
  <2>2. WriterType'
    BY <1>0, <2>1, MoveStep DEF WriterType
  <2>3. CountInv' /\ RunInv'
    BY <1>0, <2>1, MoveStep DEF CountInv, RunInv, Earned, Running, Judging
  <2>4. FullInv'
    BY <1>0, <2>1, MoveStep DEF FullInv, Judging
  <2>5. Grows
    BY <1>0, <2>1, MoveStep DEF Grows
  <2> QED  BY <2>1, <2>2, <2>3, <2>4, <2>5, MoveStep DEF WriterInv
<1>2. CASE job.status # "cancelled"
  <2> DEFINE row == [phase |-> "running_benchmark", pending |-> TaskIds,
                     running |-> {}, results |-> NoResult]
  <2>1. /\ rows' = Append(rows, row) /\ ran' = Append(ran, {})
        /\ at' = 1 /\ done' = NoResult /\ wpc' \in {"ask", "harbor"} /\ emptied' = emptied
    BY <1>2 DEF Begin
  <2>2. /\ row \in Row /\ row.results = NoResult /\ row.pending = TaskIds
        /\ row.running = {}
    BY ResultFacts DEF Row
  <2> HIDE DEF row
  <2>3. /\ Last' = Last + 1 /\ rows' \in Seq(Row) /\ rows'[Last + 1] = row
        /\ \A k \in 1 .. Last : rows'[k] = rows[k]
        /\ Last' = Len(rows')
    BY <1>0, <2>1, <2>2 DEF Last, WriterType
  <2>4. /\ ran' \in Seq(SUBSET TaskIds) /\ Len(ran') = Last + 1 /\ ran'[Last + 1] = {}
        /\ \A k \in 1 .. Last : ran'[k] = ran[k]
    BY <1>0, <2>1 DEF WriterType
  <2>5. Last + 1 <= MaxIterations + 1
    BY <1>0, LimitIsNat DEF CountInv, WriterType, Versions
  <2>6. WriterType'
    <3>1. emptied' \subseteq 1 .. Last'
      BY <1>0, <2>1, <2>3 DEF WriterType
    <3> QED  BY <1>0, <2>1, <2>3, <2>4, <2>5, <3>1, ResultFacts, TasksAreNamed
                DEF WriterType, Running
  <2>7. CountInv'
    BY <1>0, <2>1, <2>3 DEF CountInv, Running, Judging
  <2>8. RunInv'
    BY <1>0, <2>1, <2>2, <2>3, <2>4, ResultFacts, TasksFacts DEF RunInv, Running, Earned
  <2>9. \A k \in 1 .. Last : Full(k)' <=> Full(k)
    BY <2>3 DEF Full
  <2>10. \A k \in 1 .. Last : Full(k)
    BY <1>0 DEF FullInv
  <2>11. FullInv'
    BY <1>0, <2>1, <2>3, <2>9, <2>10 DEF FullInv, RunInv, Judging
  <2>12. ListInv'
    BY <1>0, <2>1, <2>2, <2>3, <2>4, ResultFacts DEF ListInv, Lists, Listed, Earned, Full
  <2>13. Grows
    BY <1>0, <2>1, <2>3, <2>4, <2>9 DEF Grows, RunInv
  <2> QED  BY <2>6, <2>7, <2>8, <2>11, <2>12, <2>13 DEF WriterInv
<1> QED  BY <1>1, <1>2

LEMMA AskStep ==
    ASSUME WriterInv, Ask
    PROVE  WriterInv' /\ Grows
<1>0. /\ WriterType /\ CountInv /\ RunInv /\ FullInv /\ ListInv
      /\ Last > 0 /\ wpc = "ask" /\ UNCHANGED <<job, proposed, at, done, ran, emptied>>
      /\ proposed \in Nat /\ Last \in Nat
  BY DEF WriterInv, WriterType, CountInv, Running, Ask, Last, Versions, history
<1>1. CASE at > Len(Tasks) \/ job.status = "cancelled"
  <2>1. wpc' = "ran" /\ rows' = rows
    BY <1>1 DEF Ask
  <2>2. WriterType'
    BY <1>0, <2>1, MoveStep DEF WriterType, Running
  <2>3. CountInv'
    BY <1>0, <2>1, MoveStep DEF CountInv, Running, Judging
  <2>4. RunInv'
    <3>1. at > Len(Tasks) => Before(at) = TaskIds
      <4>1. at > Len(Tasks) => at = Len(Tasks) + 1
        BY <1>0, TasksAreNamed DEF WriterType
      <4> QED  BY <4>1, TasksFacts
    <3> QED  BY <1>0, <1>1, <2>1, <3>1, MoveStep DEF RunInv, Running, Earned
  <2>5. FullInv'
    BY <1>0, <2>1, MoveStep DEF FullInv, Judging
  <2>6. Grows
    BY <1>0, <2>1, MoveStep DEF Grows
  <2> QED  BY <1>0, <2>1, <2>2, <2>3, <2>4, <2>5, <2>6, MoveStep DEF WriterInv
<1>2. CASE at <= Len(Tasks) /\ job.status # "cancelled"
  <2>0. at \in 1 .. Len(Tasks) /\ at \in 1 .. Len(Tasks) + 1 /\ at + 1 \in 1 .. Len(Tasks) + 1
    BY <1>0, <1>2, TasksAreNamed DEF WriterType
  <2>1. wpc' = "task" /\ SetLists(From(at + 1), {Tasks[at]})
    BY <1>0, <1>2, <2>0, TasksAreNamed DEF Ask
  <2>2. PICK row \in Row :
          /\ rows' = [rows EXCEPT ![Last] = row]
          /\ row.pending = From(at + 1) /\ row.running = {Tasks[at]}
          /\ row.phase = rows[Last].phase /\ row.results = rows[Last].results
    BY <1>0, <2>0, <2>1, SetListsIs, TasksFacts
  <2>3. /\ ran[Last] = Before(at) /\ row.results = NoResult /\ DOMAIN done = Before(at)
        /\ ran \in Seq(SUBSET TaskIds) /\ Len(ran) = Last
    BY <1>0, <2>2 DEF RunInv, Running, WriterType
  <2>4. TaskIds \ (row.pending \cup row.running) \subseteq ran[Last]
    BY <2>0, <2>2, <2>3, TasksFacts
  <2>5. Distinct => row.running \cap row.pending = {}
    BY <2>0, <2>2, DistinctFacts
  <2>6. ~Full(Last)
    BY <1>0, ResultFacts DEF Full, RunInv, Running
  <2>7. /\ ListInv' /\ Last' = Last
        /\ \A k \in 1 .. Last : ran[k] \subseteq ran'[k]
        /\ \A k \in 1 .. Last : Full(k) => Full(k)'
        /\ rows'[Last] = row
        /\ rows' \in Seq(Row) /\ Last' <= MaxIterations + 1 /\ Len(ran') = Last'
        /\ emptied' \subseteq 1 .. Last'
    BY <1>0, <2>2, <2>3, <2>4, <2>5, <2>6, ResultFacts, RowStep
  <2>8. WriterType'
    BY <1>0, <2>1, <2>7 DEF WriterType, Running
  <2>9. CountInv'
    BY <1>0, <2>1, <2>7 DEF CountInv, Running, Judging
  <2>10. RunInv'
    BY <1>0, <2>0, <2>1, <2>3, <2>7 DEF RunInv, Running, Earned
  <2>11. FullInv'
    BY <1>0, <2>1, <2>7 DEF FullInv, Judging, RunInv
  <2>12. Grows
    BY <1>0, <2>7 DEF Grows
  <2> QED  BY <2>7, <2>8, <2>9, <2>10, <2>11, <2>12 DEF WriterInv
<1> QED  BY <1>0, <1>1, <1>2, TasksAreNamed DEF WriterType

LEMMA RunTaskStep ==
    ASSUME WriterInv, RunTask
    PROVE  WriterInv' /\ Grows
<1>0. /\ WriterType /\ CountInv /\ RunInv /\ FullInv /\ ListInv
      /\ Last > 0 /\ wpc = "task" /\ UNCHANGED <<job, proposed>>
      /\ wpc' = "ask" /\ at' = at + 1 /\ SetLists(From(at + 1), {})
      /\ ran' = [ran EXCEPT ![Last] = @ \cup {Tasks[at]}]
      /\ proposed \in Nat /\ Last \in Nat /\ emptied' = emptied
      /\ done' = [t \in DOMAIN done \cup {Tasks[at]} |-> "scored"]
  BY DEF WriterInv, WriterType, CountInv, Running, RunTask, Last, Versions
<1>1. at \in 1 .. Len(Tasks) /\ at \in 1 .. Len(Tasks) + 1 /\ at + 1 \in 1 .. Len(Tasks) + 1
  BY <1>0, TasksAreNamed DEF WriterType, RunInv
<1>3. DOMAIN done = Before(at) /\ ran[Last] = Before(at) /\ rows[Last].results = NoResult
  BY <1>0 DEF RunInv, Running
<1>4. DOMAIN done' = Before(at + 1) /\ done' \in Results
  <2>1. DOMAIN done' = Before(at + 1)
    BY <1>0, <1>1, <1>3, TasksFacts
  <2>3. done' \in [DOMAIN done' -> Outcome]
    BY <1>0 DEF Outcome
  <2> QED  BY <1>1, <2>1, <2>3, TasksFacts, ResultFacts
<1>5. PICK row \in Row :
        /\ rows' = [rows EXCEPT ![Last] = row]
        /\ row.pending = From(at + 1) /\ row.running = {}
        /\ row.phase = rows[Last].phase /\ row.results = rows[Last].results
  BY <1>0, <1>1, SetListsIs, TasksFacts
<1>6. /\ ran' \in Seq(SUBSET TaskIds) /\ Len(ran') = Last
      /\ \A k \in 1 .. Last : k # Last => ran'[k] = ran[k]
      /\ ran'[Last] = Before(at + 1) /\ ran[Last] \subseteq ran'[Last]
  <2>1. ran \in Seq(SUBSET TaskIds) /\ Len(ran) = Last
    BY <1>0 DEF WriterType
  <2>2. ran[Last] \cup {Tasks[at]} = Before(at + 1) /\ Before(at + 1) \in SUBSET TaskIds
    BY <1>1, <1>3, TasksFacts
  <2> DEFINE new == Before(at + 1)
  <2>3. ran' = [ran EXCEPT ![Last] = new]
    BY <1>0, <2>2
  <2>4. new \in SUBSET TaskIds /\ ran[Last] \subseteq new
    BY <2>2
  <2> HIDE DEF new
  <2>5. ran' \in Seq(SUBSET TaskIds) /\ Len(ran') = Last
    BY <1>0, <2>1, <2>3, <2>4
  <2>6. ran'[Last] = new /\ \A k \in 1 .. Last : k # Last => ran'[k] = ran[k]
    BY <1>0, <2>1, <2>3
  <2> QED  BY <2>4, <2>5, <2>6 DEF new
<1>7. TaskIds \ (row.pending \cup row.running) \subseteq ran'[Last]
  BY <1>1, <1>5, <1>6, TasksFacts
<1>8. ~Full(Last) /\ DOMAIN row.results = {}
  BY <1>3, <1>5, ResultFacts DEF Full
<1>9. /\ ListInv' /\ Last' = Last
      /\ \A k \in 1 .. Last : ran[k] \subseteq ran'[k]
      /\ \A k \in 1 .. Last : Full(k) => Full(k)'
      /\ rows'[Last] = row
      /\ rows' \in Seq(Row) /\ Last' <= MaxIterations + 1 /\ Len(ran') = Last'
      /\ emptied' \subseteq 1 .. Last'
  BY <1>0, <1>3, <1>5, <1>6, <1>7, <1>8, RowStep
<1>10. WriterType'
  BY <1>0, <1>1, <1>4, <1>6, <1>9 DEF WriterType, Running
<1>11. CountInv'
  BY <1>0, <1>9 DEF CountInv, Running, Judging
<1>12. RunInv'
  BY <1>0, <1>1, <1>3, <1>4, <1>5, <1>6, <1>9 DEF RunInv, Running, Earned
<1>13. FullInv'
  BY <1>0, <1>9 DEF FullInv, Judging, RunInv
<1>14. Grows
  BY <1>0, <1>9 DEF Grows
<1> QED  BY <1>9, <1>10, <1>11, <1>12, <1>13, <1>14 DEF WriterInv

(* What Harbor's reports write: lists of task ids, both empty only of an
   iteration that has been emptied. *)
LEMMA ReportIs ==
    ASSUME WriterInv, wpc = "harbor",
           \/ ReportScan /\ UNCHANGED emptied
           \/ ReportNothing
    PROVE  \E row \in Row :
              /\ rows' = [rows EXCEPT ![Last] = row]
              /\ row.results = NoResult /\ row.running \cap row.pending = {}
              /\ Last \notin emptied' =>
                   TaskIds \ (row.pending \cup row.running) \subseteq ran[Last]
              /\ emptied \subseteq emptied' /\ emptied' \subseteq emptied \cup {Last}
<1>0. WriterType /\ Last > 0 /\ rows[Last].results = NoResult
  BY DEF WriterInv, CountInv, RunInv, Running
<1>1. CASE ReportScan /\ UNCHANGED emptied
  <2>1. PICK ended \in SUBSET ran[Last], begun \in SUBSET TaskIds :
          /\ ended \cap begun = {}
          /\ SetLists(TaskIds \ (ended \cup begun), begun)
    BY <1>1 DEF ReportScan
  <2> DEFINE p == TaskIds \ (ended \cup begun)
  <2>2. p \in SUBSET TaskIds /\ begun \in SUBSET TaskIds /\ SetLists(p, begun)
    BY <2>1
  <2>3. PICK row \in Row :
          /\ rows' = [rows EXCEPT ![Last] = row]
          /\ row.pending = p /\ row.running = begun /\ row.results = rows[Last].results
    <3> HIDE DEF p
    <3> QED  BY <1>0, <2>2, SetListsIs
  <2>4. TaskIds \ (row.pending \cup row.running) \subseteq ran[Last]
    BY <2>1, <2>3
  <2> QED  BY <1>0, <1>1, <2>3, <2>4
<1>2. CASE ReportNothing
  <2>1. {} \in SUBSET TaskIds /\ SetLists({}, {}) /\ emptied' = emptied \cup {Last}
    BY <1>2 DEF ReportNothing
  <2>2. PICK row \in Row :
          /\ rows' = [rows EXCEPT ![Last] = row]
          /\ row.pending = {} /\ row.running = {} /\ row.results = rows[Last].results
    BY <1>0, <2>1, SetListsIs
  <2> QED  BY <1>0, <2>1, <2>2
<1> QED  BY <1>1, <1>2

LEMMA ReportStep ==
    ASSUME WriterInv, HarborScans \/ HarborGivesUp \/ HarborEnds
    PROVE  WriterInv' /\ Grows
<1>0. /\ WriterType /\ CountInv /\ RunInv /\ FullInv /\ ListInv
      /\ Last > 0 /\ wpc = "harbor" /\ UNCHANGED <<job, proposed, at, ran>>
      /\ proposed \in Nat /\ Last \in Nat
      /\ ran \in Seq(SUBSET TaskIds) /\ Len(ran) = Last
      /\ wpc' \in {"harbor", "ran"}
  BY DEF WriterInv, WriterType, CountInv, Running, HarborScans, HarborGivesUp,
         HarborEnds, Last, Versions, history
<1>1. \/ ReportScan /\ UNCHANGED emptied
      \/ ReportNothing
  BY DEF HarborScans, HarborGivesUp, HarborEnds, history
<1>2. /\ wpc' = "ran" => DOMAIN done' = TaskIds
      /\ done' \in Results /\ Earned(done', Last)
  <2>1. CASE HarborScans
    BY <1>0, <2>1 DEF HarborScans, WriterType, RunInv, Running
  <2>2. CASE HarborGivesUp
    <3>1. done' = [t \in TaskIds |-> "infra_error"]
      BY <2>2 DEF HarborGivesUp
    <3>2. done' \in [TaskIds -> Outcome]
      BY <3>1 DEF Outcome
    <3> QED  BY <3>1, <3>2, ResultFacts DEF Earned
  <2>3. CASE HarborEnds
    <3>1. PICK rewarded \in SUBSET ran[Last] :
            done' = [t \in TaskIds |-> IF t \in rewarded THEN "scored"
                                                        ELSE "infra_error"]
      BY <2>3 DEF HarborEnds
    <3>2. done' \in [TaskIds -> Outcome]
      BY <3>1 DEF Outcome
    <3> QED  BY <3>1, <3>2, ResultFacts DEF Earned
  <2> QED  BY <2>1, <2>2, <2>3
<1>3. PICK row \in Row :
        /\ rows' = [rows EXCEPT ![Last] = row]
        /\ row.results = NoResult /\ row.running \cap row.pending = {}
        /\ Last \notin emptied' =>
             TaskIds \ (row.pending \cup row.running) \subseteq ran[Last]
        /\ emptied \subseteq emptied' /\ emptied' \subseteq emptied \cup {Last}
  BY <1>0, <1>1, ReportIs
<1>4. ~Full(Last)
  BY <1>0, ResultFacts DEF Full, RunInv, Running
<1>5. /\ ListInv' /\ Last' = Last
      /\ \A k \in 1 .. Last : ran[k] \subseteq ran'[k]
      /\ \A k \in 1 .. Last : Full(k) => Full(k)'
      /\ rows'[Last] = row
      /\ rows' \in Seq(Row) /\ Last' <= MaxIterations + 1 /\ Len(ran') = Last'
      /\ emptied' \subseteq 1 .. Last'
  BY <1>0, <1>3, <1>4, ResultFacts, RowStep
<1>6. WriterType'
  BY <1>0, <1>2, <1>5 DEF WriterType, Running
<1>7. CountInv'
  BY <1>0, <1>5 DEF CountInv, Running, Judging
<1>8. RunInv'
  BY <1>0, <1>2, <1>3, <1>5 DEF RunInv, Running, Earned
<1>9. FullInv'
  BY <1>0, <1>5 DEF FullInv, Judging, RunInv
<1>10. Grows
  BY <1>0, <1>3, <1>5 DEF Grows
<1> QED  BY <1>5, <1>6, <1>7, <1>8, <1>9, <1>10 DEF WriterInv

LEMMA HarborTaskStep ==
    ASSUME WriterInv, HarborTaskEnds
    PROVE  WriterInv' /\ Grows
<1>0. /\ WriterType /\ CountInv /\ RunInv /\ FullInv /\ ListInv
      /\ Last > 0 /\ wpc = "harbor" /\ Last \in Nat /\ proposed \in Nat
      /\ UNCHANGED <<job, rows, proposed, wpc, at, done, emptied>>
  BY DEF WriterInv, WriterType, CountInv, Running, HarborTaskEnds, Last, Versions
<1>1. PICK t \in TaskIds : ran' = [ran EXCEPT ![Last] = @ \cup {t}]
  BY DEF HarborTaskEnds
<1>2. ran \in Seq(SUBSET TaskIds) /\ Len(ran) = Last /\ Last' = Last
  BY <1>0 DEF WriterType, Last
<1> DEFINE new == ran[Last] \cup {t}
<1>3. new \in SUBSET TaskIds /\ ran[Last] \subseteq new /\ ran' = [ran EXCEPT ![Last] = new]
  BY <1>0, <1>1, <1>2
<1> HIDE DEF new
<1>4. /\ ran' \in Seq(SUBSET TaskIds) /\ Len(ran') = Last
      /\ \A k \in 1 .. Last : ran[k] \subseteq ran'[k]
  BY <1>0, <1>2, <1>3
<1>5. \A k : Full(k)' <=> Full(k)
  BY <1>0 DEF Full
<1>6. WriterType'
  BY <1>0, <1>2, <1>4 DEF WriterType
<1>7. CountInv' /\ FullInv'
  BY <1>0, <1>2, <1>5 DEF CountInv, FullInv
<1>8. RunInv'
  BY <1>0, <1>2, <1>4 DEF RunInv, Running, Earned
<1>9. ListInv'
  BY <1>0, <1>2, <1>4, <1>5 DEF ListInv, Lists, Listed, Earned
<1>10. Grows
  BY <1>0, <1>2, <1>4, <1>5 DEF Grows
<1> QED  BY <1>6, <1>7, <1>8, <1>9, <1>10 DEF WriterInv

LEMMA HarborCancelledStep ==
    ASSUME WriterInv, HarborCancelled
    PROVE  WriterInv' /\ Grows
<1>0. /\ WriterType /\ CountInv /\ RunInv /\ FullInv /\ ListInv
      /\ wpc = "harbor" /\ wpc' = "ran" /\ job.status = "cancelled"
      /\ UNCHANGED <<job, rows, proposed, at, done, ran, emptied>>
      /\ Last \in Nat /\ proposed \in Nat
  BY DEF WriterInv, WriterType, HarborCancelled, Last, Versions, history
<1>1. WriterType'
  BY <1>0, MoveStep DEF WriterType, Running
<1>2. CountInv' /\ RunInv'
  BY <1>0, MoveStep DEF CountInv, RunInv, Earned, Running, Judging
<1>3. FullInv'
  BY <1>0, MoveStep DEF FullInv, Judging
<1>4. Grows
  BY <1>0, MoveStep DEF Grows
<1> QED  BY <1>0, <1>1, <1>2, <1>3, <1>4, MoveStep DEF WriterInv

LEMMA RecordStep ==
    ASSUME WriterInv, Record
    PROVE  WriterInv' /\ Grows
<1>0. /\ WriterType /\ CountInv /\ RunInv /\ FullInv /\ ListInv
      /\ Last > 0 /\ wpc = "ran" /\ UNCHANGED <<job, proposed, at, done, ran, emptied>>
      /\ proposed \in Nat /\ Last \in Nat
      /\ ran \in Seq(SUBSET TaskIds) /\ Len(ran) = Last
  BY DEF WriterInv, WriterType, CountInv, Running, Record, Last, Versions, history
<1>1. rows[Last].results = NoResult /\ Earned(done, Last)
  BY <1>0 DEF RunInv, Running
<1>2. ~Full(Last)
  BY <1>1, ResultFacts DEF Full
<1>3. CASE job.status = "cancelled"
  <2>1. /\ rows' = [rows EXCEPT ![Last].phase = "failed", ![Last].pending = {},
                                ![Last].running = {}]
        /\ wpc' = "over"
    BY <1>3 DEF Record
  <2> DEFINE row == [rows[Last] EXCEPT !.phase = "failed", !.pending = {}, !.running = {}]
  <2>2. rows[Last] \in Row /\ Last \in DOMAIN rows
    BY <1>0, RowFacts DEF WriterType, Last
  <2>3. /\ row \in Row /\ row.phase = "failed" /\ row.results = rows[Last].results
        /\ row.pending = {} /\ row.running = {}
    BY <2>2 DEF Row
  <2>4. rows' = [rows EXCEPT ![Last] = row]
    BY <2>1, <2>2, Zenon
  <2> HIDE DEF row
  <2>5. /\ ListInv' /\ Last' = Last
        /\ \A k \in 1 .. Last : ran[k] \subseteq ran'[k]
        /\ \A k \in 1 .. Last : Full(k) => Full(k)'
        /\ rows' \in Seq(Row) /\ Last' <= MaxIterations + 1 /\ Len(ran') = Last'
        /\ emptied' \subseteq 1 .. Last'
    BY <1>0, <1>1, <1>2, <2>3, <2>4, ResultFacts, RowStep
  <2>6. WriterType'
    BY <1>0, <2>1, <2>5 DEF WriterType
  <2>7. CountInv' /\ RunInv'
    BY <1>0, <2>1, <2>5 DEF CountInv, RunInv, Earned, Running, Judging
  <2>8. FullInv'
    BY <1>0, <2>1, <2>5 DEF FullInv, RunInv, Judging
  <2>9. Grows
    BY <1>0, <2>5 DEF Grows
  <2> QED  BY <2>5, <2>6, <2>7, <2>8, <2>9 DEF WriterInv
<1>4. CASE job.status # "cancelled"
  <2>1. /\ rows' = [rows EXCEPT ![Last].phase = "done", ![Last].pending = {},
                                ![Last].running = {}, ![Last].results = done]
        /\ wpc' = "judge"
    BY <1>4 DEF Record
  <2>2. done \in Results
    BY <1>0 DEF WriterType
  <2>3. PICK row \in Row :
          /\ rows' = [rows EXCEPT ![Last] = row]
          /\ row.phase = "done" /\ row.results = done
          /\ row.pending = {} /\ row.running = {}
    BY <1>0, <2>1, <2>2, SetDoneIs
  <2>4. DOMAIN done = TaskIds
    BY <1>0, <1>4 DEF RunInv
  <2>5. /\ ListInv' /\ Last' = Last
        /\ \A k \in 1 .. Last : ran[k] \subseteq ran'[k]
        /\ \A k \in 1 .. Last : Full(k) => Full(k)'
        /\ Full(Last)' <=> DOMAIN row.results = TaskIds
        /\ rows' \in Seq(Row) /\ Last' <= MaxIterations + 1 /\ Len(ran') = Last'
        /\ emptied' \subseteq 1 .. Last'
    <3>1. /\ \A t \in DOMAIN row.results :
                row.results[t] # "infra_error" => t \in ran'[Last]
          /\ DOMAIN row.results = TaskIds /\ row.results # NoResult
          /\ row.running \cap row.pending = {}
      BY <1>0, <1>1, <2>3, <2>4, ResultFacts DEF Earned
    <3> QED  BY <1>0, <1>2, <2>3, <3>1, RowStep
  <2>6. Full(Last)'
    BY <1>1, <2>3, <2>4, <2>5
  <2>7. WriterType'
    BY <1>0, <2>1, <2>5 DEF WriterType, Judging
  <2>8. CountInv' /\ RunInv'
    BY <1>0, <2>1, <2>5 DEF CountInv, RunInv, Earned, Running, Judging
  <2>9. FullInv'
    BY <1>0, <2>1, <2>5, <2>6 DEF FullInv, RunInv, Judging
  <2>10. Grows
    BY <1>0, <2>5 DEF Grows
  <2> QED  BY <2>5, <2>7, <2>8, <2>9, <2>10 DEF WriterInv
<1> QED  BY <1>3, <1>4

(* The steps that write the job row, or nothing. *)
LEMMA JobStep ==
    ASSUME WriterInv, Judge \/ Finish \/ Raise \/ Abort \/ Cancel
    PROVE  WriterInv' /\ Grows
<1>0. /\ WriterType /\ CountInv /\ RunInv /\ FullInv /\ ListInv
      /\ UNCHANGED <<rows, proposed, at, done, ran, emptied>>
      /\ Last \in Nat /\ proposed \in Nat
  BY DEF WriterInv, WriterType, Last, Versions, Judge, Finish, Raise, Abort, Cancel, history
<1>1. /\ ListInv' /\ Last' = Last
      /\ \A k \in 1 .. Last : ran[k] \subseteq ran'[k]
      /\ \A k : Full(k)' <=> Full(k)
      /\ rows' \in Seq(Row) /\ Last' <= MaxIterations + 1
      /\ ran' \in Seq(SUBSET TaskIds) /\ Len(ran') = Last'
      /\ emptied' \subseteq 1 .. Last'
  BY <1>0, MoveStep
<1>2. job.status = "completed" => wpc = "over"
  BY <1>0 DEF RunInv
<1>3. Grows
  BY <1>0, <1>1, <1>2 DEF Grows, Judge, Finish, Raise, Abort, Cancel
<1>4. CASE Judge
  <2>1. /\ wpc = "judge" /\ wpc' = "judged" /\ Last > 0
        /\ job' = [job EXCEPT !.best = Last - 1] \/ job' = job
    BY <1>0, <1>4 DEF Judge, CountInv, Judging
  <2>2. Last - 1 \in Versions /\ Last - 1 # NoVersion
    BY <1>0, <2>1, LimitIsNat DEF WriterType, Versions, NoVersion
  <2>3. job' \in JobType /\ job'.status = job.status /\ job'.best \in {job.best, Last - 1}
    BY <1>0, <2>1, <2>2 DEF WriterType, JobType
  <2>4. WriterType'
    BY <1>0, <1>1, <2>1, <2>3 DEF WriterType, Judging
  <2>5. CountInv' /\ RunInv'
    BY <1>0, <1>1, <2>1, <2>3 DEF CountInv, RunInv, Earned, Running, Judging
  <2>6. FullInv'
    BY <1>0, <1>1, <2>1, <2>2, <2>3 DEF FullInv, Judging
  <2> QED  BY <1>1, <1>3, <2>4, <2>5, <2>6 DEF WriterInv
<1>5. CASE Finish
  <2>1. /\ wpc \in Judging /\ wpc' = "over" /\ job' = [job EXCEPT !.status = "completed"]
    BY <1>5 DEF Finish, Judging
  <2>2. job' \in JobType /\ job'.status = "completed" /\ job'.best = job.best
    BY <1>0, <2>1 DEF WriterType, JobType
  <2>3. WriterType'
    BY <1>0, <1>1, <2>1, <2>2 DEF WriterType
  <2>4. CountInv' /\ RunInv'
    BY <1>0, <1>1, <2>1, <2>2 DEF CountInv, RunInv, Earned, Running, Judging
  <2>5. FullInv'
    BY <1>0, <1>1, <2>1, <2>2 DEF FullInv, CountInv, Judging
  <2> QED  BY <1>1, <1>3, <2>3, <2>4, <2>5 DEF WriterInv
<1>6. CASE Raise \/ Abort
  <2>1. /\ wpc' = "over"
        /\ job' = [job EXCEPT !.status = "failed"] \/ job' = job
    BY <1>6 DEF Raise, Abort
  <2>2. /\ job' \in JobType /\ job'.best = job.best
        /\ job'.status = "completed" => job.status = "completed"
    BY <1>0, <2>1 DEF WriterType, JobType
  <2>3. WriterType'
    BY <1>0, <1>1, <2>1, <2>2 DEF WriterType
  <2>4. CountInv' /\ RunInv'
    BY <1>0, <1>1, <2>1 DEF CountInv, RunInv, Earned, Running, Judging
  <2>5. FullInv'
    BY <1>0, <1>1, <2>1, <2>2 DEF FullInv, Judging
  <2> QED  BY <1>1, <1>3, <2>3, <2>4, <2>5 DEF WriterInv
<1>7. CASE Cancel
  <2>1. /\ wpc' = wpc /\ job' = [job EXCEPT !.status = "cancelled"]
    BY <1>7 DEF Cancel
  <2>2. job' \in JobType /\ job'.best = job.best /\ job'.status = "cancelled"
    BY <1>0, <2>1 DEF WriterType, JobType
  <2>3. WriterType'
    BY <1>0, <1>1, <2>1, <2>2 DEF WriterType
  <2>4. CountInv' /\ RunInv'
    BY <1>0, <1>1, <2>1, <2>2 DEF CountInv, RunInv, Earned, Running, Judging
  <2>5. FullInv'
    BY <1>0, <1>1, <2>1, <2>2 DEF FullInv
  <2> QED  BY <1>1, <1>3, <2>3, <2>4, <2>5 DEF WriterInv
<1> QED  BY <1>4, <1>5, <1>6, <1>7

LEMMA ProposalStep ==
    ASSUME WriterInv, Propose \/ Proposed
    PROVE  WriterInv' /\ Grows
<1>0. /\ WriterType /\ CountInv /\ RunInv /\ FullInv /\ ListInv
      /\ wpc \in Judging /\ Last > 0 /\ Full(Last)
      /\ UNCHANGED <<job, at, done, ran, emptied>>
      /\ Last \in Nat /\ proposed = Last - 1
      /\ ran \in Seq(SUBSET TaskIds) /\ Len(ran) = Last
      /\ job.status \in {"running", "cancelled"}
  BY DEF WriterInv, WriterType, CountInv, FullInv, RunInv, Last, Judging, Propose, Proposed,
         history
<1>1. PICK ph \in {"running_benchmark", "done", "proposing", "failed"} :
          rows' = [rows EXCEPT ![Last].phase = ph]
  BY DEF Propose, Proposed
<1>2. PICK row \in Row :
        /\ rows' = [rows EXCEPT ![Last] = row]
        /\ row.phase = ph /\ row.results = rows[Last].results
        /\ row.pending = rows[Last].pending /\ row.running = rows[Last].running
  BY <1>0, <1>1, SetPhaseIs
<1>3. /\ DOMAIN row.results = TaskIds /\ Earned(row.results, Last)
      /\ Distinct => row.running \cap row.pending = {}
  BY <1>0, <1>2 DEF Full, ListInv, Lists, Listed
<1>4. /\ ListInv' /\ Last' = Last
      /\ \A k \in 1 .. Last : ran[k] \subseteq ran'[k]
      /\ \A k \in 1 .. Last : Full(k) => Full(k)'
      /\ rows' \in Seq(Row) /\ Last' <= MaxIterations + 1 /\ Len(ran') = Last'
      /\ emptied' \subseteq 1 .. Last'
  BY <1>0, <1>2, <1>3, ResultFacts, RowStep DEF Earned
<1>5. /\ wpc' \in {"propose", "over", "unchanged", "begin"}
      /\ wpc' = "propose" => Last <= MaxIterations
      /\ wpc' # "begin" => proposed' = proposed
      /\ wpc' = "begin" => proposed' = proposed + 1 /\ Last <= MaxIterations
  BY <1>0 DEF Propose, Proposed, CountInv
<1>6. WriterType'
  BY <1>0, <1>4, <1>5, LimitIsNat DEF WriterType, Judging, Versions
<1>7. CountInv' /\ RunInv'
  BY <1>0, <1>4, <1>5 DEF CountInv, RunInv, Earned, Running, Judging
<1>8. FullInv'
  BY <1>0, <1>4 DEF FullInv
<1>9. Grows
  BY <1>0, <1>4, <1>5 DEF Grows
<1> QED  BY <1>4, <1>6, <1>7, <1>8, <1>9 DEF WriterInv

LEMMA WriterStep ==
    ASSUME WriterInv, Writer
    PROVE  WriterInv' /\ Grows
  BY BeginStep, AskStep, RunTaskStep, ReportStep, HarborTaskStep, HarborCancelledStep,
     RecordStep, JobStep, ProposalStep
     DEF Writer, Harbor

-----------------------------------------------------------------------------
(* What a reader has loaded and shown stays right while the writers go on. *)
LEMMA ReaderWaits ==
    ASSUME IInv, WriterInv', Grows, UNCHANGED reader
    PROVE  ReaderInv' /\ ShownInv'
<1> USE DEF IInv, ReaderInv, ShownInv
<1>0. /\ UNCHANGED <<rpc, got, shown>> /\ Last \in Nat /\ Last' \in Nat /\ Last <= Last'
      /\ \A k \in 1 .. Last : k \in 1 .. Last' /\ ran[k] \subseteq ran'[k]
  <2>1. Last \in Nat /\ Last' \in Nat
    BY DEF WriterInv, WriterType, Last
  <2> QED  BY <2>1 DEF reader, Grows
<1>1. GotType'
  BY <1>0 DEF GotType
<1>2. GotJobInv'
  BY <1>0 DEF GotJobInv, Grows
<1>3. GotRowsInv'
  <2>1. ASSUME NEW k \in DOMAIN got.rows
        PROVE  Lists(got.rows[k], k)'
    <3>1. /\ k \in 1 .. Last /\ Lists(got.rows[k], k)
          /\ Full(k) => Full(k)'
          /\ ran[k] \subseteq ran'[k] /\ emptied \subseteq emptied' /\ got' = got
      BY <1>0 DEF GotRowsInv, Grows
    <3> QED  BY <3>1 DEF Lists, Listed
  <2> QED  BY <1>0, <2>1 DEF GotRowsInv
<1>4. GotOutcomesInv'
  BY <1>0 DEF GotOutcomesInv, GotRowsInv, Earned, Listed, Grows
<1>5. GotProposedInv'
  BY <1>0 DEF GotProposedInv
<1>6. GotNewestInv'
  BY <1>0 DEF GotNewestInv, GotJobInv, Grows
<1>7. DOMAIN shown'.iterations \subseteq 1 .. Last' /\ ShownType' /\ EffectsComeWithCauses'
  BY <1>0 DEF ShownType, EffectsComeWithCauses, Shown
<1>8. CompletedTasksWereRun'
  BY <1>0 DEF CompletedTasksWereRun, Shown, Grows
<1> QED  BY <1>1, <1>2, <1>3, <1>4, <1>5, <1>6, <1>7, <1>8

-----------------------------------------------------------------------------
(* The reader's statements. *)

LEMMA StillWriter ==
    ASSUME WriterInv, UNCHANGED writer
    PROVE  /\ WriterInv' /\ Last' = Last /\ UNCHANGED <<job, rows, proposed, ran, emptied>>
           /\ \A k : Full(k)' <=> Full(k)
  BY DEF writer, history, Earned, WriterInv, WriterType, CountInv, RunInv, FullInv, ListInv, Lists, Listed, Full, Last

LEMMA StillShown ==
    ASSUME ShownInv, WriterInv, UNCHANGED writer, UNCHANGED shown
    PROVE  ShownInv'
  BY StillWriter DEF ShownInv, ShownType, CompletedTasksWereRun, EffectsComeWithCauses, Shown

(* Storing one field of what is loaded. *)
LEMMA GotFields ==
    ASSUME GotType
    PROVE  /\ \A x : [got EXCEPT !.job = x] =
                  [job |-> x, rows |-> got.rows, outcomes |-> got.outcomes,
                   proposed |-> got.proposed, newest |-> got.newest]
           /\ \A x : [got EXCEPT !.rows = x] =
                  [job |-> got.job, rows |-> x, outcomes |-> got.outcomes,
                   proposed |-> got.proposed, newest |-> got.newest]
           /\ \A x : [got EXCEPT !.outcomes = x] =
                  [job |-> got.job, rows |-> got.rows, outcomes |-> x,
                   proposed |-> got.proposed, newest |-> got.newest]
           /\ \A x : [got EXCEPT !.proposed = x] =
                  [job |-> got.job, rows |-> got.rows, outcomes |-> got.outcomes,
                   proposed |-> x, newest |-> got.newest]
           /\ \A x : [got EXCEPT !.newest = x] =
                  [job |-> got.job, rows |-> got.rows, outcomes |-> got.outcomes,
                   proposed |-> got.proposed, newest |-> x]
  BY DEF GotType

LEMMA ReadJobStep ==
    ASSUME IInv, ReadJob
    PROVE  IInv'
<1> USE DEF IInv, ReaderInv
<1>0. /\ rpc' = "iterations" /\ UNCHANGED writer /\ shown' = shown
      /\ got'.job = job /\ got'.rows = got.rows
      /\ got' = [job |-> job, rows |-> got.rows, outcomes |-> got.outcomes,
                 proposed |-> got.proposed, newest |-> got.newest]
  BY GotFields DEF ReadJob
<1>1. WriterInv' /\ ShownInv'
  BY <1>0, StillWriter, StillShown
<1>2. GotType'
  BY <1>0 DEF GotType, WriterInv, WriterType
<1>3. GotJobInv'
  BY <1>0, StillWriter DEF GotJobInv, GotAll, WriterInv, FullInv
<1>4. GotRowsInv'
  BY <1>0, StillWriter DEF GotRowsInv, Lists, Listed, Full
<1>5. GotOutcomesInv' /\ GotProposedInv' /\ GotNewestInv'
  BY <1>0 DEF GotOutcomesInv, GotOutcomes, GotProposedInv, GotNewestInv
<1> QED  BY <1>1, <1>2, <1>3, <1>4, <1>5

(* Rows loaded together: all of them, or one. *)
LEMMA ReadRowsStep ==
    ASSUME IInv, ReadIterations \/ ReadIteration
    PROVE  IInv'
<1> USE DEF IInv, ReaderInv
<1>0. PICK ks \in SUBSET (1 .. Last) :
          /\ got' = [got EXCEPT !.rows = Loaded(ks)]
          /\ \/ rpc' = "outcomes" /\ ks = 1 .. Last
             \/ rpc' = "detail"
          /\ UNCHANGED writer /\ shown' = shown
  <2>1. CASE ReadIterations
    BY <2>1 DEF ReadIterations
  <2>2. CASE ReadIteration
    <3>1. PICK k \in 1 .. Last : got' = [got EXCEPT !.rows = Loaded({k})]
      BY <2>2 DEF ReadIteration
    <3>2. {k} \in SUBSET (1 .. Last)
      OBVIOUS
    <3> QED  BY <2>2, <3>1, <3>2 DEF ReadIteration
  <2> QED  BY <2>1, <2>2
<1>1. /\ got' = [job |-> got.job, rows |-> Loaded(ks), outcomes |-> got.outcomes,
                 proposed |-> got.proposed, newest |-> got.newest]
      /\ got'.job = got.job /\ got'.rows = Loaded(ks)
  BY <1>0, GotFields
<1>2. WriterInv' /\ ShownInv'
  BY <1>0, StillWriter, StillShown
<1>3. GotType'
  BY <1>0, <1>1 DEF GotType, GotAll
<1>4. /\ DOMAIN got'.rows = ks
      /\ \A k \in ks : /\ got'.rows[k].phase = rows[k].phase
                       /\ got'.rows[k].pending = rows[k].pending
                       /\ got'.rows[k].running = rows[k].running
  BY <1>1 DEF Loaded
<1>5. GotJobInv'
  BY <1>0, <1>1, <1>4, StillWriter DEF GotJobInv, GotAll
<1>6. GotRowsInv'
  BY <1>0, <1>4, StillWriter DEF GotRowsInv, Lists, Listed, Full, WriterInv, ListInv
<1>7. GotOutcomesInv' /\ GotProposedInv' /\ GotNewestInv'
  BY <1>0 DEF GotOutcomesInv, GotOutcomes, GotProposedInv, GotNewestInv
<1> QED  BY <1>2, <1>3, <1>5, <1>6, <1>7

LEMMA ReadOutcomesStep ==
    ASSUME IInv, ReadOutcomes
    PROVE  IInv'
<1> USE DEF IInv, ReaderInv
<1> DEFINE results == [k \in DOMAIN got.rows |-> rows[k].results]
<1>0. /\ got' = [got EXCEPT !.outcomes = results]
      /\ \/ rpc = "outcomes" /\ rpc' = "proposed"
         \/ rpc = "detail" /\ rpc' = "its proposal"
      /\ UNCHANGED writer /\ shown' = shown
  BY DEF ReadOutcomes
<1>1. /\ got' = [job |-> got.job, rows |-> got.rows, outcomes |-> results,
                 proposed |-> got.proposed, newest |-> got.newest]
      /\ got'.job = got.job /\ got'.rows = got.rows /\ got'.outcomes = results
  BY <1>0, GotFields
<1>2. WriterInv' /\ ShownInv'
  BY <1>0, StillWriter, StillShown
<1>3. GotType'
  BY <1>0, <1>1 DEF GotType, GotAll, GotOutcomes
<1>4. GotJobInv'
  BY <1>0, <1>1, StillWriter DEF GotJobInv, GotAll
<1>5. GotRowsInv'
  BY <1>0, <1>1, StillWriter DEF GotRowsInv, Lists, Listed, Full
<1>6. GotOutcomesInv'
  <2>0. Last \in Nat /\ DOMAIN got.rows \subseteq 1 .. Last
    BY DEF GotRowsInv, WriterInv, WriterType, Last
  <2>1. \A k \in DOMAIN got.rows :
          /\ k \in 1 .. Last
          /\ k + 1 \in DOMAIN got.rows => k < Last
    BY <2>0
  <2>4. /\ DOMAIN got'.outcomes = DOMAIN got'.rows
        /\ \A k \in DOMAIN got'.rows : got'.outcomes[k] = rows[k].results
    BY <1>1
  <2>2. \A k \in DOMAIN got.rows :
          /\ Earned(rows[k].results, k)
          /\ rows[k].results = NoResult => Listed(got.rows[k], k)
          /\ rows[k].results # NoResult => DOMAIN rows[k].results = TaskIds
          /\ k < Last => DOMAIN rows[k].results = TaskIds
    BY <2>1, ResultFacts DEF WriterInv, ListInv, FullInv, Full, GotRowsInv, Lists
  <2>3. rpc' \in GotAll /\ got.job.best # NoVersion =>
          /\ got.job.best + 1 \in DOMAIN got.rows
          /\ DOMAIN rows[got.job.best + 1].results = TaskIds
    BY <1>0 DEF GotJobInv, GotAll, Full
  <2> HIDE DEF results
  <2>5. ran' = ran /\ emptied' = emptied
    BY <1>0 DEF writer, history
  <2>6. \A k \in DOMAIN got'.rows :
          /\ Earned(got.outcomes[k], k)'
          /\ got'.outcomes[k] = NoResult => Listed(got.rows[k], k)'
          /\ got'.outcomes[k] # NoResult => DOMAIN got'.outcomes[k] = TaskIds
          /\ k + 1 \in DOMAIN got'.rows => DOMAIN got'.outcomes[k] = TaskIds
    <3>1. ASSUME NEW k \in DOMAIN got.rows
          PROVE  Earned(got.outcomes[k], k)' /\ (Listed(got.rows[k], k) => Listed(got.rows[k], k)')
      BY <1>1, <2>2, <2>4, <2>5 DEF Earned, Listed
    <3> QED  BY <1>1, <2>1, <2>2, <2>4, <3>1
  <2>7. rpc' \in GotAll /\ got'.job.best # NoVersion =>
          DOMAIN got'.outcomes[got'.job.best + 1] = TaskIds
    BY <1>1, <2>3, <2>4
  <2> QED  BY <2>4, <2>6, <2>7 DEF GotOutcomesInv
<1>7. GotProposedInv' /\ GotNewestInv'
  BY <1>0 DEF GotProposedInv, GotNewestInv
<1> QED  BY <1>2, <1>3, <1>4, <1>5, <1>6, <1>7

LEMMA ReadProposedStep ==
    ASSUME IInv, ReadProposed
    PROVE  IInv'
<1> USE DEF IInv, ReaderInv
<1>0. /\ UNCHANGED writer /\ shown' = shown
      /\ \/ rpc = "proposed" /\ rpc' = "newest"
         \/ rpc = "its proposal" /\ rpc' = "respond"
      /\ got' = [job |-> got.job, rows |-> got.rows, outcomes |-> got.outcomes,
                 proposed |-> proposed, newest |-> got.newest]
      /\ got'.job = got.job /\ got'.rows = got.rows /\ got'.outcomes = got.outcomes
      /\ got'.proposed = proposed
  BY GotFields DEF ReadProposed
<1>1. WriterInv' /\ ShownInv'
  BY <1>0, StillWriter, StillShown
<1>2. Last \in Nat /\ proposed \in Nat /\ proposed >= Last - 1
  BY DEF WriterInv, WriterType, CountInv, Last, Versions
<1>3. GotType'
  BY <1>0, <1>2 DEF GotType, GotAll, GotOutcomes
<1>4. GotJobInv'
  BY <1>0, StillWriter DEF GotJobInv, GotAll
<1>5. GotRowsInv'
  BY <1>0, StillWriter DEF GotRowsInv, Lists, Listed, Full
<1>6. GotOutcomesInv'
  BY <1>0, StillWriter DEF GotOutcomesInv, GotOutcomes, GotAll, Earned, Listed
<1>7. GotProposedInv'
  <2>1. \A k \in DOMAIN got.rows : proposed >= k - 1
    BY <1>2 DEF GotRowsInv
  <2> QED  BY <1>0, <2>1 DEF GotProposedInv
<1>8. GotNewestInv'
  BY <1>0 DEF GotNewestInv
<1> QED  BY <1>1, <1>3, <1>4, <1>5, <1>6, <1>7, <1>8

LEMMA ReadNewestStep ==
    ASSUME IInv, ReadNewest
    PROVE  IInv'
<1> USE DEF IInv, ReaderInv
<1>0. /\ UNCHANGED writer /\ shown' = shown
      /\ rpc = "newest" /\ rpc' = "latest"
      /\ got' = [job |-> got.job, rows |-> got.rows, outcomes |-> got.outcomes,
                 proposed |-> got.proposed, newest |-> Last]
      /\ got'.job = got.job /\ got'.rows = got.rows /\ got'.outcomes = got.outcomes
      /\ got'.proposed = got.proposed /\ got'.newest = Last
  BY GotFields DEF ReadNewest
<1>1. WriterInv' /\ ShownInv'
  BY <1>0, StillWriter, StillShown
<1>2. GotType'
  BY <1>0 DEF GotType, GotAll, GotOutcomes
<1>3. GotJobInv'
  BY <1>0, StillWriter DEF GotJobInv, GotAll
<1>4. GotRowsInv'
  BY <1>0, StillWriter DEF GotRowsInv, Lists, Listed, Full
<1>5. GotOutcomesInv'
  BY <1>0, StillWriter DEF GotOutcomesInv, GotOutcomes, GotAll, Earned, Listed
<1>6. GotProposedInv'
  BY <1>0 DEF GotProposedInv
<1>7. GotNewestInv'
  BY <1>0, StillWriter DEF GotNewestInv
<1> QED  BY <1>1, <1>2, <1>3, <1>4, <1>5, <1>6, <1>7

-----------------------------------------------------------------------------
(* The response. *)

LEMMA SummaryIs ==
    ASSUME NEW row, NEW outcome, NEW k, Lists(row, k), ran[k] \subseteq TaskIds,
           Earned(outcome, k), outcome = NoResult => Listed(row, k),
           outcome # NoResult => DOMAIN outcome = TaskIds
    PROVE  LET s == Summary(row, outcome)
           IN  /\ s.completed \cup s.running \cup s.pending = TaskIds
               /\ Distinct => s.running \cap s.pending = {}
               /\ \A t \in s.completed \ ran[k] :
                    IF outcome = NoResult THEN s.phase = "failed" \/ k \in emptied
                                          ELSE outcome[t] = "infra_error"
               /\ s.outcome = outcome
<1>1. CASE outcome = NoResult
  BY <1>1 DEF Summary, Lists, Listed
<1>2. CASE outcome # NoResult
  BY <1>2 DEF Summary, Lists, Earned
<1> QED  BY <1>1, <1>2

(* What Show puts together, whichever endpoint it is for. *)
LEMMA ShowIs ==
    ASSUME IInv, NEW whole, NEW latest, Show(whole, latest), rpc \in {"latest", "respond"}
    PROVE  /\ shown'.whole = whole /\ shown'.status = got.job.status
           /\ shown'.best = got.job.best /\ shown'.proposed = got.proposed
           /\ shown'.latest = latest
           /\ DOMAIN shown'.iterations = DOMAIN got.rows
           /\ \A k \in DOMAIN got.rows :
                /\ k \in 1 .. Last
                /\ shown'.iterations[k] = Summary(got.rows[k], got.outcomes[k])
                /\ shown'.iterations[k].outcome = got.outcomes[k]
           /\ ShownType' /\ CompletedTasksWereRun'
           /\ rpc' = "over" /\ got' = got /\ UNCHANGED writer
<1>1. /\ shown' = [some |-> TRUE, whole |-> whole,
                   status |-> got.job.status, best |-> got.job.best,
                   iterations |-> [k \in DOMAIN got.rows |->
                                      Summary(got.rows[k], got.outcomes[k])],
                   proposed |-> got.proposed, latest |-> latest]
      /\ rpc' = "over" /\ got' = got /\ UNCHANGED writer
  BY DEF Show
<1>2. /\ DOMAIN shown'.iterations = DOMAIN got.rows
      /\ \A k \in DOMAIN got.rows :
            shown'.iterations[k] = Summary(got.rows[k], got.outcomes[k])
  BY <1>1
<1>3. \A k \in DOMAIN got.rows :
        /\ k \in 1 .. Last /\ Lists(got.rows[k], k) /\ ran[k] \subseteq TaskIds
        /\ Earned(got.outcomes[k], k)
        /\ got.outcomes[k] = NoResult => Listed(got.rows[k], k)
        /\ got.outcomes[k] # NoResult => DOMAIN got.outcomes[k] = TaskIds
  <2>1. \A k \in 1 .. Last : ran[k] \subseteq TaskIds
    BY DEF IInv, WriterInv, WriterType, Last
  <2> QED  BY <2>1 DEF IInv, ReaderInv, GotRowsInv, GotOutcomesInv, GotOutcomes
<1>4. ASSUME NEW k \in DOMAIN got.rows
      PROVE  LET s == shown'.iterations[k]
             IN  /\ s.completed \cup s.running \cup s.pending = TaskIds
                 /\ Distinct => s.running \cap s.pending = {}
                 /\ \A t \in s.completed \ ran[k] :
                      IF got.outcomes[k] = NoResult
                        THEN s.phase = "failed" \/ k \in emptied
                        ELSE got.outcomes[k][t] = "infra_error"
                 /\ s.outcome = got.outcomes[k]
  BY <1>2, <1>3, SummaryIs
<1>5. ShownType'
  BY <1>2, <1>4 DEF ShownType, Shown
<1>6. CompletedTasksWereRun'
  <2>1. ran' = ran /\ emptied' = emptied
    BY <1>1 DEF writer, history
  <2> QED  BY <1>2, <1>4, <2>1 DEF CompletedTasksWereRun, Shown
<1> QED  BY <1>1, <1>2, <1>3, <1>4, <1>5, <1>6

LEMMA RespondStep ==
    ASSUME IInv, Respond \/ RespondDetail
    PROVE  IInv'
<1> USE DEF IInv, ReaderInv
<1>a. PICK whole \in BOOLEAN : \E latest :
          /\ Show(whole, latest)
          /\ rpc \in {"latest", "respond"}
          /\ whole => /\ rpc = "latest"
                      /\ latest = IF got.newest = 0 THEN NoResult
                                  ELSE rows[got.newest].results
  BY DEF Respond, RespondDetail
<1>0. PICK latest :
          /\ Show(whole, latest)
          /\ rpc \in {"latest", "respond"}
          /\ whole => /\ rpc = "latest"
                      /\ latest = IF got.newest = 0 THEN NoResult
                                  ELSE rows[got.newest].results
  BY <1>a
<1>1. /\ shown'.whole = whole /\ shown'.status = got.job.status
      /\ shown'.best = got.job.best /\ shown'.proposed = got.proposed
      /\ shown'.latest = latest
      /\ DOMAIN shown'.iterations = DOMAIN got.rows
      /\ \A k \in DOMAIN got.rows :
           /\ k \in 1 .. Last
           /\ shown'.iterations[k] = Summary(got.rows[k], got.outcomes[k])
           /\ shown'.iterations[k].outcome = got.outcomes[k]
      /\ ShownType' /\ CompletedTasksWereRun'
      /\ rpc' = "over" /\ got' = got /\ UNCHANGED writer
  BY <1>0, ShowIs
<1>2. WriterInv' /\ Last' = Last
  BY <1>1, StillWriter
<1>3. GotType' /\ GotJobInv' /\ GotRowsInv'
  BY <1>1, StillWriter DEF GotType, GotJobInv, GotRowsInv, Lists, Listed, Full, GotAll
<1>4. GotOutcomesInv' /\ GotProposedInv' /\ GotNewestInv'
  BY <1>1 DEF GotOutcomesInv, GotOutcomes, GotProposedInv, GotNewestInv
<1>5. whole /\ shown'.status = "completed" => DOMAIN shown'.latest = TaskIds
  <2>1. ASSUME whole, got.job.status = "completed"
        PROVE  DOMAIN latest = TaskIds
    <3>1. got.newest = Last
      BY <1>0, <2>1 DEF GotNewestInv
    <3>2. Last > 0 /\ Full(Last) /\ Last \in Nat
      BY <2>1 DEF GotJobInv, WriterInv, FullInv, WriterType, Last
    <3> QED  BY <1>0, <2>1, <3>1, <3>2 DEF Full
  <2> QED  BY <1>1, <2>1
<1>6. whole /\ shown'.best # NoVersion =>
        /\ shown'.best + 1 \in DOMAIN shown'.iterations
        /\ DOMAIN shown'.iterations[shown'.best + 1].outcome = TaskIds
  BY <1>0, <1>1 DEF GotJobInv, GotOutcomesInv, GotAll, GotOutcomes
<1>7. \A k \in DOMAIN shown'.iterations :
        /\ k + 1 \in DOMAIN shown'.iterations =>
             DOMAIN shown'.iterations[k].outcome = TaskIds
        /\ shown'.proposed >= k - 1
  <2>1. \A k \in DOMAIN got.rows :
          k + 1 \in DOMAIN got.rows => DOMAIN got.outcomes[k] = TaskIds
    BY <1>0 DEF GotOutcomesInv, GotOutcomes
  <2>2. \A k \in DOMAIN got.rows : got.proposed >= k - 1
    BY <1>0 DEF GotProposedInv
  <2> QED  BY <1>1, <2>1, <2>2
<1>8. EffectsComeWithCauses'
  BY <1>1, <1>5, <1>6, <1>7 DEF EffectsComeWithCauses, Shown
<1>9. ShownInv'
  BY <1>1, <1>2, <1>8 DEF ShownInv
<1> QED  BY <1>2, <1>3, <1>4, <1>9

-----------------------------------------------------------------------------
(* The inductive invariant. *)

LEMMA InitInv == Init => IInv
<1> SUFFICES ASSUME Init
             PROVE  IInv
  OBVIOUS
<1>0. /\ job \in JobType /\ job.status = "running" /\ job.best = NoVersion
      /\ rows = <<>> /\ ran = <<>> /\ emptied = {}
      /\ proposed = 0 /\ wpc = "begin" /\ at = 1 /\ done = NoResult /\ rpc = "job"
      /\ got = [job |-> job, rows |-> <<>>, outcomes |-> <<>>, proposed |-> 0, newest |-> 0]
      /\ shown = Nothing /\ Last = 0
  BY DEF Init, Last, JobType
<1>1. WriterType
  BY <1>0, LimitIsNat, TasksAreNamed, ResultFacts DEF WriterType, JobType, Versions
<1>2. CountInv /\ RunInv /\ FullInv /\ ListInv
  BY <1>0 DEF CountInv, RunInv, FullInv, ListInv, Running, Judging
<1>3. GotType
  BY <1>0, <1>1 DEF GotType, WriterType
<1>4. GotJobInv /\ GotRowsInv /\ GotOutcomesInv /\ GotProposedInv /\ GotNewestInv
  BY <1>0 DEF GotJobInv, GotRowsInv, GotOutcomesInv, GotOutcomes, GotProposedInv, GotNewestInv
<1>5. DOMAIN shown.iterations = {} /\ ~shown.whole
  BY <1>0 DEF Nothing
<1>6. ShownInv
  BY <1>5 DEF ShownInv, ShownType, CompletedTasksWereRun, EffectsComeWithCauses
<1> QED  BY <1>1, <1>2, <1>3, <1>4, <1>6 DEF IInv, WriterInv, ReaderInv

LEMMA StepInv == IInv /\ [Next]_vars => IInv'
<1> SUFFICES ASSUME IInv, [Next]_vars
             PROVE  IInv'
  OBVIOUS
<1>1. CASE Writer
  <2>1. WriterInv' /\ Grows
    BY <1>1, WriterStep DEF IInv
  <2>2. UNCHANGED reader
    BY <1>1 DEF Writer, Begin, Ask, RunTask, Record, Judge, Finish, Propose, Proposed,
                Raise, Abort, Cancel, Harbor, HarborTaskEnds, HarborScans, HarborGivesUp,
                HarborEnds, HarborCancelled
  <2> QED  BY <2>1, <2>2, ReaderWaits DEF IInv
<1>2. CASE Reader
  BY <1>2, ReadJobStep, ReadRowsStep, ReadOutcomesStep, ReadProposedStep,
     ReadNewestStep, RespondStep
     DEF Reader
<1>3. CASE UNCHANGED vars
  <2>1. WriterInv' /\ UNCHANGED <<reader, writer>>
    BY <1>3, StillWriter DEF vars, IInv
  <2>2. Grows
    BY <2>1, StillWriter DEF Grows, writer, IInv, WriterInv, WriterType, Last, Versions
  <2> QED  BY <2>1, <2>2, ReaderWaits DEF IInv
<1> QED  BY <1>1, <1>2, <1>3 DEF Next

LEMMA InvHolds == Spec => []IInv
  BY InitInv, StepInv, PTL DEF Spec

-----------------------------------------------------------------------------
(* Every reachable state is well-typed, and whatever is shown of an iteration
   accounts for every task. *)
THEOREM TypeCorrect == Spec => []TypeOK
<1>1. ASSUME IInv
      PROVE  TypeOK
  <2>1. WriterType /\ ShownType
    BY <1>1 DEF IInv, WriterInv, ShownInv
  <2>2. /\ job \in [executor : {"simulated", "harbor"},
                     status : {"running", "completed", "failed", "cancelled"},
                     best : Versions \cup {NoVersion}]
        /\ Len(rows) <= MaxIterations + 1 /\ Len(ran) = Len(rows)
        /\ emptied \subseteq 1 .. Len(rows)
    BY <2>1 DEF WriterType, JobType, Last
  <2> QED  BY <2>1, <2>2 DEF WriterType, ShownType, TypeOK
<1> QED  BY <1>1, InvHolds, PTL

(* However statements and commits interleave, and under either executor, a task
   that was not run is shown as completed only as an infra_error, or while there are
   no results, of an iteration that a cancellation closed or that Harbor emptied. *)
THEOREM CompletedMeansRun == Spec => []CompletedTasksWereRun
<1>1. IInv => CompletedTasksWereRun
  BY DEF IInv, ShownInv
<1> QED  BY <1>1, InvHolds, PTL

(* A response put together from several moments shows no effect without its
   cause, for any number of tasks and iterations. *)
THEOREM CausesAreShown == Spec => []EffectsComeWithCauses
<1>1. IInv => EffectsComeWithCauses
  BY DEF IInv, ShownInv
<1> QED  BY <1>1, InvHolds, PTL
=============================================================================
