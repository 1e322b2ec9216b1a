--------------------------- MODULE HillClimbProofs ---------------------------
(* Proofs about HillClimb: for every number of iterations, every patience and
   every set of outcomes, the best version is the first maximum, acceptance is
   strict improvement and no_improve counts the iterations since the best. *)
EXTENDS HillClimb, TLAPS

(* The inductive invariant. Before the baseline nothing is judged; after it the
   judged iterations are an initial segment that ends `misses` after the best
   one, which beats everything before it and is not beaten after it. *)
Baseline ==
    best = NoIter =>
        /\ misses = 0
        /\ accepted = {}
        /\ score = [k \in IterNos |-> NoScore]

Segment ==
    best # NoIter =>
        /\ best + misses \in IterNos
        /\ \A k \in IterNos : score[k] # NoScore <=> k <= best + misses

Climbed ==
    best # NoIter =>
        /\ \A k \in IterNos : k < best => score[k] < score[best]
        /\ \A k \in IterNos : score[k] <= score[best]
        /\ \A k \in IterNos : k \in accepted <=>
               score[k] # NoScore /\ \A j \in IterNos : j < k => score[j] < score[k]

IInv == TypeOK /\ Baseline /\ Segment /\ Climbed /\ GoesOnOnlyWithinBounds

USE LoopBounds, OutcomesType DEF IterNos, NoScore, NoIter

(* The stop reason a verdict gives is one of the declared ones. *)
LEMMA VerdictType ==
    ASSUME NEW k, NEW m, NEW o
    PROVE  Verdict(k, m, o) \in StopReasons \cup {"none"}
BY DEF Verdict, StopReasons

(* The first iteration without a score follows the last judged one. *)
LEMMA NextFollowsSegment ==
    ASSUME IInv, NEW k \in IterNos, IsNext(k)
    PROVE  /\ best = NoIter => k = 0
           /\ best # NoIter => k = best + misses + 1
<1> USE DEF IInv, TypeOK
<1>1. CASE best = NoIter
  <2>1. \A j \in 0 .. k - 1 : score[j] = NoScore  BY <1>1 DEF Baseline
  <2>2. 0 .. k - 1 = {}  BY <2>1 DEF IsNext
  <2>3. QED  BY <1>1, <2>2
<1>2. CASE best # NoIter
  <2>1. k > best + misses  BY <1>2 DEF Segment, IsNext
  <2>2. SUFFICES ASSUME k > best + misses + 1 PROVE FALSE  BY <1>2, <2>1
  <2>3. best + misses + 1 \in 0 .. k - 1 /\ best + misses + 1 \in IterNos  BY <1>2, <2>2
  <2>4. score[best + misses + 1] = NoScore  BY <1>2, <2>3 DEF Segment
  <2>5. QED  BY <2>3, <2>4 DEF IsNext
<1>3. QED  BY <1>1, <1>2

(* Judging an iteration keeps the invariant. *)
LEMMA JudgeStep ==
    ASSUME IInv, NEW k \in IterNos, NEW o \in Outcomes, Judge(k, o)
    PROVE  IInv'
<1> DEFINE s == o.score
<1>1. s \in Nat  OBVIOUS
<1>2. /\ best = NoIter => k = 0
      /\ best # NoIter => k = best + misses + 1
  BY NextFollowsSegment DEF Judge
<1>3. /\ score' \in [IterNos -> Nat \cup {NoScore}]
      /\ score'[k] = s
      /\ \A j \in IterNos : j # k => score'[j] = score[j]
  BY <1>1 DEF Judge, IInv, TypeOK
<1>4. CASE Accept(k, o)
  <2>1. accepted' = accepted \cup {k} /\ best' = k /\ misses' = 0  BY <1>4 DEF Accept
  <2>2. \A j \in IterNos : j < k => score[j] < s
    BY <1>1, <1>2, <1>4 DEF Accept, Improves, IInv, TypeOK, Climbed
  <2>3. \A j \in IterNos : j > k => score[j] = NoScore
    BY <1>2 DEF IInv, TypeOK, Baseline, Segment
  <2>4. TypeOK'
    BY <1>3, <2>1, VerdictType DEF IInv, TypeOK, Judge
  <2>5. Baseline' /\ Segment'
    BY <1>1, <1>2, <1>3, <2>1, <2>3 DEF Baseline, Segment, IInv, TypeOK
  <2>6. Climbed'
    BY <1>1, <1>2, <1>3, <2>1, <2>2, <2>3 DEF Climbed, Baseline, IInv, TypeOK
  <2>7. GoesOnOnlyWithinBounds'
    BY <2>1 DEF GoesOnOnlyWithinBounds, Judge, Verdict
  <2>8. QED  BY <2>4, <2>5, <2>6, <2>7 DEF IInv
<1>5. CASE Reject(k, o)
  <2>1. accepted' = accepted /\ best' = best /\ misses' = misses + 1
    BY <1>5 DEF Reject
  <2>2. best # NoIter /\ k = best + misses + 1 /\ s <= score[best] /\ score[best] # NoScore
    BY <1>1, <1>2, <1>5 DEF Reject, Improves, IInv, TypeOK, Segment
  <2>3. TypeOK'
    BY <1>3, <2>1, VerdictType DEF IInv, TypeOK, Judge
  <2>4. Baseline' /\ Segment'
    BY <1>1, <1>3, <2>1, <2>2 DEF Baseline, Segment, IInv, TypeOK
  <2>5. Climbed'
    <3>1. best \in IterNos /\ best < k /\ score'[best] = score[best]
      BY <1>3, <2>2 DEF IInv, TypeOK
    <3>2. \A j \in IterNos : j > k => score[j] = NoScore
      BY <2>2 DEF IInv, TypeOK, Segment
    <3>3. /\ \A j \in IterNos : j < best => score'[j] < score'[best]
          /\ \A j \in IterNos : score'[j] <= score'[best]
      <4>1. /\ \A j \in IterNos : j < best => score[j] < score[best]
            /\ \A j \in IterNos : score[j] <= score[best]
        BY <2>2 DEF Climbed, IInv
      <4>2. \A j \in IterNos : j < best => score'[j] = score[j]
        BY <1>3, <3>1
      <4>3. \A j \in IterNos : score'[j] = score[j] \/ score'[j] = s
        BY <1>3
      <4>4. QED  BY <2>2, <3>1, <4>1, <4>2, <4>3
    <3>4. k \notin accepted
      BY <2>2 DEF Climbed, Segment, IInv, TypeOK
    <3>5. ASSUME NEW i \in IterNos
          PROVE  i \in accepted <=>
                    score'[i] # NoScore /\ \A j \in IterNos : j < i => score'[j] < score'[i]
      <4>1. CASE i = k
        BY <1>1, <1>3, <2>2, <3>1, <3>4, <4>1
      <4>2. CASE i < k
        BY <1>3, <2>2, <4>2 DEF Climbed, IInv, TypeOK
      <4>3. CASE i > k
        BY <1>3, <2>2, <3>2, <4>3 DEF Climbed, IInv, TypeOK
      <4>4. QED  BY <4>1, <4>2, <4>3
    <3>6. QED  BY <2>1, <3>3, <3>5 DEF Climbed
  <2>6. GoesOnOnlyWithinBounds'
    BY <2>1, <2>2 DEF GoesOnOnlyWithinBounds, Judge, Verdict, IInv, TypeOK
  <2>7. QED  BY <2>3, <2>4, <2>5, <2>6 DEF IInv
<1>6. QED  BY <1>4, <1>5 DEF Judge

(* IInv is inductive, so it holds in every reachable state. *)
THEOREM Invariance == Spec => []IInv
<1>1. Init => IInv
  BY DEF Init, IInv, TypeOK, Baseline, Segment, Climbed, GoesOnOnlyWithinBounds
<1>2. IInv /\ [Next]_vars => IInv'
  <2>1. SUFFICES ASSUME IInv, [Next]_vars PROVE IInv'  OBVIOUS
  <2>2. CASE \E k \in IterNos, o \in Outcomes : Judge(k, o)
    BY <2>1, <2>2, JudgeStep
  <2>3. CASE \E r \in {"no_improvement", "cancelled", "error"} : Halt(r)
    BY <2>1, <2>3 DEF Halt, IInv, TypeOK, StopReasons, Baseline, Segment, Climbed,
                      GoesOnOnlyWithinBounds
  <2>4. CASE UNCHANGED vars
    BY <2>1, <2>4 DEF vars, IInv, TypeOK, Baseline, Segment, Climbed,
                      GoesOnOnlyWithinBounds
  <2>5. QED  BY <2>1, <2>2, <2>3, <2>4 DEF Next
<1>3. QED  BY <1>1, <1>2, PTL DEF Spec

(* Every variable keeps its type. *)
THEOREM TypeCorrect == Spec => []TypeOK
BY Invariance, PTL DEF IInv

(* Acceptance is strict improvement over the whole history (README.md:114). *)
THEOREM AcceptanceIsStrictImprovement == Spec => []AcceptedAreRecords
<1>1. ASSUME IInv PROVE AcceptedAreRecords
  <2>1. CASE best = NoIter
    <3>1. accepted = {} /\ Judged = {}  BY <1>1, <2>1 DEF IInv, Baseline, Judged
    <3>2. QED  BY <3>1 DEF AcceptedAreRecords
  <2>2. CASE best # NoIter
    <3>1. \A k \in IterNos : k \in accepted <=>
             k \in Judged /\ \A j \in 0 .. k - 1 : score[j] < score[k]
      <4>1. \A k \in IterNos : 0 .. k - 1 = {j \in IterNos : j < k}  OBVIOUS
      <4>2. QED  BY <1>1, <2>2, <4>1 DEF IInv, Climbed, Judged
    <3>2. accepted \subseteq IterNos /\ Judged \subseteq IterNos
      BY <1>1 DEF IInv, TypeOK, Judged
    <3>3. QED  BY <3>1, <3>2 DEF AcceptedAreRecords
  <2>3. QED  BY <2>1, <2>2
<1>2. QED  BY <1>1, Invariance, PTL

(* The best version is the first to have reached the highest score. *)
THEOREM BestIsRight == Spec => []BestIsFirstMaximum
<1>1. IInv => BestIsFirstMaximum
  BY DEF IInv, TypeOK, Segment, Climbed, BestIsFirstMaximum, Judged
<1>2. QED  BY <1>1, Invariance, PTL

(* no_improve is the number of iterations since the best one. *)
THEOREM MissesAreRight == Spec => []MissesCountSinceBest
<1>1. IInv => MissesCountSinceBest
  BY DEF IInv, TypeOK, Segment, MissesCountSinceBest, Judged
<1>2. QED  BY <1>1, Invariance, PTL

(* The loop goes on only with patience and iterations left. *)
THEOREM BoundsAreKept == Spec => []GoesOnOnlyWithinBounds
BY Invariance, PTL DEF IInv

(* The history is append-only and the best score never goes down. *)
THEOREM BestScoreIsMonotone == Spec => BestNeverWorsens
<1>1. ASSUME IInv, [Next]_vars
      PROVE  [ /\ \A k \in Judged : score'[k] = score[k]
               /\ accepted \subseteq accepted'
               /\ best # NoIter => score'[best'] >= score[best] ]_vars
  <2>1. SUFFICES ASSUME Next
                 PROVE  /\ \A k \in Judged : score'[k] = score[k]
                        /\ accepted \subseteq accepted'
                        /\ best # NoIter => score'[best'] >= score[best]
    BY <1>1
  <2>2. CASE \E k \in IterNos, o \in Outcomes : Judge(k, o)
    <3>1. PICK k \in IterNos, o \in Outcomes : Judge(k, o)  BY <2>2
    <3>2. score[k] = NoScore /\ score' = [score EXCEPT ![k] = o.score]
      BY <3>1 DEF Judge, IsNext
    <3>3. o.score \in Nat  OBVIOUS
    <3>4. best # NoIter => best # k /\ score[best] \in Nat
      BY <1>1, <3>2 DEF IInv, TypeOK, Segment
    <3>5. CASE Accept(k, o)
      BY <1>1, <3>2, <3>3, <3>4, <3>5 DEF Accept, Improves, Judged, IInv, TypeOK
    <3>6. CASE Reject(k, o)
      BY <1>1, <3>2, <3>3, <3>4, <3>6 DEF Reject, Judged, IInv, TypeOK
    <3>7. QED  BY <3>1, <3>5, <3>6 DEF Judge
  <2>3. CASE \E r \in {"no_improvement", "cancelled", "error"} : Halt(r)
    BY <1>1, <2>3 DEF Halt, Judged, IInv, TypeOK, Segment
  <2>4. QED  BY <2>1, <2>2, <2>3 DEF Next
<1>2. QED  BY <1>1, Invariance, PTL DEF Spec, BestNeverWorsens
=============================================================================
