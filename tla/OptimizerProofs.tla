--------------------------- MODULE OptimizerProofs ----------------------------
(***************************************************************************)
(* Proofs about a job's proposals, for any evidence, any agents a model may *)
(* write, any template and any number of requests: what the budgets leave   *)
(* of the evidence, the types, that every version can run, that a model's   *)
(* failure is contained, and that fixed edits are made once. The budgets    *)
(* are recursive functions, so their lemmas are by induction; the theorems  *)
(* of the library take an operator, so the induction here is on the set of  *)
(* the numbers that have the property, from a well-founded order.           *)
(***************************************************************************)
EXTENDS Optimizer, WellFoundedInduction, TLAPS

-----------------------------------------------------------------------------
(* Induction and recursion. *)

(* Induction on the numbers up to n, for the set of those that have a property. *)
LEMMA Induction ==
    ASSUME NEW n \in Nat, NEW P, 0 \in P,
           \A i \in 1 .. n : i - 1 \in P => i \in P
    PROVE  \A i \in 0 .. n : i \in P
<1> DEFINE R == OpToRel(<, Nat)
           T == {i \in 0 .. n : i \notin P}
<1>1. IsWellFoundedOn(R, Nat)
  BY NatLessThanWellFounded
<1>2. \A i, j \in Nat : i < j => <<i, j>> \in R
  BY DEF OpToRel
<1>3. T \subseteq Nat /\ \A i \in T : i \in 1 .. n
  OBVIOUS
<1> HIDE DEF R
<1>4. SUFFICES ASSUME T # {} PROVE FALSE
  OBVIOUS
<1>5. PICK i \in T : \A j \in T : <<j, i>> \notin R
  BY <1>1, <1>3, <1>4, WFMin
<1>6. i \in 1 .. n /\ i - 1 \in 0 .. n /\ <<i - 1, i>> \in R
  BY <1>2, <1>3
<1>7. i - 1 \in P
  BY <1>5, <1>6
<1> QED BY <1>5, <1>6, <1>7

(* A function on the numbers up to n can be defined from one value to the next. *)
Stepwise(f, n, zero, step) ==
    f[0] = zero /\ \A i \in 1 .. n : f[i] = step[i][f[i - 1]]

LEMMA Recursion ==
    ASSUME NEW n \in Nat, NEW S, NEW zero \in S, NEW step \in [1 .. n -> [S -> S]]
    PROVE  \E f \in [0 .. n -> S] : Stepwise(f, n, zero, step)
<1> DEFINE Upto(m) == \E f \in [0 .. m -> S] : Stepwise(f, m, zero, step)
           P == {m \in 0 .. n : Upto(m)}
<1>1. Upto(0)
  <2> DEFINE f == [i \in 0 .. 0 |-> zero]
  <2>1. f \in [0 .. 0 -> S] /\ f[0] = zero /\ 1 .. 0 = {}
    OBVIOUS
  <2> HIDE DEF f
  <2> QED BY <2>1 DEF Stepwise
<1>2. ASSUME NEW m \in 1 .. n, Upto(m - 1) PROVE Upto(m)
  <2>1. PICK f \in [0 .. m - 1 -> S] : Stepwise(f, m - 1, zero, step)
    BY <1>2
  <2> DEFINE g == [i \in 0 .. m |-> IF i = m THEN step[m][f[m - 1]] ELSE f[i]]
  <2>2. f[m - 1] \in S /\ step[m][f[m - 1]] \in S
    OBVIOUS
  <2>3. \A i \in 0 .. m : i # m => i \in 0 .. m - 1
    OBVIOUS
  <2>4. g \in [0 .. m -> S]
    BY <2>2, <2>3
  <2>5. g[m] = step[m][f[m - 1]] /\ \A i \in 0 .. m - 1 : g[i] = f[i]
    OBVIOUS
  <2> HIDE DEF g
  <2>6. \A i \in 1 .. m : g[i] = step[i][g[i - 1]]
    <3> TAKE i \in 1 .. m
    <3>1. CASE i = m
      BY <2>5, <3>1
    <3>2. CASE i # m
      <4>1. i \in 1 .. m - 1 /\ i - 1 \in 0 .. m - 1 /\ i \in 0 .. m - 1
        BY <3>2
      <4> QED BY <2>1, <2>5, <4>1 DEF Stepwise
    <3> QED BY <3>1, <3>2
  <2> QED BY <2>1, <2>4, <2>5, <2>6 DEF Stepwise
<1> HIDE DEF Upto
<1>3. \A m \in 0 .. n : m \in P
  <2>1. 0 \in P
    BY <1>1
  <2>2. \A m \in 1 .. n : m - 1 \in P => m \in P
    BY <1>2
  <2> HIDE DEF P
  <2> QED BY <2>1, <2>2, Induction
<1> QED BY <1>3 DEF Upto

-----------------------------------------------------------------------------
(* The length of a JSON list is that of its elements, two brackets, and two
   characters between any two elements. *)
LEMMA ListLensIs ==
    ASSUME NEW lens \in Seq(Nat)
    PROVE  /\ ListLens(lens) \in [0 .. Len(lens) -> Nat]
           /\ ListLens(lens)[0] = 2
           /\ \A i \in 1 .. Len(lens) :
                 ListLens(lens)[i] = ListLens(lens)[i - 1] + lens[i] + (IF i = 1 THEN 0 ELSE 2)
<1> DEFINE n == Len(lens)
           total == ListLens(lens)
           between(i) == IF i = 1 THEN 0 ELSE 2
           step == [i \in 1 .. n |-> [x \in Nat |-> x + lens[i] + between(i)]]
           Body(f) == [i \in 0 .. n |-> IF i = 0 THEN 2 ELSE f[i - 1] + lens[i] + between(i)]
           two == 2
<1>1. n \in Nat /\ two \in Nat /\ \A i \in 1 .. n : lens[i] \in Nat
  OBVIOUS
<1>2. step \in [1 .. n -> [Nat -> Nat]]
  BY <1>1
<1> HIDE DEF n, step, two
<1>3. PICK f \in [0 .. n -> Nat] : Stepwise(f, n, two, step)
  BY <1>1, <1>2, Recursion, Zenon
<1>4. f[0] = 2 /\ \A i \in 1 .. n : f[i] = f[i - 1] + lens[i] + between(i)
  <2>1. \A i \in 1 .. n : i - 1 \in 0 .. n
    BY <1>1
  <2> QED BY <1>3, <2>1 DEF Stepwise, step, two
<1>5. f = Body(f)
  BY <1>1, <1>4
<1>6. total = CHOOSE g : g = Body(g)
  BY DEF ListLens, n
<1>7. total = Body(total)
  <2> HIDE DEF total, Body
  <2> QED BY <1>5, <1>6
<1> HIDE DEF total
<1>8. total[0] = 2 /\ \A i \in 1 .. n : total[i] = total[i - 1] + lens[i] + between(i)
  BY <1>1, <1>7
<1>9. \A i \in 0 .. n : total[i] \in Nat
  <2> DEFINE P == {i \in 0 .. n : total[i] \in Nat}
  <2>1. 0 \in P
    BY <1>1, <1>8
  <2>2. ASSUME NEW i \in 1 .. n, i - 1 \in P PROVE i \in P
    <3>1. i \in 0 .. n /\ lens[i] \in Nat /\ total[i - 1] \in Nat
      BY <1>1, <2>2
    <3> QED BY <1>8, <3>1
  <2>3. \A i \in 0 .. n : i \in P
    <3> HIDE DEF P
    <3> QED BY <1>1, <2>1, <2>2, Induction
  <2> QED BY <2>3
<1>10. DOMAIN total = 0 .. n
  BY <1>7
<1>11. total \in [0 .. n -> Nat]
  BY <1>7, <1>9, <1>10
<1> QED BY <1>8, <1>11 DEF total, n

(* Lists with the same beginning have the same lengths there. *)
LEMMA PrefixLens ==
    ASSUME NEW a \in Seq(Nat), NEW b \in Seq(Nat), NEW n \in Nat,
           n <= Len(a), n <= Len(b), \A i \in 1 .. n : a[i] = b[i]
    PROVE  \A i \in 0 .. n : ListLens(a)[i] = ListLens(b)[i]
<1> DEFINE P == {i \in 0 .. n : ListLens(a)[i] = ListLens(b)[i]}
<1>1. 0 \in P
  BY ListLensIs
<1>2. ASSUME NEW i \in 1 .. n, i - 1 \in P PROVE i \in P
  <2>1. Len(a) \in Nat /\ Len(b) \in Nat
    OBVIOUS
  <2>2. i \in 1 .. Len(a) /\ i \in 1 .. Len(b) /\ a[i] = b[i] /\ i \in 0 .. n
    BY <2>1
  <2> QED BY <1>2, <2>2, ListLensIs
<1>3. \A i \in 0 .. n : i \in P
  <2> HIDE DEF P
  <2> QED BY <1>1, <1>2, Induction
<1> QED BY <1>3

(* One more element adds its length, and the two characters before it. *)
LEMMA AppendLen ==
    ASSUME NEW lens \in Seq(Nat), NEW x \in Nat
    PROVE  /\ ListLen(lens) \in Nat
           /\ ListLen(<<>>) = 2
           /\ ListLen(Append(lens, x)) = ListLen(lens) + x + (IF lens = <<>> THEN 0 ELSE 2)
<1> DEFINE n == Len(lens)
           more == Append(lens, x)
<1>1. /\ n \in Nat /\ more \in Seq(Nat) /\ Len(more) = n + 1 /\ more[n + 1] = x
      /\ (n = 0 <=> lens = <<>>) /\ \A i \in 1 .. n : lens[i] = more[i]
  OBVIOUS
<1>2. ListLens(lens)[n] = ListLens(more)[n]
  <2>1. n <= Len(lens) /\ n <= Len(more) /\ n \in 0 .. n
    BY <1>1
  <2> HIDE DEF n, more
  <2> QED BY <1>1, <2>1, PrefixLens
<1>3. ListLens(more)[n + 1] = ListLens(more)[n] + x + (IF n + 1 = 1 THEN 0 ELSE 2)
  <2>1. n + 1 \in 1 .. Len(more) /\ (n + 1) - 1 = n
    BY <1>1
  <2> HIDE DEF n, more
  <2> QED BY <1>1, <2>1, ListLensIs
<1>4. ListLens(lens)[n] \in Nat
  BY <1>1, ListLensIs
<1>5. ListLen(<<>>) = 2
  <2>1. <<>> \in Seq(Nat) /\ Len(<<>>) = 0
    OBVIOUS
  <2>2. ListLens(<<>>)[0] = 2
    BY <2>1, ListLensIs
  <2> QED BY <2>1, <2>2 DEF ListLen
<1> QED BY <1>1, <1>2, <1>3, <1>4, <1>5 DEF ListLen

-----------------------------------------------------------------------------
(* Records, the account of a loop's turns, and what clipping does to a record. *)
Record == [base : Nat, escapes : Nat, steps : Nat, trace : Nat]
Account == [kept : Seq(Record), from : Seq(Nat), over : BOOLEAN]

LEMMA QuotedType ==
    ASSUME NEW len \in Nat, NEW escapes \in Nat, NEW cut \in BOOLEAN
    PROVE  Quoted(len, escapes, cut) \in Nat
<1>1. len * escapes \in Nat
  OBVIOUS
<1>2. (len * escapes) \div 100 \in Nat
  BY <1>1
<1> QED BY <1>2 DEF Quoted

LEMMA ClipType ==
    ASSUME NEW len \in Nat, NEW limit \in Nat \ {0}, NEW escapes \in Nat
    PROVE  Clip(len, limit, escapes) \in Nat
<1>1. limit - 1 \in Nat
  OBVIOUS
<1> QED BY <1>1, QuotedType DEF Clip

LEMMA ClippedIs ==
    ASSUME NEW e \in Record, NEW limit \in Nat \ {0}
    PROVE  Clipped(e, limit) \in Record /\ Clipped(e, limit).base = e.base
<1>1. Clip(e.trace, limit, e.escapes) \in Nat
  BY ClipType DEF Record
<1> DEFINE trace == 2 + Clip(e.trace, limit, e.escapes)
<1>2. Clipped(e, limit) = [e EXCEPT !.trace = trace, !.steps = 0]
  BY DEF Clipped
<1>3. trace \in Nat
  BY <1>1
<1> HIDE DEF trace
<1> DEFINE r == [e EXCEPT !.trace = trace]
<1>4. r \in Record /\ r.base = e.base
  BY <1>3 DEF Record
<1>5. Clipped(e, limit) = [r EXCEPT !.steps = 0]
  BY <1>2
<1> HIDE DEF r
<1>6. [r EXCEPT !.steps = 0] \in Record /\ [r EXCEPT !.steps = 0].base = r.base
  BY <1>4 DEF Record
<1> QED BY <1>4, <1>5, <1>6

LEMMA LensType ==
    ASSUME NEW kept \in Seq(Record), NEW c \in Record
    PROVE  /\ EntryLen(c) \in Nat
           /\ Lens(kept) \in Seq(Nat) /\ (Lens(kept) = <<>> <=> kept = <<>>)
           /\ Lens(<<>>) = <<>>
           /\ Lens(Append(kept, c)) = Append(Lens(kept), EntryLen(c))
<1>1. \A e \in Record : EntryLen(e) \in Nat
  BY DEF EntryLen, Record, TraceKeyLen
<1>2. /\ Len(kept) \in Nat /\ DOMAIN kept = 1 .. Len(kept)
      /\ \A i \in 1 .. Len(kept) : kept[i] \in Record
  OBVIOUS
<1>3. Lens(kept) \in Seq(Nat) /\ Len(Lens(kept)) = Len(kept)
  BY <1>1, <1>2 DEF Lens
<1>4. Lens(Append(kept, c)) = Append(Lens(kept), EntryLen(c))
  BY <1>1, <1>2, <1>3 DEF Lens
<1>5. Lens(<<>>) = <<>>
  BY DEF Lens
<1> QED BY <1>1, <1>3, <1>4, <1>5

(* A record that is left out of a list with this much room. *)
LeftOut(e, room) == room <= MinRoom \/ EntryLen(e) > room - 2

(* A turn takes the record, its trace clipped or not, and keeps within the budget;
   or it leaves the record out, for which there was no room. *)
Takes(acc, i, e, budget, t, c) ==
    /\ t \in Account
    /\ c.base = e.base
    /\ t.kept = Append(acc.kept, c) /\ t.from = Append(acc.from, i)
    /\ ListLen(Lens(t.kept)) <= budget
Leaves(acc, e, budget, t) ==
    /\ t \in Account
    /\ t.kept = acc.kept /\ t.from = acc.from
    /\ LeftOut(e, budget - ListLen(Lens(acc.kept)))

LEMMA TakeIs ==
    ASSUME NEW acc \in Account, NEW i \in Nat, NEW e \in Record, NEW budget \in Nat
    PROVE  \/ Leaves(acc, e, budget, Take(acc, i, e, budget))
           \/ \E c \in Record : Takes(acc, i, e, budget, Take(acc, i, e, budget), c)
<1> DEFINE room == budget - ListLen(Lens(acc.kept))
           clip == EntryLen(e) > room /\ e.trace > 0
           c    == IF clip THEN Clipped(e, AtLeast(MinTrace, room - Reserve)) ELSE e
           out  == room <= MinRoom \/ ListLen(Lens(Append(acc.kept, c))) > budget
<1>1. acc.kept \in Seq(Record)
  BY DEF Account
<1>2. Lens(acc.kept) \in Seq(Nat) /\ ListLen(Lens(acc.kept)) \in Nat /\ room \in Int
  <2>1. Lens(acc.kept) \in Seq(Nat)
    BY <1>1, LensType
  <2>2. 0 \in Nat /\ ListLen(Lens(acc.kept)) \in Nat
    BY <2>1, AppendLen
  <2> QED BY <2>1, <2>2
<1>3. c \in Record /\ c.base = e.base
  <2>1. AtLeast(MinTrace, room - Reserve) \in Nat \ {0}
    BY <1>2 DEF AtLeast, MinTrace, Reserve
  <2> QED BY <2>1, ClippedIs
<1>4. EntryLen(e) \in Nat /\ EntryLen(c) \in Nat
  BY <1>1, <1>3, LensType
<1>5. ListLen(Lens(Append(acc.kept, c)))
        = ListLen(Lens(acc.kept)) + EntryLen(c) + (IF acc.kept = <<>> THEN 0 ELSE 2)
  <2> HIDE DEF c
  <2>1. /\ Lens(Append(acc.kept, c)) = Append(Lens(acc.kept), EntryLen(c))
        /\ Lens(acc.kept) = <<>> <=> acc.kept = <<>>
    BY <1>1, <1>3, LensType
  <2>2. ListLen(Append(Lens(acc.kept), EntryLen(c)))
          = ListLen(Lens(acc.kept)) + EntryLen(c) + (IF Lens(acc.kept) = <<>> THEN 0 ELSE 2)
    BY <1>2, <1>4, AppendLen
  <2> QED BY <2>1, <2>2
<1>6. Take(acc, i, e, budget) =
        IF out THEN [acc EXCEPT !.over = TRUE]
               ELSE [acc EXCEPT !.kept = Append(@, c), !.from = Append(@, i)]
  BY DEF Take
<1>7. out => LeftOut(e, room)
  <2>1. CASE room <= MinRoom
    BY <2>1 DEF LeftOut
  <2>2. CASE room > MinRoom /\ out /\ clip
    BY <1>2, <1>4, <2>2 DEF LeftOut
  <2>3. CASE room > MinRoom /\ out /\ ~clip
    <3>1. c = e
      BY <2>3
    <3> HIDE DEF clip, c
    <3> QED BY <1>2, <1>4, <1>5, <2>3, <3>1 DEF LeftOut
  <2> QED BY <1>2, <2>1, <2>2, <2>3 DEF MinRoom
<1>8. ~out => ListLen(Lens(Append(acc.kept, c))) <= budget
  <2> HIDE DEF c
  <2>1. ListLen(Lens(Append(acc.kept, c))) \in Nat
    BY <1>2, <1>4, <1>5
  <2> QED BY <2>1
<1> HIDE DEF c, out, clip
<1>9. /\ [acc EXCEPT !.over = TRUE] \in Account
      /\ [acc EXCEPT !.over = TRUE].kept = acc.kept
      /\ [acc EXCEPT !.over = TRUE].from = acc.from
  BY DEF Account
<1>10. LET t == [acc EXCEPT !.kept = Append(@, c), !.from = Append(@, i)]
       IN  t \in Account /\ t.kept = Append(acc.kept, c) /\ t.from = Append(acc.from, i)
  <2>1. Append(acc.kept, c) \in Seq(Record) /\ Append(acc.from, i) \in Seq(Nat)
    BY <1>3 DEF Account
  <2> DEFINE r == [acc EXCEPT !.kept = Append(@, c)]
  <2>2. r \in Account /\ r.from = acc.from /\ r.kept = Append(acc.kept, c)
    BY <2>1 DEF Account
  <2>3. [acc EXCEPT !.kept = Append(@, c), !.from = Append(@, i)]
          = [r EXCEPT !.from = Append(acc.from, i)]
    BY DEF Account
  <2> HIDE DEF r
  <2>4. /\ [r EXCEPT !.from = Append(acc.from, i)] \in Account
        /\ [r EXCEPT !.from = Append(acc.from, i)].kept = r.kept
        /\ [r EXCEPT !.from = Append(acc.from, i)].from = Append(acc.from, i)
    BY <2>1, <2>2 DEF Account
  <2> QED BY <2>2, <2>3, <2>4
<1> QED BY <1>3, <1>6, <1>7, <1>8, <1>9, <1>10 DEF Takes, Leaves

(* A turn keeps the type of the account. *)
LEMMA TakeType ==
    ASSUME NEW acc \in Account, NEW i \in Nat, NEW e \in Record, NEW budget \in Nat
    PROVE  Take(acc, i, e, budget) \in Account
BY TakeIs DEF Takes, Leaves

(* The loop is what its turns make it. *)
LEMMA TurnsAre ==
    ASSUME NEW entries \in Seq(Record), NEW budget \in Nat
    PROVE  /\ Turns(entries, budget)[0] = [kept |-> <<>>, from |-> <<>>, over |-> FALSE]
           /\ \A i \in 1 .. Len(entries) :
                 Turns(entries, budget)[i]
                   = Take(Turns(entries, budget)[i - 1], i, entries[i], budget)
<1> DEFINE n == Len(entries)
           turn == Turns(entries, budget)
           none == [kept |-> <<>>, from |-> <<>>, over |-> FALSE]
           step == [i \in 1 .. n |-> [acc \in Account |-> Take(acc, i, entries[i], budget)]]
           Body(f) == [i \in 0 .. n |-> IF i = 0 THEN none
                                        ELSE Take(f[i - 1], i, entries[i], budget)]
<1>1. n \in Nat /\ none \in Account /\ \A i \in 1 .. n : i \in Nat /\ entries[i] \in Record
  BY DEF Account
<1>2. step \in [1 .. n -> [Account -> Account]]
  BY <1>1, TakeType
<1> HIDE DEF n, step, none
<1>3. PICK f \in [0 .. n -> Account] : Stepwise(f, n, none, step)
  BY <1>1, <1>2, Recursion, Zenon
<1>4. f[0] = none /\ \A i \in 1 .. n : f[i] = Take(f[i - 1], i, entries[i], budget)
  <2>1. \A i \in 1 .. n : i - 1 \in 0 .. n
    BY <1>1
  <2> QED BY <1>3, <2>1 DEF Stepwise, step
<1>5. f = Body(f)
  BY <1>1, <1>4
<1>6. turn = CHOOSE g : g = Body(g)
  BY DEF Turns, n, none
<1>7. turn = Body(turn)
  <2> HIDE DEF turn, Body
  <2> QED BY <1>5, <1>6
<1> HIDE DEF turn
<1>8. turn[0] = none /\ \A i \in 1 .. n : turn[i] = Take(turn[i - 1], i, entries[i], budget)
  BY <1>1, <1>7
<1> QED BY <1>8 DEF turn, n, none

(* After i turns: the budget is kept; the records kept come from positions in
   order and differ from what was there in their traces only; and what was left
   out did not fit. *)
TurnInv(acc, entries, budget, i) ==
    /\ acc \in Account /\ Len(acc.from) = Len(acc.kept)
    /\ ListLen(Lens(acc.kept)) <= budget
    /\ \A j \in 1 .. Len(acc.from) :
          acc.from[j] \in 1 .. i /\ acc.kept[j].base = entries[acc.from[j]].base
    /\ \A j, k \in 1 .. Len(acc.from) : j < k => acc.from[j] < acc.from[k]
    /\ \A j \in 1 .. i :
          \/ \E k \in 1 .. Len(acc.from) : acc.from[k] = j
          \/ LeftOut(entries[j], budget - ListLen(Lens(acc.kept)))

(* Less room fits less. *)
LEMMA LeftOutStays ==
    ASSUME NEW e \in Record, NEW room \in Int, NEW less \in Int, less <= room, LeftOut(e, room)
    PROVE  LeftOut(e, less)
<1>1. EntryLen(e) \in Nat
  BY DEF EntryLen, Record, TraceKeyLen
<1> QED BY <1>1 DEF LeftOut, MinRoom

LEMMA TurnKeeps ==
    ASSUME NEW entries \in Seq(Record), NEW budget \in Nat, NEW i \in 1 .. Len(entries),
           NEW acc, TurnInv(acc, entries, budget, i - 1)
    PROVE  TurnInv(Take(acc, i, entries[i], budget), entries, budget, i)
<1> DEFINE e == entries[i]
           t == Take(acc, i, e, budget)
           room == budget - ListLen(Lens(acc.kept))
<1>1. acc \in Account /\ e \in Record /\ i \in Nat /\ i - 1 \in Nat
      /\ \A j \in 1 .. i : j = i \/ j \in 1 .. i - 1
  BY DEF TurnInv
<1>2. t \in Account
  BY <1>1, TakeType
<1>3. Lens(acc.kept) \in Seq(Nat) /\ ListLen(Lens(acc.kept)) \in Nat /\ acc.kept \in Seq(Record)
      /\ acc.from \in Seq(Nat)
  <2>1. acc.kept \in Seq(Record) /\ acc.from \in Seq(Nat)
    BY <1>1 DEF Account
  <2>2. Lens(acc.kept) \in Seq(Nat)
    BY <1>1, <2>1, LensType
  <2>3. 0 \in Nat
    OBVIOUS
  <2> QED BY <2>1, <2>2, <2>3, AppendLen
<1>4. CASE Leaves(acc, e, budget, t)
  <2>1. t.kept = acc.kept /\ t.from = acc.from /\ LeftOut(e, room)
    BY <1>4 DEF Leaves
  <2> HIDE DEF t, e
  <2>2. /\ Len(t.from) = Len(t.kept) /\ ListLen(Lens(t.kept)) <= budget
        /\ \A j \in 1 .. Len(t.from) :
              t.from[j] \in 1 .. i /\ t.kept[j].base = entries[t.from[j]].base
        /\ \A j, k \in 1 .. Len(t.from) : j < k => t.from[j] < t.from[k]
    BY <1>1, <2>1 DEF TurnInv
  <2>3. \A j \in 1 .. i :
           \/ \E k \in 1 .. Len(t.from) : t.from[k] = j
           \/ LeftOut(entries[j], budget - ListLen(Lens(t.kept)))
    BY <1>1, <2>1 DEF TurnInv, e
  <2> HIDE DEF room
  <2>4. TurnInv(t, entries, budget, i)
    BY <1>2, <2>2, <2>3 DEF TurnInv
  <2> QED BY <2>4 DEF t, e
<1>5. ASSUME NEW c \in Record, Takes(acc, i, e, budget, t, c)
      PROVE  TurnInv(t, entries, budget, i)
  <2> DEFINE n == Len(acc.from)
  <2>1. /\ t.kept = Append(acc.kept, c) /\ t.from = Append(acc.from, i)
        /\ c.base = e.base /\ ListLen(Lens(t.kept)) <= budget
    BY <1>5 DEF Takes
  <2>2. /\ n \in Nat /\ Len(t.from) = n + 1 /\ Len(t.kept) = n + 1
        /\ t.from[n + 1] = i /\ t.kept[n + 1] = c
        /\ \A j \in 1 .. n : t.from[j] = acc.from[j] /\ t.kept[j] = acc.kept[j]
    <3>1. n = Len(acc.kept) /\ n \in Nat
      BY <1>3 DEF TurnInv
    <3> HIDE DEF t
    <3>2. /\ Len(t.from) = n + 1 /\ t.from[n + 1] = i
          /\ \A j \in 1 .. n : t.from[j] = acc.from[j]
      BY <1>1, <1>3, <2>1
    <3>3. /\ Len(t.kept) = n + 1 /\ t.kept[n + 1] = c
          /\ \A j \in 1 .. n : t.kept[j] = acc.kept[j]
      BY <1>3, <1>5, <2>1, <3>1
    <3> QED BY <3>1, <3>2, <3>3
  <2>3. \A j \in 1 .. n + 1 : j = n + 1 \/ j \in 1 .. n
    BY <2>2
  <2>4. /\ ListLen(Lens(t.kept)) \in Nat /\ ListLen(Lens(t.kept)) <= budget
        /\ ListLen(Lens(acc.kept)) <= ListLen(Lens(t.kept))
    <3>1. EntryLen(c) \in Nat /\ Lens(t.kept) = Append(Lens(acc.kept), EntryLen(c))
      BY <1>3, <2>1, LensType
    <3>2. ListLen(Append(Lens(acc.kept), EntryLen(c)))
            = ListLen(Lens(acc.kept)) + EntryLen(c) + (IF Lens(acc.kept) = <<>> THEN 0 ELSE 2)
      BY <1>3, <3>1, AppendLen
    <3> HIDE DEF t
    <3>3. ListLen(Lens(t.kept)) \in Nat /\ ListLen(Lens(acc.kept)) <= ListLen(Lens(t.kept))
      BY <1>3, <3>1, <3>2
    <3> QED BY <2>1, <3>3
  <2>5. \A j \in 1 .. n : acc.from[j] \in 1 .. i - 1 /\ acc.kept[j].base = entries[acc.from[j]].base
    BY DEF TurnInv
  <2> HIDE DEF n, t, e
  <2>6. \A j \in 1 .. n + 1 : t.from[j] \in 1 .. i /\ t.kept[j].base = entries[t.from[j]].base
    <3> TAKE j \in 1 .. n + 1
    <3>1. CASE j = n + 1
      BY <1>1, <2>1, <2>2, <3>1 DEF e
    <3>2. CASE j \in 1 .. n
      <4>1. acc.from[j] \in 1 .. i
        BY <1>1, <2>5, <3>2
      <4> QED BY <2>2, <2>5, <3>2, <4>1
    <3> QED BY <2>3, <3>1, <3>2
  <2>7. \A j, k \in 1 .. n + 1 : j < k => t.from[j] < t.from[k]
    <3> SUFFICES ASSUME NEW j \in 1 .. n + 1, NEW k \in 1 .. n + 1, j < k
                 PROVE  t.from[j] < t.from[k]
      OBVIOUS
    <3>1. j \in 1 .. n
      BY <2>2
    <3>2. CASE k = n + 1
      BY <1>1, <2>2, <2>5, <3>1, <3>2
    <3>3. CASE k \in 1 .. n
      BY <2>2, <3>1, <3>3 DEF TurnInv, n
    <3> QED BY <2>3, <3>2, <3>3
  <2>8. ASSUME NEW j \in 1 .. i
        PROVE  \/ \E k \in 1 .. n + 1 : t.from[k] = j
               \/ LeftOut(entries[j], budget - ListLen(Lens(t.kept)))
    <3>1. CASE j = i
      BY <2>2, <3>1
    <3>2. CASE \E k \in 1 .. n : acc.from[k] = j
      BY <2>2, <3>2
    <3>3. CASE LeftOut(entries[j], room)
      <4>1. entries[j] \in Record
        BY <1>1
      <4> QED BY <1>3, <2>4, <3>3, <4>1, LeftOutStays
    <3> QED BY <1>1, <3>1, <3>2, <3>3 DEF TurnInv, n
  <2> QED BY <1>2, <2>2, <2>4, <2>6, <2>7, <2>8 DEF TurnInv
<1>6. Leaves(acc, e, budget, t) \/ \E c \in Record : Takes(acc, i, e, budget, t, c)
  BY <1>1, TakeIs
<1> QED BY <1>4, <1>5, <1>6

LEMMA TurnsKeep ==
    ASSUME NEW entries \in Seq(Record), NEW budget \in Nat, budget >= 2
    PROVE  TurnInv(Turns(entries, budget)[Len(entries)], entries, budget, Len(entries))
<1> DEFINE n == Len(entries)
           turn == Turns(entries, budget)
           P == {i \in 0 .. n : TurnInv(turn[i], entries, budget, i)}
<1>1. n \in Nat
  OBVIOUS
<1>2. 0 \in P
  <2> DEFINE none == [kept |-> <<>>, from |-> <<>>, over |-> FALSE]
  <2>1. turn[0] = none
    BY TurnsAre
  <2>2. none \in Account /\ Len(none.from) = 0 /\ Len(none.kept) = 0
    BY DEF Account
  <2>3. ListLen(Lens(none.kept)) = 2
    <3>1. Lens(<<>>) = <<>>
      BY DEF Lens
    <3>2. <<>> \in Seq(Nat) /\ 0 \in Nat
      OBVIOUS
    <3> QED BY <3>1, <3>2, AppendLen
  <2> HIDE DEF none, turn
  <2> QED BY <1>1, <2>1, <2>2, <2>3 DEF TurnInv
<1>3. ASSUME NEW i \in 1 .. n, i - 1 \in P PROVE i \in P
  <2>1. i \in 0 .. n
    BY <1>1
  <2>2. turn[i] = Take(turn[i - 1], i, entries[i], budget)
    BY TurnsAre
  <2> HIDE DEF turn
  <2> QED BY <1>3, <2>1, <2>2, TurnKeeps
<1>4. \A i \in 0 .. n : i \in P
  <2> HIDE DEF P, n
  <2> QED BY <1>1, <1>2, <1>3, Induction
<1> QED BY <1>1, <1>4

(* For any records in any order, whatever their sizes, what the budget leaves of
   them fills its room. *)
THEOREM FitFillsItsRoom ==
    ASSUME NEW entries \in Seq(Record), NEW budget \in Nat, budget >= 2
    PROVE  /\ FillsItsRoom(Fit(entries, budget), budget)
           /\ Fit(entries, budget).kept \in Seq(Record)
           /\ FitLen(Fit(entries, budget)) \in Nat
<1> DEFINE all == Turns(entries, budget)[Len(entries)]
           fit == Fit(entries, budget)
           n == Len(all.from)
           room == budget - ListLen(Lens(all.kept))
<1>1. TurnInv(all, entries, budget, Len(entries))
  BY TurnsKeep
<1>2. /\ fit.entries = entries /\ fit.kept = all.kept /\ fit.from = all.from
      /\ fit.note <=> all.over /\ ListLen(Append(Lens(all.kept), NoteLen)) <= budget
  BY DEF Fit
<1> HIDE DEF all, fit
<1>3. all.kept \in Seq(Record) /\ all.from \in Seq(Nat)
  BY <1>1 DEF TurnInv, Account
<1>4. FitLen(fit) <= budget /\ FitLen(fit) \in Nat
  <2>1. Lens(all.kept) \in Seq(Nat)
    <3>1. [base |-> 0, escapes |-> 0, steps |-> 0, trace |-> 0] \in Record
      BY DEF Record
    <3> QED BY <1>3, <3>1, LensType
  <2>2. ListLen(Lens(all.kept)) \in Nat /\ ListLen(Lens(all.kept)) <= budget
    <3>1. 0 \in Nat
      OBVIOUS
    <3> QED BY <1>1, <2>1, <3>1, AppendLen DEF TurnInv
  <2>3. ListLen(Append(Lens(all.kept), NoteLen)) \in Nat
    <3>1. NoteLen \in Nat
      BY DEF NoteLen
    <3>2. ListLen(Append(Lens(all.kept), NoteLen))
            = ListLen(Lens(all.kept)) + NoteLen + (IF Lens(all.kept) = <<>> THEN 0 ELSE 2)
      BY <2>1, <3>1, AppendLen
    <3> QED BY <2>2, <3>1, <3>2
  <2> QED BY <1>2, <2>2, <2>3 DEF FitLen
<1>5. DOMAIN all.from = 1 .. n /\ DOMAIN entries = 1 .. Len(entries)
  BY <1>3
<1>6. \A i \in DOMAIN entries \ ToSet(all.from) : LeftOut(entries[i], room)
  BY <1>1, <1>5 DEF TurnInv, ToSet
<1>7. /\ \A i, j \in DOMAIN fit.from : i < j => fit.from[i] < fit.from[j]
      /\ \A i \in DOMAIN fit.from : fit.kept[i].base = fit.entries[fit.from[i]].base
  BY <1>1, <1>2, <1>5 DEF TurnInv
<1>8. FillsItsRoom(fit, budget)
  <2> HIDE DEF n
  <2> QED BY <1>2, <1>4, <1>6, <1>7 DEF FillsItsRoom, LeftOut
<1> QED BY <1>2, <1>3, <1>4, <1>8 DEF fit

-----------------------------------------------------------------------------
(* The largest of some numbers up to n. *)
LEMMA MaxIs ==
    ASSUME NEW n \in Nat, NEW T \in SUBSET (0 .. n), T # {}
    PROVE  Max(T) \in T /\ \A i \in T : Max(T) >= i
<1> DEFINE Below(i) == \E x \in T : x <= i
           Top(i)   == \E x \in T : \A y \in T : y <= i => y <= x
           P == {i \in 0 .. n : Below(i) => Top(i)}
<1>1. 0 \in P
  <2>1. Below(0) => 0 \in T
    OBVIOUS
  <2>2. 0 \in T => Top(0)
    OBVIOUS
  <2> QED BY <2>1, <2>2
<1>2. ASSUME NEW i \in 1 .. n, i - 1 \in P PROVE i \in P
  <2>1. CASE i \in T
    BY <2>1
  <2>2. CASE i \notin T
    <3>1. \A y \in T : y <= i <=> y <= i - 1
      BY <2>2
    <3> QED BY <1>2, <3>1
  <2> QED BY <2>1, <2>2
<1>3. n \in P
  <2>1. \A i \in 0 .. n : i \in P
    <3> HIDE DEF P
    <3> QED BY <1>1, <1>2, Induction
  <2> HIDE DEF P
  <2> QED BY <2>1
<1>4. \E x \in T : \A y \in T : x >= y
  <2>1. \A y \in T : y <= n
    OBVIOUS
  <2>2. Top(n)
    BY <1>3, <2>1
  <2>3. PICK x \in T : \A y \in T : y <= n => y <= x
    BY <2>2
  <2>4. \A y \in T : x >= y
    <3>1. \A y \in T : x \in Int /\ y \in Int /\ y <= x
      BY <2>1, <2>3
    <3> QED BY <3>1
  <2> QED BY <2>4
<1> QED BY <1>4 DEF Max

(* What format_trace packs is some of the steps, and perhaps a note; as a list it
   is within the limit of its kind. *)
THEOREM TraceFitsItsLimit ==
    ASSUME NEW steps \in Seq(Nat), NEW kind \in Kinds
    PROVE  Packed(steps, kind) \in Seq(Nat) /\ ListLen(Packed(steps, kind)) <= TraceLimit[kind]
<1> DEFINE from == IF kind # "passed" THEN Reverse(steps) ELSE steps
           lens == ListLens(from)
           fits == {i \in DOMAIN lens : i = 0 \/ lens[i] <= TraceLimit[kind]}
           m    == Max(fits)
           kept == SubSeq(from, 1, m)
           noted == Append(kept, StepNoteLen)
<1>1. from \in Seq(Nat) /\ Len(from) \in Nat
  BY DEF Reverse
<1>2. TraceLimit[kind] \in Nat /\ TraceLimit[kind] >= 2
  BY DEF TraceLimit, Kinds
<1> HIDE DEF from
<1>3. lens \in [0 .. Len(from) -> Nat] /\ lens[0] = 2
  BY <1>1, ListLensIs
<1> HIDE DEF lens
<1>4. m \in 0 .. Len(from) /\ (m = 0 \/ lens[m] <= TraceLimit[kind])
  <2>1. fits \in SUBSET (0 .. Len(from)) /\ 0 \in fits
    BY <1>1, <1>3
  <2>2. m \in fits
    <3> HIDE DEF fits
    <3> QED BY <1>1, <2>1, MaxIs
  <2> HIDE DEF m
  <2> QED BY <1>3, <2>2
<1> HIDE DEF m
<1>5. kept \in Seq(Nat) /\ Len(kept) = m /\ \A i \in 1 .. m : kept[i] = from[i]
  BY <1>1, <1>4
<1> HIDE DEF kept
<1>6. ListLen(kept) <= TraceLimit[kind]
  <2>1. ListLens(kept)[m] = lens[m]
    <3>1. m \in Nat /\ m <= Len(kept) /\ m <= Len(from) /\ m \in 0 .. m
      BY <1>1, <1>4, <1>5
    <3> QED BY <1>1, <1>5, <3>1, PrefixLens DEF lens
  <2> QED BY <1>2, <1>3, <1>4, <1>5, <2>1 DEF ListLen
<1>7. Packed(steps, kind) =
        IF kept # from /\ ListLen(noted) <= TraceLimit[kind] THEN noted ELSE kept
  BY DEF Packed, from, lens, m, kept
<1>8. noted \in Seq(Nat)
  BY <1>5 DEF StepNoteLen
<1> HIDE DEF noted
<1> QED BY <1>5, <1>6, <1>7, <1>8

LEMMA EntryType ==
    ASSUME NEW task \in Task, NEW kind \in Kinds
    PROVE  Entry(task, kind) \in Record
<1> DEFINE packed == Packed(task.steps, kind)
           base == task.base + Verifier(task)
           list == IF packed = <<>> THEN 0 ELSE ListLen(packed)
           clip == Clip(task.text, TraceLimit[kind], task.escapes)
           steps == IF task.text > 0 THEN 0 ELSE Len(packed)
           trace == IF task.text > 0 THEN 2 + clip ELSE list
<1>1. /\ task.base \in Nat /\ task.verifier \in Nat /\ task.escapes \in Nat
      /\ task.steps \in Seq(Nat) /\ task.text \in Nat
  BY DEF Task
<1>2. packed \in Seq(Nat)
  BY <1>1, TraceFitsItsLimit
<1>3. steps \in Nat
  BY <1>2
<1>4. trace \in Nat
  <2>1. 0 \in Nat
    OBVIOUS
  <2>2. ListLen(packed) \in Nat
    BY <1>2, <2>1, AppendLen
  <2>3. list \in Nat
    BY <2>2
  <2>4. TraceLimit[kind] \in Nat \ {0}
    BY DEF TraceLimit, Kinds
  <2>5. clip \in Nat
    BY <1>1, <2>4, ClipType
  <2> HIDE DEF list, clip
  <2> QED BY <2>3, <2>5
<1>5. base \in Nat
  <2>1. VerifierLimit \in Nat
    BY DEF VerifierLimit
  <2>2. Quoted(VerifierLimit, task.escapes, TRUE) \in Nat
    BY <1>1, <2>1, QuotedType
  <2>3. Verifier(task) \in Nat
    <3> DEFINE cut == Quoted(VerifierLimit, task.escapes, TRUE)
    <3>1. Verifier(task) = IF task.verifier <= VerifierLimit THEN task.verifier ELSE 2 + cut
      BY DEF Verifier
    <3>2. cut \in Nat
      BY <2>2
    <3> HIDE DEF cut
    <3> QED BY <1>1, <2>1, <3>1, <3>2
  <2> HIDE DEF base
  <2>4. base = task.base + Verifier(task)
    BY DEF base
  <2> QED BY <1>1, <2>3, <2>4
<1>6. Entry(task, kind) =
        [base |-> base, escapes |-> task.escapes, steps |-> steps, trace |-> trace]
  BY DEF Entry
<1> HIDE DEF packed, base, steps, trace
<1> QED BY <1>1, <1>3, <1>4, <1>5, <1>6 DEF Record

LEMMA SectionIs ==
    ASSUME NEW tasks \in Seq(Task), NEW kind \in Kinds
    PROVE  /\ FillsItsRoom(Section(tasks, kind), SectionLimit[kind])
           /\ Section(tasks, kind).kept \in Seq(Record)
           /\ FitLen(Section(tasks, kind)) \in Nat
<1>1. SectionLimit[kind] \in Nat /\ SectionLimit[kind] >= 2 /\ TaskLimit[kind] \in Nat
  BY DEF SectionLimit, TaskLimit, Kinds
<1>2. Entries(tasks, kind) \in Seq(Record)
  <2> DEFINE n == AtMost(Len(tasks), TaskLimit[kind])
  <2>1. n \in Nat /\ \A i \in 1 .. n : tasks[i] \in Task
    BY <1>1 DEF AtMost
  <2>2. \A i \in 1 .. n : Entry(tasks[i], kind) \in Record
    BY <2>1, EntryType
  <2> QED BY <2>1, <2>2 DEF Entries
<1> QED BY <1>1, <1>2, FitFillsItsRoom DEF Section

-----------------------------------------------------------------------------
(* The account of the last attempt is measured, and within its limit when escaping
   adds at most 4400 characters to what the last cut leaves of its diff. *)
LEMMA RecentIs ==
    ASSUME NEW a \in Attempt
    PROVE  /\ FitRecent(a).len \in Nat /\ FitRecent(a).deltas \in Nat
           /\ a.head <= 4400 => FitRecent(a).len <= RecentLimit
<1> DEFINE Kept(limit) == IF a.diff <= limit THEN a.diff ELSE limit - 1 + 6
           deltas == SubSeq(a.deltas, 1, AtMost(Len(a.deltas), 16))
           list   == ListLen(deltas)
           n      == Len(deltas)
           whole  == a.rest + Kept(3500) + a.head + a.tail + list
           bare   == a.rest + Kept(3500) + a.head + a.tail + RecentNoteLen + 2
           short  == a.rest + Kept(1200) + a.head + RecentNoteLen + 2
<1>1. /\ a.rest \in 0 .. 300 /\ a.diff \in Int /\ a.diff >= 0
      /\ a.head \in Int /\ a.head >= 0 /\ a.tail \in Int /\ a.tail >= 0
  BY DEF Attempt
<1>2. deltas \in Seq(Nat) /\ n \in Nat
  <2>1. a.deltas \in Seq(Nat)
    BY DEF Attempt
  <2> QED BY <2>1 DEF AtMost
<1>3. list \in Nat
  <2>1. 0 \in Nat
    OBVIOUS
  <2> HIDE DEF deltas
  <2> QED BY <1>2, <2>1, AppendLen
<1>4. FitRecent(a) = IF whole <= RecentLimit THEN [len |-> whole, deltas |-> n]
                     ELSE [len |-> IF bare <= RecentLimit THEN bare ELSE short, deltas |-> 0]
  BY DEF FitRecent
<1> HIDE DEF list, n
<1>5. RecentNoteLen = 62 /\ RecentLimit = 6000
  BY DEF RecentNoteLen, RecentLimit
<1>6. whole \in Nat /\ bare \in Nat /\ short \in Nat /\ (a.head <= 4400 => short <= 6000)
  <2> DEFINE long == Kept(3500)
             tiny == Kept(1200)
  <2>1. long \in Nat /\ tiny \in Nat /\ tiny <= 1205
    BY <1>1
  <2>2. a.rest \in Int /\ a.rest >= 0 /\ a.rest <= 300
    <3> DEFINE rest == a.rest
    <3>1. rest \in 0 .. 300
      BY <1>1
    <3> HIDE DEF rest
    <3>2. rest \in Int /\ rest >= 0 /\ rest <= 300
      BY <3>1
    <3> QED BY <3>2 DEF rest
  <2>3. /\ whole = a.rest + long + a.head + a.tail + list
        /\ bare = a.rest + long + a.head + a.tail + 62 + 2
        /\ short = a.rest + tiny + a.head + 62 + 2
    BY <1>5
  <2> HIDE DEF long, tiny, whole, bare, short
  <2> QED BY <1>1, <1>3, <2>1, <2>2, <2>3
<1> HIDE DEF whole, bare, short
<1> QED BY <1>2, <1>4, <1>5, <1>6

(* What the prompt's indentation adds. *)
LEMMA IndentsType ==
    ASSUME NEW kept \in Seq(Record)
    PROVE  Indents(kept)[Len(kept)] \in Nat
<1> DEFINE n == Len(kept)
           sum == Indents(kept)
           zero == 0
           more(i) == StepIndent * (kept[i].steps + 1)
           step == [i \in 1 .. n |-> [x \in Nat |-> x + more(i)]]
           Body(f) == [i \in 0 .. n |-> IF i = 0 THEN 0 ELSE f[i - 1] + more(i)]
<1>1. n \in Nat /\ zero \in Nat /\ \A i \in 1 .. n : more(i) \in Nat
  <2>1. n \in Nat /\ \A i \in 1 .. n : kept[i].steps + 1 \in Nat
    <3>1. n \in Nat /\ \A i \in 1 .. n : kept[i] \in Record
      OBVIOUS
    <3>2. \A e \in Record : e.steps + 1 \in Nat
      BY DEF Record
    <3> QED BY <3>1, <3>2
  <2>2. \A x \in Nat : StepIndent * x \in Nat
    BY OptimizerBounds
  <2> QED BY <2>1, <2>2
<1> HIDE DEF more
<1>2. step \in [1 .. n -> [Nat -> Nat]]
  BY <1>1
<1> HIDE DEF n, step, zero
<1>3. PICK f \in [0 .. n -> Nat] : Stepwise(f, n, zero, step)
  BY <1>1, <1>2, Recursion, Zenon
<1>4. f[0] = 0 /\ \A i \in 1 .. n : f[i] = f[i - 1] + more(i)
  <2>1. \A i \in 1 .. n : i - 1 \in 0 .. n
    BY <1>1
  <2> QED BY <1>3, <2>1 DEF Stepwise, step, zero
<1>5. f = Body(f)
  BY <1>1, <1>4
<1>6. sum = CHOOSE g : g = Body(g)
  BY DEF Indents, n, more
<1>7. sum = Body(sum)
  <2> HIDE DEF sum, Body
  <2> QED BY <1>5, <1>6
<1> HIDE DEF sum
<1>8. sum[0] = 0 /\ \A i \in 1 .. n : sum[i] = sum[i - 1] + more(i)
  BY <1>1, <1>7
<1>9. sum[n] \in Nat
  <2> DEFINE P == {i \in 0 .. n : sum[i] \in Nat}
  <2>1. 0 \in P
    BY <1>1, <1>8
  <2>2. ASSUME NEW i \in 1 .. n, i - 1 \in P PROVE i \in P
    <3>1. i \in 0 .. n /\ more(i) \in Nat /\ sum[i - 1] \in Nat
      BY <1>1, <2>2
    <3> QED BY <1>8, <3>1
  <2>3. \A i \in 0 .. n : i \in P
    <3> HIDE DEF P
    <3> QED BY <1>1, <2>1, <2>2, Induction
  <2> QED BY <1>1, <2>3
<1> QED BY <1>9 DEF sum, n

(* Whatever a request is given, its evidence in the prompt has a length. *)
LEMMA EvidenceIsMeasured == \A e \in Evidence : EvidenceText[e] \in Nat
<1> SUFFICES ASSUME NEW e \in Evidence PROVE EvidenceText[e] \in Nat
  OBVIOUS
<1>1. e.tasks \in [Kinds -> Seq(Task)] /\ e.learned \in Nat /\ e.recent \in Attempt
  BY EvidenceType
<1>2. ASSUME NEW kind \in Kinds PROVE SectionText(Sections[e][kind]) \in Nat
  <2>1. Sections[e][kind] = Section(e.tasks[kind], kind)
    BY DEF Sections
  <2>2. e.tasks[kind] \in Seq(Task)
    BY <1>1
  <2>3. FitLen(Section(e.tasks[kind], kind)) \in Nat
        /\ Section(e.tasks[kind], kind).kept \in Seq(Record)
    BY <2>2, SectionIs
  <2>4. Indents(Section(e.tasks[kind], kind).kept)[Len(Section(e.tasks[kind], kind).kept)] \in Nat
    BY <2>3, IndentsType
  <2> QED BY <2>1, <2>3, <2>4 DEF SectionText
<1>3. RecentText(FitRecent(e.recent)) \in Nat
  <2> DEFINE fit == FitRecent(e.recent)
  <2>1. fit.len \in Nat /\ fit.deltas + 1 \in Nat
    BY <1>1, RecentIs
  <2> HIDE DEF fit
  <2>2. \A x \in Nat : StepIndent * x \in Nat
    BY OptimizerBounds
  <2>3. RecentText(fit) \in Nat
    BY <2>1, <2>2 DEF RecentText
  <2> QED BY <2>3 DEF fit
<1>4. AtMost(e.learned, Learnings) \in Nat
  BY <1>1 DEF AtMost, Learnings
<1>5. "failed" \in Kinds /\ "passed" \in Kinds /\ "infra_error" \in Kinds
  BY DEF Kinds
<1>6. EvidenceText[e] = SectionText(Sections[e]["failed"]) + SectionText(Sections[e]["passed"])
                          + SectionText(Sections[e]["infra_error"])
                          + AtMost(e.learned, Learnings) + RecentText(FitRecent(e.recent))
  BY DEF EvidenceText
<1> QED BY <1>2, <1>3, <1>4, <1>5, <1>6

-----------------------------------------------------------------------------
(* The state. *)

(* A model is called at most twice, and the answer to the repair is the last. *)
CallsInv ==
    /\ pc = "prompt" => calls = 0
    /\ pc = "ask" => calls <= 1

(* A prompt that was short enough for the model is for the fixed edits. *)
FitsInv == pc = "ask" \/ (pc \in {"fixed", "raised"} /\ calls > 0) => PromptFits(FixedNote)

(* So nothing but the edits can fail after a call. *)
RaisedInv == pc = "raised" /\ calls > 0 => ~Runnable(Edited(agent))

(* Guidance that was injected shows, so that it is not injected again. *)
Sound(a) ==
    \A g \in Guidance \ {"verify"} : a.copies[g] = 0 \/ (a.copies[g] = 1 /\ g \in a.shows)

IInv ==
    /\ TypeOK /\ CallsInv /\ FitsInv /\ RaisedInv /\ RunnableAgents
    /\ Sound(agent) /\ Sound(proposal)

-----------------------------------------------------------------------------
(* The operators of the state. *)

LEMMA PromptMeasure ==
    ASSUME TypeOK
    PROVE  EvidenceText[given] \in Nat /\ agent.size \in Nat
  BY EvidenceIsMeasured DEF TypeOK, Agent

LEMMA ModelNoteIsLonger ==
    ASSUME TypeOK, PromptFits(ModelNote)
    PROVE  PromptFits(FixedNote)
  BY PromptMeasure DEF PromptFits, ModelNote, FixedNote, Headings, MaxPrompt

LEMMA NewAgents ==
    ASSUME NEW a \in Rewrites \cup {Template}
    PROVE  a \in Agent /\ Sound(a)
<1>1. a \in Agent /\ a.copies = NotInjected
  BY AgentsType, NoneInjected
<1> QED  BY <1>1 DEF Sound, NotInjected

(* Fixed edits keep the type, and inject only what does not show. *)
LEMMA EditedIs ==
    ASSUME NEW a \in Agent
    PROVE  /\ Edited(a) \in Agent
           /\ Edited(a).shows = a.shows \cup (Missing(a) \ {"verify"})
           /\ \A g \in Guidance :
                Edited(a).copies[g] = a.copies[g] + (IF g \in Missing(a) THEN 1 ELSE 0)
           /\ Edited(a).valid <=> (a.valid /\ (a.inString \/ Missing(a) = {}))
           /\ Missing(a) = {} => Edited(a).size = a.size
<1> DEFINE Added(g) == IF g \in Missing(a) THEN 1 ELSE 0
           size == a.size + Added("todo") * SnippetLen.todo
                     + Added("noninteractive") * SnippetLen.noninteractive
                     + Added("verify") * SnippetLen.verify
           copies == [g \in Guidance |-> a.copies[g] + Added(g)]
           shows == a.shows \cup (Missing(a) \ {"verify"})
           valid == a.valid /\ (a.inString \/ Missing(a) = {})
<1>1. a.size \in Nat /\ a.copies \in [Guidance -> Nat] /\ a.shows \subseteq Guidance
      /\ a.valid \in BOOLEAN /\ a.inString \in BOOLEAN
  BY DEF Agent
<1>2. Edited(a) = [shows |-> shows, size |-> size, valid |-> valid,
                   inString |-> a.inString, copies |-> copies]
  BY DEF Edited
<1>3. SnippetLen.todo = 55 /\ SnippetLen.noninteractive = 64 /\ SnippetLen.verify = 71
  BY DEF SnippetLen
<1>4. size \in Nat /\ (Missing(a) = {} => size = a.size)
  BY <1>1, <1>3
<1>5. copies \in [Guidance -> Nat]
  BY <1>1
<1>6. shows \in SUBSET Guidance
  BY <1>1 DEF Missing
<1>7. valid \in BOOLEAN
  OBVIOUS
<1> HIDE DEF size, copies, shows, valid
<1>8. Edited(a) \in Agent
  BY <1>1, <1>2, <1>4, <1>5, <1>6, <1>7 DEF Agent
<1>9. /\ Edited(a).shows = shows /\ Edited(a).copies = copies
      /\ Edited(a).valid = valid /\ Edited(a).size = size
  BY <1>2
<1> QED  BY <1>4, <1>8, <1>9 DEF shows, copies, valid

LEMMA EditedIsSound ==
    ASSUME NEW a \in Agent, Sound(a)
    PROVE  Sound(Edited(a))
<1> SUFFICES ASSUME NEW g \in Guidance \ {"verify"}
             PROVE  \/ Edited(a).copies[g] = 0
                    \/ Edited(a).copies[g] = 1 /\ g \in Edited(a).shows
  BY DEF Sound
<1>1. a.copies[g] = 0 \/ (a.copies[g] = 1 /\ g \in a.shows)
  BY DEF Sound
<1>2. CASE g \in Missing(a)
  <2>1. a.copies[g] = 0
    BY <1>1, <1>2 DEF Missing
  <2> QED  BY <1>2, <2>1, EditedIs
<1>3. CASE g \notin Missing(a)
  <2>1. Edited(a).copies[g] = a.copies[g] + 0
    BY <1>3, EditedIs
  <2>2. g \in Edited(a).shows <=> g \in a.shows
    BY <1>3, EditedIs
  <2> QED  BY <1>1, <2>1, <2>2
<1> QED  BY <1>2, <1>3

(* Fixed edits of an agent that runs fail only where they inject something. *)
LEMMA EditsFailByThemselves ==
    ASSUME NEW a \in Agent, Runnable(a), ~Runnable(Edited(a))
    PROVE  /\ Missing(a) # {}
           /\ ~a.inString \/ Edited(a).size > MaxAgent
<1>1. Edited(a).size \in Nat /\ a.size \in Nat
  BY EditedIs DEF Agent
<1> QED  BY <1>1, EditedIs DEF Runnable, MaxAgent

-----------------------------------------------------------------------------
(* The steps. *)

LEMMA InitInv == Init => IInv
<1> SUFFICES ASSUME Init
             PROVE  IInv
  OBVIOUS
<1>1. configured \in {"llm", "heuristic"}
  BY DEF Init, EffectiveMode
<1>2. TypeOK
  BY <1>1, AgentsType, OptimizerBounds DEF Init, TypeOK
<1>3. RunnableAgents
  BY TemplateRuns DEF Init, RunnableAgents
<1>4. Sound(agent) /\ Sound(proposal)
  BY NewAgents DEF Init
<1>5. CallsInv /\ FitsInv /\ RaisedInv
  BY DEF Init, CallsInv, FitsInv, RaisedInv
<1> QED  BY <1>2, <1>3, <1>4, <1>5 DEF IInv

LEMMA RequestStep ==
    ASSUME IInv, NEW e \in Evidence, Request(e)
    PROVE  IInv'
<1> USE DEF IInv, Request
<1>1. TypeOK'
  BY OptimizerBounds DEF TypeOK
<1>2. CallsInv' /\ FitsInv' /\ RaisedInv'
  BY DEF CallsInv, FitsInv, RaisedInv
<1>3. RunnableAgents' /\ Sound(agent)' /\ Sound(proposal)'
  BY DEF RunnableAgents
<1> QED  BY <1>1, <1>2, <1>3

(* The steps up to the model's answer, and the answers that are no proposal. *)
LEMMA CallStep ==
    ASSUME IInv, Prompt \/ Fails \/ Malformed
    PROVE  IInv'
<1> USE DEF IInv, Prompt, Fails, Malformed
<1>0. calls \in 0 .. 2 /\ UNCHANGED <<agent, given, proposal>>
  BY DEF TypeOK
<1>1. TypeOK'
  BY <1>0 DEF TypeOK, CallsInv
<1>2. CallsInv'
  BY <1>0 DEF CallsInv
<1>3. pc' = "ask" \/ (pc' \in {"fixed", "raised"} /\ calls' > 0)
        => PromptFits(FixedNote)
  BY <1>0, ModelNoteIsLonger DEF FitsInv, CallsInv
<1>4. FitsInv'
  BY <1>0, <1>3 DEF FitsInv, PromptFits
<1>5. RaisedInv' /\ RunnableAgents' /\ Sound(agent)' /\ Sound(proposal)'
  BY <1>0 DEF RaisedInv, RunnableAgents
<1> QED  BY <1>1, <1>2, <1>4, <1>5

LEMMA RewrittenStep ==
    ASSUME IInv, NEW a \in Rewrites, Rewritten(a)
    PROVE  IInv'
<1> USE DEF IInv, Rewritten
<1>0. a \in Agent /\ Sound(a)
  BY NewAgents
<1>1. calls \in 0 .. 1 /\ UNCHANGED <<agent, given>>
  BY DEF TypeOK, CallsInv
<1>2. TypeOK'
  BY <1>0, <1>1 DEF TypeOK
<1>3. CallsInv' /\ RaisedInv'
  BY DEF CallsInv, RaisedInv
<1>4. FitsInv'
  BY <1>1 DEF FitsInv, PromptFits
<1>5. RunnableAgents'
  BY <1>1 DEF RunnableAgents
<1>6. Sound(agent)' /\ Sound(proposal)'
  BY <1>0, <1>1
<1> QED  BY <1>2, <1>3, <1>4, <1>5, <1>6

LEMMA FixStep ==
    ASSUME IInv, Fix
    PROVE  IInv'
<1> USE DEF IInv, Fix
<1>0. Edited(agent) \in Agent /\ Sound(Edited(agent))
  BY EditedIs, EditedIsSound DEF TypeOK
<1>1. UNCHANGED <<agent, given, calls>>
  OBVIOUS
<1>2. TypeOK'
  BY <1>0 DEF TypeOK
<1>3. CallsInv'
  BY DEF CallsInv
<1>4. FitsInv'
  BY <1>1 DEF FitsInv, PromptFits
<1>5. RaisedInv'
  BY <1>1 DEF RaisedInv, FitsInv
<1>6. RunnableAgents'
  BY <1>1 DEF RunnableAgents
<1>7. Sound(agent)' /\ Sound(proposal)'
  BY <1>0, <1>1
<1> QED  BY <1>2, <1>3, <1>4, <1>5, <1>6, <1>7

LEMMA JudgeStep ==
    ASSUME IInv, Judge
    PROVE  IInv'
<1> USE DEF IInv, Judge
<1>1. agent' \in {agent, proposal} /\ proposal' = proposal /\ pc' \in {"over", "idle"}
  OBVIOUS
<1>2. TypeOK'
  BY <1>1 DEF TypeOK
<1>3. CallsInv' /\ FitsInv' /\ RaisedInv'
  BY DEF CallsInv, FitsInv, RaisedInv
<1>4. RunnableAgents'
  BY <1>1 DEF RunnableAgents
<1>5. Sound(agent)' /\ Sound(proposal)'
  BY <1>1
<1> QED  BY <1>2, <1>3, <1>4, <1>5

LEMMA StepInv == IInv /\ [Next]_vars => IInv'
<1> SUFFICES ASSUME IInv, [Next]_vars
             PROVE  IInv'
  OBVIOUS
<1>1. CASE UNCHANGED vars
  BY <1>1 DEF vars, IInv, TypeOK, CallsInv, FitsInv, PromptFits, RaisedInv, RunnableAgents
<1> QED  BY <1>1, RequestStep, CallStep, RewrittenStep, FixStep, JudgeStep DEF Next

LEMMA InvHolds == Spec => []IInv
  BY InitInv, StepInv, PTL DEF Spec

-----------------------------------------------------------------------------
(* Every reachable state is well-typed; a request calls the model at most twice. *)
THEOREM TypeCorrect == Spec => []TypeOK
<1>1. IInv => TypeOK
  BY DEF IInv
<1> QED  BY <1>1, InvHolds, PTL

(* However rewrites, fall backs and rejections follow each other, the best
   version and every proposal can run. *)
THEOREM VersionsRun == Spec => []RunnableAgents
<1>1. IInv => RunnableAgents
  BY DEF IInv
<1> QED  BY <1>1, InvHolds, PTL

(* Whatever a model answers, a request that called it fails only by what the
   fixed edits inject. *)
THEOREM FailuresStayContained == Spec => []ModelFailuresAreContained
<1>1. IInv => ModelFailuresAreContained
  BY EditsFailByThemselves
     DEF IInv, TypeOK, RaisedInv, RunnableAgents, ModelFailuresAreContained
<1> QED  BY <1>1, InvHolds, PTL

(* The guidance on planning and on interaction is injected at most once. *)
THEOREM EditsAreMadeOnce == Spec => []GuidanceIsAddedOnce
<1>1. IInv => GuidanceIsAddedOnce
  BY DEF IInv, Sound, GuidanceIsAddedOnce
<1> QED  BY <1>1, InvHolds, PTL

(* Whatever records come in whatever order, every section that a prompt is built
   of is within its limit, keeps its records whole and in order, and leaves out
   only what does not fit; the account of the last attempt is within its limit
   unless escaping adds more than 4400 characters to the first 1200 of its diff,
   however much it adds to the others. *)
THEOREM BudgetsAreKept == Spec => []RoomIsUsed
<1>1. ASSUME TypeOK PROVE RoomIsUsed
  <2>1. /\ given \in Evidence /\ given.tasks \in [Kinds -> Seq(Task)]
        /\ given.recent \in Attempt
    BY <1>1, EvidenceType DEF TypeOK
  <2>2. ASSUME NEW kind \in Kinds
        PROVE  FillsItsRoom(Sections[given][kind], SectionLimit[kind])
    <3>1. given.tasks[kind] \in Seq(Task)
      BY <2>1
    <3>2. FillsItsRoom(Section(given.tasks[kind], kind), SectionLimit[kind])
      BY <3>1, SectionIs
    <3>3. Sections[given][kind] = Section(given.tasks[kind], kind)
      BY <2>1 DEF Sections
    <3> QED BY <3>2, <3>3
  <2>3. given.recent.head <= 4400 => FitRecent(given.recent).len <= RecentLimit
    BY <2>1, RecentIs
  <2> QED BY <2>2, <2>3 DEF RoomIsUsed
<1> QED BY <1>1, TypeCorrect, PTL
=============================================================================
