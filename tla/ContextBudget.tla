---------------------------- MODULE ContextBudget -----------------------------
(***************************************************************************)
(* How the optimizer cuts its evidence down to a prompt (app/optimizer.py): *)
(* the steps of a trace, the records of a section, the last attempt. Texts  *)
(* are their numbers of characters as JSON, limits those of the code.       *)
(***************************************************************************)
EXTENDS Integers, SequencesExt, FiniteSetsExt

Kinds        == {"failed", "passed", "infra_error"}
TaskLimit    == [failed |-> 8, passed |-> 4, infra_error |-> 8]
TraceLimit   == [failed |-> 6000, passed |-> 1500, infra_error |-> 6000]
SectionLimit == [failed |-> 18000, passed |-> 4000, infra_error |-> 3000]

VerifierLimit == 1500
RecentLimit   == 6000
NoteLen       == 56        \* {"_note": "3 task context(s) omitted by section budget"}
StepNoteLen   == 42        \* {"_note": "\u20263 earlier steps omitted"}
RecentNoteLen == 62        \* , "_note": "Per-task deltas omitted by recent-attempt budget."
TraceKeyLen   == 11        \* , "trace":
MinRoom       == 80        \* a record is not tried in less room than this
MinTrace      == 80        \* a trace is not clipped to less
Reserve       == 160       \* of the room, for the rest of a record

(* A task: its record without trace and verifier, the verifier's report, the
   steps of its trace or, of a trace that is no list of messages, its text, and
   the percentage that escaping adds each time such text becomes a JSON string:
   taken to be spread evenly, since a record is measured after its trace is cut. *)
Task == [base : Nat, verifier : Nat, steps : Seq(Nat), text : Nat, escapes : Nat]

AtMost(x, y) == IF x <= y THEN x ELSE y
AtLeast(x, y) == IF x >= y THEN x ELSE y

(* The length of a JSON list of the first n elements: brackets, and ", " between. *)
ListLens(lens) ==
    LET total[n \in 0 .. Len(lens)] ==
            IF n = 0 THEN 2 ELSE total[n - 1] + lens[n] + (IF n = 1 THEN 0 ELSE 2)
    IN  total

ListLen(lens) == ListLens(lens)[Len(lens)]

-----------------------------------------------------------------------------
(* format_trace: the longest run of steps that fits, from the end of a failure
   and from the start of a success; and a note of what is missing, if it fits. *)
Packed(steps, kind) ==
    LET from == IF kind # "passed" THEN Reverse(steps) ELSE steps
        lens == ListLens(from)
        kept == SubSeq(from, 1, Max({n \in DOMAIN lens :
                                       n = 0 \/ lens[n] <= TraceLimit[kind]}))
        noted == Append(kept, StepNoteLen)
    IN  IF kept # from /\ ListLen(noted) <= TraceLimit[kind] THEN noted ELSE kept

(* Part of a text as a JSON string without its quotes: the characters kept, what
   is escaped of them, and an ellipsis of six characters for what is not kept. *)
Quoted(kept, escapes, cut) ==
    kept + (kept * escapes) \div 100 + (IF cut THEN 6 ELSE 0)

(* _clip, whose ellipsis is one of the limit's characters. *)
Clip(len, limit, escapes) ==
    IF len <= limit THEN Quoted(len, escapes, FALSE) ELSE Quoted(limit - 1, escapes, TRUE)

(* summarize_verifier: beyond the limit the report's text is cut to a string. *)
Verifier(task) ==
    IF task.verifier <= VerifierLimit THEN task.verifier
    ELSE 2 + Quoted(VerifierLimit, task.escapes, TRUE)

(* build_task_context of one task; no trace is no key. A text is clipped before
   it is escaped, so that as JSON it may exceed the limit of its kind. *)
Entry(task, kind) ==
    LET packed == Packed(task.steps, kind)
    IN  [base |-> task.base + Verifier(task), escapes |-> task.escapes,
         steps |-> IF task.text > 0 THEN 0 ELSE Len(packed),
         trace |-> IF task.text > 0 THEN 2 + Clip(task.text, TraceLimit[kind], task.escapes)
                   ELSE IF packed = <<>> THEN 0 ELSE ListLen(packed)]

(* Tasks beyond the limit are left out, and counted nowhere. *)
Entries(tasks, kind) ==
    [i \in 1 .. AtMost(Len(tasks), TaskLimit[kind]) |-> Entry(tasks[i], kind)]

EntryLen(e) == e.base + IF e.trace = 0 THEN 0 ELSE TraceKeyLen + e.trace

(* The trace's text is clipped, and then is a string, not a list of steps. *)
Clipped(e, limit) == [e EXCEPT !.trace = 2 + Clip(@, limit, e.escapes), !.steps = 0]

Lens(entries) == [i \in DOMAIN entries |-> EntryLen(entries[i])]

(* Mutant of Take: the rest is not looked at once a record has been left out. *)
MutTake(acc, i, e, budget) ==
    LET room == budget - ListLen(Lens(acc.kept))
        cand == IF EntryLen(e) > room /\ e.trace > 0
                  THEN Clipped(e, AtLeast(MinTrace, room - Reserve)) ELSE e
    IN  IF acc.over \/ room <= MinRoom \/ ListLen(Lens(Append(acc.kept, cand))) > budget
          THEN [acc EXCEPT !.over = TRUE]
          ELSE [acc EXCEPT !.kept = Append(@, cand), !.from = Append(@, i)]

(* One turn of fit_context_budget's loop: acc.kept are the records so far,
   acc.from the positions they come from, acc.over whether one was left out. *)
Take(acc, i, e, budget) ==
    LET room == budget - ListLen(Lens(acc.kept))
        cand == IF EntryLen(e) > room /\ e.trace > 0
                  THEN Clipped(e, AtLeast(MinTrace, room - Reserve)) ELSE e
    IN  IF room <= MinRoom \/ ListLen(Lens(Append(acc.kept, cand))) > budget
          THEN [acc EXCEPT !.over = TRUE]
          ELSE [acc EXCEPT !.kept = Append(@, cand), !.from = Append(@, i)]

(* The loop after each of its turns. *)
Turns(entries, budget) ==
    LET turn[i \in 0 .. Len(entries)] ==
            IF i = 0 THEN [kept |-> <<>>, from |-> <<>>, over |-> FALSE]
                     ELSE Take(turn[i - 1], i, entries[i], budget)
    IN  turn

(* fit_context_budget: which records are kept, and whether a note says that
   some were not. *)
Fit(entries, budget) ==
    LET all == Turns(entries, budget)[Len(entries)]
    IN  [entries |-> entries, kept |-> all.kept, from |-> all.from,
         note |-> /\ all.over
                  /\ ListLen(Append(Lens(all.kept), NoteLen)) <= budget]

FitLen(fit) ==
    ListLen(IF fit.note THEN Append(Lens(fit.kept), NoteLen) ELSE Lens(fit.kept))

Section(tasks, kind) == Fit(Entries(tasks, kind), SectionLimit[kind])

(* fit_recent_attempt: an attempt is its fixed fields, which are numbers, a diff,
   what escaping adds to the diff's first 1200 characters and to the others up to
   3500, and the lengths of the tasks' deltas. *)
Attempt == {a \in [rest : 0 .. 300, diff : Nat, head : Nat, tail : Nat, deltas : Seq(Nat)] :
               a.diff <= 1200 => a.tail = 0}

(* The attempt's length and the deltas it keeps. The last cut is not measured. *)
FitRecent(a) ==
    LET Kept(limit) == IF a.diff <= limit THEN a.diff ELSE limit - 1 + 6
        deltas == SubSeq(a.deltas, 1, AtMost(Len(a.deltas), 16))
        whole  == a.rest + Kept(3500) + a.head + a.tail + ListLen(deltas)
        bare   == a.rest + Kept(3500) + a.head + a.tail + RecentNoteLen + 2
        short  == a.rest + Kept(1200) + a.head + RecentNoteLen + 2
    IN  IF whole <= RecentLimit THEN [len |-> whole, deltas |-> Len(deltas)]
        ELSE [len |-> IF bare <= RecentLimit THEN bare ELSE short, deltas |-> 0]
=============================================================================
