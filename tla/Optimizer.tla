------------------------------ MODULE Optimizer -------------------------------
(***************************************************************************)
(* Optimizer.propose (app/optimizer.py) over the proposals of a job: the    *)
(* prompt, the model's answer and its one repair, the fall back to fixed    *)
(* edits, and the validation that every proposal goes through. The model is *)
(* external: it answers anything, or raises.                                *)
(***************************************************************************)
EXTENDS ContextBudget

CONSTANTS Evidence,       \* what a request may be given of tasks and history
          Rewrites,       \* agents the model may write
          Template,       \* the agent of version 0
          StepIndent,     \* what the prompt's indentation adds to a step
          MaxProposals    \* bound: proposals of a job

MaxAgent  == 30000
MaxPrompt == 72000
Headings  == 950          \* the prompt's fixed text
ModelNote == 1250         \* mode_note, and the mode's name
FixedNote == 150
Learnings == 6000         \* _LEARNINGS_CHARS, of which _clip_tail keeps the end

(* An agent's source: the guidance whose wording it shows, its size, whether it
   is a module with a HarnessAgent, whether text injected into it lands in a
   string, and the copies of each guidance injected since a model wrote it. *)
Guidance == {"todo", "noninteractive", "verify"}
Agent == [shows : SUBSET Guidance, size : Nat, valid : BOOLEAN, inString : BOOLEAN,
          copies : [Guidance -> Nat]]

NotInjected == [g \in Guidance |-> 0]

(* _validate_agent. *)
Runnable(a) == a.valid /\ a.size <= MaxAgent

ASSUME AgentsType == Rewrites \subseteq Agent /\ Template \in Agent
ASSUME NoneInjected == \A a \in Rewrites \cup {Template} : a.copies = NotInjected
ASSUME TemplateRuns == Runnable(Template)
ASSUME EvidenceType ==
    Evidence \subseteq [tasks : [Kinds -> Seq(Task)], learned : Nat, recent : Attempt]
ASSUME OptimizerBounds == StepIndent \in Nat /\ MaxProposals \in Nat

(* What the budgets leave of each section of a request's evidence. *)
Sections == [e \in Evidence |-> [kind \in Kinds |-> Section(e.tasks[kind], kind)]]

(* Its text in the prompt: indented, so longer than what the budgets count. *)
Indents(kept) ==
    LET sum[n \in 0 .. Len(kept)] ==
            IF n = 0 THEN 0 ELSE sum[n - 1] + StepIndent * (kept[n].steps + 1)
    IN  sum

SectionText(fit) == FitLen(fit) + Indents(fit.kept)[Len(fit.kept)]

RecentText(recent) == recent.len + StepIndent * (recent.deltas + 1)

EvidenceText ==
    [e \in Evidence |->
        SectionText(Sections[e]["failed"]) + SectionText(Sections[e]["passed"])
          + SectionText(Sections[e]["infra_error"])
          + AtMost(e.learned, Learnings) + RecentText(FitRecent(e.recent))]

(* effective_mode, of OPTIMIZER_MODE and of whether there is an API key. *)
EffectiveMode(setting, key) ==
    IF setting = "auto" THEN (IF key THEN "llm" ELSE "heuristic") ELSE setting

VARIABLES
    configured, \* the effective mode of this service
    agent,      \* current_agent: the best version's source
    given,      \* the evidence of this request
    pc,         \* where the request is
    calls,      \* calls of the model in this request
    proposal,   \* agent_content of the last proposal
    mode,       \* its optimizer_mode
    count       \* requests so far

vars == <<configured, agent, given, pc, calls, proposal, mode, count>>

TypeOK ==
    /\ configured \in {"llm", "heuristic"}
    /\ agent \in Agent /\ proposal \in Agent
    /\ given \in Evidence
    /\ pc \in {"idle", "prompt", "ask", "fixed", "done", "raised", "over"}
    /\ calls \in 0 .. 2
    /\ mode \in {"llm", "heuristic"}
    /\ count \in 0 .. MaxProposals

Init ==
    /\ \E setting \in {"auto", "llm", "heuristic"}, key \in BOOLEAN :
          configured = EffectiveMode(setting, key)
    /\ agent = Template /\ proposal = Template
    /\ given \in Evidence
    /\ pc = "idle" /\ calls = 0 /\ mode = "heuristic" /\ count = 0

-----------------------------------------------------------------------------
(* build_optimizer_prompt raises on an agent or a prompt that is too long. *)
PromptFits(note) ==
    /\ agent.size <= MaxAgent
    /\ Headings + note + agent.size + EvidenceText[given] <= MaxPrompt

(* Mutant of Missing: guidance is looked for in the wording of the template. *)
MutMissing(a) == Guidance \ {"verify"}

(* The guidance whose wording the agent does not show. *)
Missing(a) == Guidance \ a.shows

SnippetLen == [todo |-> 55, noninteractive |-> 64, verify |-> 71]

(* The fixed edits. The snippet on verification, "verify your solution with a
   concrete check before finishing", does not contain the wording it is added
   for, "verify your solution before finishing". Text that does not land in a
   string is a syntax error. *)
Edited(a) ==
    LET Added(g) == IF g \in Missing(a) THEN 1 ELSE 0
    IN  [shows    |-> a.shows \cup (Missing(a) \ {"verify"}),
         size     |-> a.size + Added("todo") * SnippetLen.todo
                        + Added("noninteractive") * SnippetLen.noninteractive
                        + Added("verify") * SnippetLen.verify,
         valid    |-> a.valid /\ (a.inString \/ Missing(a) = {}),
         inString |-> a.inString,
         copies   |-> [g \in Guidance |-> a.copies[g] + Added(g)]]

-----------------------------------------------------------------------------
(* propose: the processor hands over the best version and its results. *)
Request(e) ==
    /\ pc = "idle" /\ count < MaxProposals
    /\ given' = e
    /\ count' = count + 1 /\ calls' = 0
    /\ pc' = IF configured = "llm" THEN "prompt" ELSE "fixed"
    /\ UNCHANGED <<configured, agent, proposal, mode>>

(* _propose_llm, up to the first call. Whatever it raises is caught in propose. *)
Prompt ==
    /\ pc = "prompt"
    /\ pc' = IF PromptFits(ModelNote) THEN "ask" ELSE "fixed"
    /\ UNCHANGED <<configured, agent, given, calls, proposal, mode, count>>

(* The call raises, its answer has no choices, or it repeats the agent. *)
Fails ==
    /\ pc = "ask"
    /\ calls' = calls + 1
    /\ pc' = "fixed"
    /\ UNCHANGED <<configured, agent, given, proposal, mode, count>>

(* Mutant of Malformed: the repaired answer is parsed outside the try. *)
MutMalformed ==
    /\ pc = "ask"
    /\ calls' = calls + 1
    /\ pc' = IF calls = 0 THEN "ask" ELSE "raised"
    /\ UNCHANGED <<configured, agent, given, proposal, mode, count>>

(* Mutant of Malformed: repairs are asked for without end. *)
MutMalformedAgain ==
    /\ pc = "ask"
    /\ calls' = calls + 1
    /\ pc' = "ask"
    /\ UNCHANGED <<configured, agent, given, proposal, mode, count>>

(* The answer is no OptimizerResponse: one repair is asked for. *)
Malformed ==
    /\ pc = "ask"
    /\ calls' = calls + 1
    /\ pc' = IF calls = 0 THEN "ask" ELSE "fixed"
    /\ UNCHANGED <<configured, agent, given, proposal, mode, count>>

(* The answer is another agent; one that cannot run is an error. *)
Rewritten(a) ==
    /\ pc = "ask"
    /\ calls' = calls + 1
    /\ IF Runnable(a)
         THEN proposal' = a /\ mode' = "llm" /\ pc' = "done"
         ELSE pc' = "fixed" /\ UNCHANGED <<proposal, mode>>
    /\ UNCHANGED <<configured, agent, given, count>>

(* Mutant of Fix: the edited agent is not validated. *)
MutFix ==
    /\ pc = "fixed"
    /\ IF PromptFits(FixedNote)
         THEN proposal' = Edited(agent) /\ mode' = "heuristic" /\ pc' = "done"
         ELSE pc' = "raised" /\ UNCHANGED <<proposal, mode>>
    /\ UNCHANGED <<configured, agent, given, calls, count>>

(* _propose_heuristic, whose exceptions nobody catches: they fail the job. *)
Fix ==
    /\ pc = "fixed"
    /\ IF PromptFits(FixedNote) /\ Runnable(Edited(agent))
         THEN proposal' = Edited(agent) /\ mode' = "heuristic" /\ pc' = "done"
         ELSE pc' = "raised" /\ UNCHANGED <<proposal, mode>>
    /\ UNCHANGED <<configured, agent, given, calls, count>>

(* The processor stops on an agent that did not change; another is run, and is
   the best version if it scores better. *)
Judge ==
    /\ pc = "done"
    /\ IF mode = "heuristic" /\ Missing(agent) = {}
         THEN pc' = "over" /\ UNCHANGED agent
         ELSE pc' = "idle" /\ agent' \in {agent, proposal}
    /\ UNCHANGED <<configured, given, calls, proposal, mode, count>>

Next ==
    \/ \E e \in Evidence : Request(e)
    \/ Prompt \/ Fails \/ Malformed
    \/ \E a \in Rewrites : Rewritten(a)
    \/ Fix \/ Judge

Spec == Init /\ [][Next]_vars

-----------------------------------------------------------------------------
(* What is left of a section's records: they are within the limit, in order and
   whole but for their traces, and a record that was left out would not fit
   beside them, unless there is no room worth trying. *)
FillsItsRoom(fit, limit) ==
    LET room == limit - ListLen(Lens(fit.kept))
    IN  /\ FitLen(fit) <= limit
        /\ \A i, j \in DOMAIN fit.from : i < j => fit.from[i] < fit.from[j]
        /\ \A i \in DOMAIN fit.from : fit.kept[i].base = fit.entries[fit.from[i]].base
        /\ \A i \in DOMAIN fit.entries \ ToSet(fit.from) :
              room <= MinRoom \/ EntryLen(fit.entries[i]) > room - 2

(* The budgets are limits, and small records are not lost to large ones:
   whatever sizes come in whatever order, no section exceeds its limit, and a
   record that would still fit is in (optimizer.py:372, "Keep complete task records
   under one section budget"). The account of the last attempt is within its limit
   too, unless escaping adds more than 4400 characters to the first 1200 of its
   diff, as it does where most of those are outside ASCII: the last cut is not
   measured again (optimizer.py:416). *)
RoomIsUsed ==
    /\ \A kind \in Kinds : FillsItsRoom(Sections[given][kind], SectionLimit[kind])
    /\ given.recent.head <= 4400 => FitRecent(given.recent).len <= RecentLimit

(* Whatever the model does, a request that got as far as calling it fails only
   by the fixed edits themselves: the text they inject into an agent the model
   wrote earlier is not in a string there, or leaves the agent too long. *)
ModelFailuresAreContained ==
    pc = "raised" /\ calls > 0 =>
        /\ Missing(agent) # {}
        /\ ~agent.inString \/ Edited(agent).size > MaxAgent

(* Every version that is stored and run is a module with a HarnessAgent within
   the size limit, however rewrites and fixed edits follow each other. *)
RunnableAgents == Runnable(agent) /\ (pc = "done" => Runnable(proposal))

(* Fixed edits are made once, in whatever order requests fall back and
   candidates are rejected: no agent has two copies of the guidance on planning
   or on interaction. It is not so of the guidance on verification. *)
GuidanceIsAddedOnce ==
    \A g \in Guidance \ {"verify"} : agent.copies[g] <= 1 /\ proposal.copies[g] <= 1
=============================================================================
