----------------------------- MODULE OptimizerMC ------------------------------
(* A small instance of Optimizer, in the sizes of the code: up to three failed  *)
(* tasks of five shapes, among them one whose trace can be clipped to fit, one   *)
(* whose record is too large for that, one with many short steps and one whose   *)
(* trace is a text; requests whose sections are all full; attempts that are      *)
(* within the limit whole, without deltas, cut to 1200 characters, and not even  *)
(* then; agents near the limit.                                                 *)
EXTENDS Optimizer

Steps(n, len) == [i \in 1 .. n |-> len]

MCTask(base, verifier, steps, text, escapes) ==
    [base |-> base, verifier |-> verifier, steps |-> steps, text |-> text, escapes |-> escapes]

Plain  == MCTask(90,  0,    <<>>,           0,    0)
Brief  == MCTask(100, 60,   <<200, 300>>,   0,    2)
Long   == MCTask(300, 1600, Steps(12, 700), 0,    5)
Clean  == MCTask(90,  0,    Steps(12, 500), 0,    2)
Chatty == MCTask(120, 0,    Steps(80, 66),  0,    12)
Wrapped == MCTask(110, 0,   <<>>,           7000, 12)

MCAttempt(diff, head, tail) ==
    [rest |-> 250, diff |-> diff, head |-> head, tail |-> tail, deltas |-> Steps(20, 150)]

NoAttempt      == [rest |-> 0, diff |-> 0, head |-> 0, tail |-> 0, deltas |-> <<>>]
SmallAttempt   == MCAttempt(1100, 90, 0)
GreatAttempt   == MCAttempt(5000, 120, 260)
AccentAttempt  == MCAttempt(5000, 4400, 900)
ForeignAttempt == MCAttempt(5000, 5995, 0)

Asked(failed, passed, infra, learned, recent) ==
    [tasks |-> [failed |-> failed, passed |-> passed, infra_error |-> infra],
     learned |-> learned, recent |-> recent]

MCEvidence ==
    {Asked(s, <<>>, <<>>, 0, NoAttempt) :
       s \in BoundedSeq({Plain, Long, Clean, Chatty}, 3) \cup BoundedSeq({Long, Wrapped}, 2)}
    \cup {Asked(Steps(9, Plain), Steps(5, Brief), <<Long, Brief>>, 500, r) :
             r \in {NoAttempt, SmallAttempt}}
    \cup {Asked(Steps(3, Chatty), Steps(4, Chatty), <<Brief, Wrapped, Plain>>, 9000, r) :
             r \in {GreatAttempt, AccentAttempt, ForeignAttempt}}

MCRewrites ==
    [shows : {{}, {"todo", "verify"}, Guidance}, size : {6000, 29950, 30001},
     valid : BOOLEAN, inString : BOOLEAN, copies : {NotInjected}]

(* app/harness/template.py. *)
MCTemplate == [shows |-> {"verify"}, size |-> 7600, valid |-> TRUE, inString |-> TRUE,
               copies |-> NotInjected]
=============================================================================
