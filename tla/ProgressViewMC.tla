---------------------------- MODULE ProgressViewMC ----------------------------
(* Two tasks and up to two iterations: an iteration has a first and a last task *)
(* and, before it or after it, another whose row is read at another moment.     *)
EXTENDS ProgressView

MCTasks == <<"regex-log", "cobol-modernization">>

(* One response is followed; what the writers do after it changes nothing in it. *)
OneResponse == rpc # "over"
=============================================================================
