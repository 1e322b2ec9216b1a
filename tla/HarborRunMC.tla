------------------------------ MODULE HarborRunMC ------------------------------
(* A small instance of HarborRun: one task, so that an iteration's directory and
   lists are a few values and two iterations can be followed. *)
EXTENDS HarborRun

CONSTANT t1

OneTask == <<t1>>
=============================================================================
