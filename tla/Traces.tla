--------------------------------- MODULE Traces ---------------------------------
(***************************************************************************)
(* What the listeners that mail traces and the one that writes them to     *)
(* files have in common: each trace is written once, and null is no trace. *)
(***************************************************************************)
EXTENDS FiniteSets

CONSTANTS
  Trace,  \* the traces written, each once
  None    \* the null reference

ASSUME TraceAssumption == IsFiniteSet(Trace) /\ None \notin Trace
================================================================================
