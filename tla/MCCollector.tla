------------------------------- MODULE MCCollector -------------------------------
(* Collector and its invariants for TLC; the cfg files give the limits. *)
EXTENDS CollectorInvariants
=============================================================================
