---------------------------- MODULE MCTemplateRegistry ----------------------------
(* TemplateRegistry and its invariants for TLC; editors, templates and contents are interchangeable. *)
EXTENDS TemplateInvariants, TLC

Interchangeable == Permutations(Editors) \union Permutations(Templates) \union Permutations(Contents)
=============================================================================
