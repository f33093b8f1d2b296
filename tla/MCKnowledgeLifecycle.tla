------------------------ MODULE MCKnowledgeLifecycle ------------------------
(* Instances of KnowledgeLifecycle for TLC.                                *)
EXTENDS KnowledgeLifecycle, TLC

\* Calls differ only in what they do.
CallSymmetry == Permutations(Calls)
=============================================================================
