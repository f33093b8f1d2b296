--------------------------- MODULE MCDraftDocument ---------------------------
(* Instances of DraftDocument for TLC.                                     *)
EXTENDS DraftDocument, TLC

CONSTANTS p1, p2

\* One section of two paragraphs, which may be regenerated together or alone.
MCSections == {{p1, p2}}

\* Calls differ only in what they do.
CallSymmetry == Permutations(Calls)
=============================================================================
