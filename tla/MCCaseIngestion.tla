--------------------------- MODULE MCCaseIngestion ---------------------------
(* Instances of CaseIngestion for TLC.                                     *)
EXTENDS CaseIngestion, TLC

CONSTANTS d1, d2

MCDates == {"1 mai", "2 mai"}
MCDescriptions == {"signature", "livraison"}

\* The second document contradicts the first on its date, has its fact at another
\* date as well, and at last confirms it.
MCContent ==
  d1 :> <<[date |-> "1 mai", description |-> "signature"]>> @@
  d2 :> <<[date |-> "1 mai", description |-> "livraison"],
          [date |-> "2 mai", description |-> "signature"],
          [date |-> "1 mai", description |-> "signature"]>>
=============================================================================
