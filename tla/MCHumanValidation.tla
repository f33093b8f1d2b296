------------------------- MODULE MCHumanValidation -------------------------
(* Instances of HumanValidation for TLC.                                   *)
EXTENDS HumanValidation

CONSTANTS a, b

\* Each mode, with the requests the schema lets through: no approver, no tier.
MCRequested ==
  {[mode |-> "simple", tiers |-> <<{a}>>],
   [mode |-> "multiple", tiers |-> <<{a, b}>>],
   [mode |-> "multiple", tiers |-> <<{}>>],
   [mode |-> "hierarchical", tiers |-> <<>>],
   [mode |-> "hierarchical", tiers |-> <<{a}, {b}>>]}
=============================================================================
