----------------------------- MODULE MCAdmission -----------------------------
(***************************************************************************)
(* Admission for TLC: machines of up to MaxCores cores with one or two     *)
(* threads, a profile in the manner of ember-production and a lighter one, *)
(* evidence of each sort, negative numbers and other memory one at a time. *)
(***************************************************************************)
EXTENDS Admission

MCProfiles ==
  {[arch |-> "moe", memory |-> 1, ecc |-> TRUE, class |-> TRUE, cores |-> 2,
    accelerator |-> FALSE],
   [arch |-> "any", memory |-> 1, ecc |-> FALSE, class |-> FALSE, cores |-> 1,
    accelerator |-> TRUE]}

MCAmounts == {-1, 0, 1, 3}

MCEvidence ==
  [ecc : {"unknown", "pass", "fail"}, class : {"unknown"}, dedicated : {0, 1, 3},
   budget : {0, 1, 3}]
  \cup [ecc : {"unknown", "pass"}, class : {"pass", "preference_miss"}, dedicated : {0},
        budget : {0}]
  \cup [ecc : {"pass"}, class : {"unknown"}, dedicated : {-1}, budget : {1}]
  \cup [ecc : {"pass"}, class : {"unknown"}, dedicated : {3}, budget : {-1}]
=============================================================================
