---------------------------- MODULE MCKafkaRestart ----------------------------
(* Two StrimziPodSets; which is which does not matter.                     *)
EXTENDS KafkaRestart, TLC
Symmetry == Permutations(PodSets)
==============================================================================
