---------------------------- MODULE MCJsonWriter ----------------------------
(* Instances of JsonWriter for TLC. *)
EXTENDS JsonWriter, TLC

Symmetry == Permutations(Threads)
=============================================================================
